---------------------------- MODULE ShellParser ----------------------------
(***************************************************************************)
(* What the shell makes of a line: pipeline_build of                       *)
(* Challenge1/myshell_parser.c, and what the comment of its header says of *)
(* it, stated without scanning.                                            *)
(*                                                                         *)
(* A line is the sequence of its characters up to the newline, a word a    *)
(* sequence of characters.  An argument or a path whose first byte still   *)
(* is the mark '&' is the empty word, and so is a path set to NULL, for    *)
(* the two are told apart nowhere.                                         *)
(***************************************************************************)
EXTENDS Naturals, Sequences, FiniteSets, SequencesExt

(* struct pipeline_command, without its link: the commands of a pipeline   *)
(* are a sequence.                                                         *)
newCommand == [args |-> <<<<>>>>, redirect_in |-> <<>>, redirect_out |-> <<>>]

(* pipeline_build before its first character.  "paths" is ~mallocCheck.    *)
(* "background" is what is_background may be: malloc() gave the memory,    *)
(* and an '&' is the only thing that sets it.                              *)
Unread == [commands |-> <<newCommand>>, inCheck |-> FALSE, outCheck |-> FALSE,
           riCheck |-> 0, roCheck |-> 0, paths |-> FALSE, inputPos |-> 0,
           background |-> BOOLEAN, doubleRedirect |-> FALSE,
           ampersandPos |-> FALSE]

Stopped(s) == s.doubleRedirect \/ s.ampersandPos

-----------------------------------------------------------------------------
Current(s) == Len(s.commands)

Ampersand(s, size) ==
    [s EXCEPT !.background = {TRUE}, !.ampersandPos = s.inputPos # size - 2]

RedirectIn(s) ==
    [s EXCEPT !.inCheck = TRUE, !.outCheck = FALSE, !.riCheck = @ + 1,
              !.doubleRedirect = s.riCheck + 1 > 1]

RedirectOut(s) ==
    [s EXCEPT !.outCheck = TRUE, !.inCheck = FALSE, !.roCheck = @ + 1,
              !.doubleRedirect = s.roCheck + 1 > 1]

(* The argument vector ends before an argument that was never filled.      *)
Terminated(commands) ==
    [commands EXCEPT
        ![Len(commands)].args = IF Last(@) = <<>> THEN Front(@) ELSE @]

Bar(s) ==
    [s EXCEPT !.commands = Append(Terminated(@), newCommand),
              !.paths = FALSE, !.inCheck = FALSE, !.outCheck = FALSE]

(* A slip: a second space in a row opens an argument as the first does.    *)
SpaceAlways(s) ==
    IF ~s.inCheck /\ ~s.outCheck
    THEN [s EXCEPT !.commands[Current(s)].args = Append(@, <<>>)] ELSE s

(* A space opens the next argument, unless the last one is still empty or  *)
(* a path is being read: then the words that follow go on being the path.  *)
Space(s) ==
    IF Last(s.commands[Current(s)].args) # <<>> /\ ~s.inCheck /\ ~s.outCheck
    THEN [s EXCEPT !.commands[Current(s)].args = Append(@, <<>>)]
    ELSE s

characterInsert(s, letter) ==
    LET argument == Len(s.commands[Current(s)].args) IN
    CASE s.inCheck ->
           [s EXCEPT !.commands[Current(s)].redirect_in = Append(@, letter)]
      [] ~s.inCheck /\ s.outCheck ->
           [s EXCEPT !.commands[Current(s)].redirect_out = Append(@, letter)]
      [] OTHER ->
           [s EXCEPT !.commands[Current(s)].args[argument] = Append(@, letter)]

(* One turn of the loop of pipeline_build; after a break there is none.    *)
Turn(s, letter, size) ==
    LET r == [s EXCEPT !.paths = TRUE]
        t == CASE letter = "&" -> Ampersand(r, size)
               [] letter = "<" -> RedirectIn(r)
               [] letter = ">" -> RedirectOut(r)
               [] letter = "|" -> Bar(r)
               [] letter = " " -> Space(r)
               [] OTHER -> characterInsert(r, letter)
    IN IF Stopped(s) THEN s ELSE [t EXCEPT !.inputPos = @ + 1]

(* pipeline_build.  The paths of a command are allocated when the loop     *)
(* meets the command's first character; if it meets none, the test of the  *)
(* path after the loop goes through a pointer that was never set.          *)
pipeline_build(line) ==
    LET size  == Len(line) + 1
        Next(s, letter) == Turn(s, letter, size)
        s == FoldLeft(Next, Unread, line)
    IN [fault |-> ~s.paths,
        commands |-> Terminated(s.commands),
        is_background |-> s.background,
        doubleRedirectCheck |-> s.doubleRedirect,
        ampersandPosCheck |-> s.ampersandPos]

(* errorCheck of myshell.c: after the first command only the redirection   *)
(* of the input is looked at.                                              *)
errorCheck(commands) ==
    \E i \in DOMAIN commands :
        IF i > 1 THEN commands[i].redirect_in # <<>>
        ELSE i < Len(commands) /\ commands[i].redirect_out # <<>>

-----------------------------------------------------------------------------
(* The language of the lines, read off the example of the header:          *)
(* commands between bars; a command is words, then redirections, each to   *)
(* one word; '&' last, if at all.                                          *)

At(line, c) == {i \in DOMAIN line : line[i] = c}

(* The maximal runs of characters of the text that are outside marks.      *)
Runs(text, marks) ==
    LET Outside(i) == i \in DOMAIN text /\ text[i] \notin marks
        starts == {i \in DOMAIN text : Outside(i) /\ ~Outside(i - 1)}
        ends   == {i \in DOMAIN text : Outside(i) /\ ~Outside(i + 1)}
        Kth(S, k) == CHOOSE i \in S : Cardinality({j \in S : j <= i}) = k
    IN [k \in 1 .. Cardinality(starts) |->
           SubSeq(text, Kth(starts, k), Kth(ends, k))]

(* The text after the mark c, up to the next redirection or the end.       *)
After(text, c) ==
    LET i    == CHOOSE j \in At(text, c) : TRUE
        rest == SubSeq(text, i + 1, Len(text))
    IN IF At(text, c) = {} \/ rest = <<>> \/ rest[1] \in {"<", ">"} THEN <<>>
       ELSE Runs(rest, {"<", ">"})[1]

Before(text) ==
    IF text = <<>> \/ text[1] \in {"<", ">"} THEN <<>>
    ELSE Runs(text, {"<", ">"})[1]

Without(line) == SelectSeq(line, LAMBDA c : c # "&")
Texts(line)   == Runs(Without(line), {"|"})
Named(text, c) == Runs(After(text, c), {" "})

(* What a well formed text of a command means.                             *)
Meaning(text) ==
    [args |-> Runs(Before(text), {" "}),
     redirect_in  |-> IF At(text, "<") = {} THEN <<>> ELSE Named(text, "<")[1],
     redirect_out |-> IF At(text, ">") = {} THEN <<>> ELSE Named(text, ">")[1]]

WellFormed(line) ==
    LET texts == Texts(line) IN
    /\ At(line, "&") \subseteq {Len(line)}
    /\ Len(texts) = Cardinality(At(line, "|")) + 1
    /\ \A k \in DOMAIN texts :
          /\ Runs(Before(texts[k]), {" "}) # <<>>
          /\ \A c \in {"<", ">"} :
                At(texts[k], c) # {} =>
                   /\ Cardinality(At(texts[k], c)) = 1
                   /\ Len(Named(texts[k], c)) = 1
          /\ At(texts[k], "<") # {} => k = 1
          /\ At(texts[k], ">") # {} => k = Len(texts)

(* A line of at most "most" commands that the shell says it refuses: two   *)
(* redirections of a kind, '&' before the end, a redirection to a name on  *)
(* the wrong command.                                                      *)
Improper(line, most) ==
    LET texts == Texts(line) IN
    /\ Len(texts) <= most
    /\ \/ Cardinality(At(line, "<")) > 1
       \/ Cardinality(At(line, ">")) > 1
       \/ ~(At(line, "&") \subseteq {Len(line)})
       \/ \E k \in DOMAIN texts :
             \/ k > 1 /\ Named(texts[k], "<") # <<>>
             \/ k < Len(texts) /\ Named(texts[k], ">") # <<>>
=============================================================================
