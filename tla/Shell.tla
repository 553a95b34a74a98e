------------------------------- MODULE Shell -------------------------------
(***************************************************************************)
(* The shell of Challenge1/myshell.c: the loop that reads a line, has it   *)
(* parsed and runs its commands one after the other, each in a child whose *)
(* standard input and output are a file or an end of the one pipe of the   *)
(* line.                                                                   *)
(*                                                                         *)
(* A process is an entry of proc; process 1 is the shell that was started. *)
(* A child whose command cannot be run is a shell as well: it goes on with *)
(* the next command and then reads lines.  The calls of the system (fork,  *)
(* pipe, dup2, close, open, execvp, waitpid, read, write) and the programs *)
(* are modelled by what they do to the table of processes, to the          *)
(* descriptors and to the contents of the pipes.                           *)
(***************************************************************************)
EXTENDS ShellParser

CONSTANTS MAX_PROC,    \* as many processes as there may be at a time
          MAX_FD,      \* the highest descriptor a process may open
          CAP,         \* as many units as a pipe holds
          OUTPUT,      \* as many units as a producer writes
          Lines,       \* what is typed to the shell
          NestedLines, \* what is typed to a child that has become a shell
          Noise,       \* what a unit of output reads as, taken for a line
          Producers,   \* the words that name a program that only writes
          Copiers,     \* the words that name one that copies what it reads
          Unopenable   \* the words that name a file that cannot be opened

ASSUME ShellAssumption ==
    /\ MAX_PROC \in Nat \ {0}
    /\ MAX_FD \in Nat /\ MAX_FD > 3
    /\ CAP \in Nat \ {0} /\ OUTPUT \in Nat
    /\ Producers \cap Copiers = {}
    /\ \A line \in Lines \cup NestedLines \cup Noise :
          Len(line) \in Nat /\ DOMAIN line = 1 .. Len(line)

VARIABLES proc,    \* the processes
          content  \* how many units are in each pipe

shellVars == <<proc, content>>

Processes == 1 .. MAX_PROC
Pipes == 1 .. MAX_PROC
Descriptors == 0 .. MAX_FD
stdIn == 0
stdOut == 1
stdErr == 2

Closed   == <<"closed", 0>>
Terminal == <<"terminal", 0>>
File     == <<"file", 0>>
ReadEnd(q)  == <<"read", q>>
WriteEnd(q) == <<"write", q>>

Fresh == [d \in Descriptors |-> IF d \in {stdIn, stdOut, stdErr} THEN Terminal
                                ELSE Closed]

(* A process: the line it has read and the pipeline built from it, both    *)
(* only until it is checked; the commands it runs, the current one,        *)
(* flowThru, and the units a program still has to write.  A shell's        *)
(* flowThru is unset before its first pipe.                                *)
Nobody == [at |-> "none", parent |-> 0, line |-> <<>>,
           pipeLine |-> pipeline_build(<<>>), commands |-> <<>>, current |-> 1,
           fd |-> [d \in Descriptors |-> Closed], flowThru |-> <<3, 4>>,
           left |-> 0]

Init ==
    /\ proc = [p \in Processes |->
                  IF p = 1 THEN [Nobody EXCEPT !.at = "prompt", !.fd = Fresh]
                  ELSE Nobody]
    /\ content = [q \in Pipes |-> 0]

-----------------------------------------------------------------------------
(* What the system keeps. *)

Holds(p, end) == \E d \in Descriptors : proc[p].fd[d] = end
Holders(end)  == {p \in Processes : Holds(p, end)}
FreePipes     == {q \in Pipes : Holders(ReadEnd(q)) \cup Holders(WriteEnd(q)) = {}}
Children(p)   == {c \in Processes : proc[c].parent = p /\ proc[c].at # "none"}
Lowest(S)     == CHOOSE n \in S : \A m \in S : n <= m

close(fd, d) == [fd EXCEPT ![d] = Closed]

(* dup2 of a closed descriptor fails and changes nothing.                  *)
dup2(fd, from, to) == IF fd[from] = Closed THEN fd
                      ELSE [fd EXCEPT ![to] = fd[from]]

(* The end of a process: what it held is closed, its parent may reap it.   *)
(* The shell that was started has no parent here that would.               *)
Gone(p) == IF proc[p].parent = 0 THEN Nobody
           ELSE [Nobody EXCEPT !.at = "zombie", !.parent = proc[p].parent]

(* The end leaves its children, if it has any, to nobody.                  *)
Exit(p) == proc' = [c \in Processes |->
                       CASE c = p -> Gone(p)
                         [] c # p /\ c \in Children(p) ->
                              IF proc[c].at = "zombie" THEN Nobody
                              ELSE [proc[c] EXCEPT !.parent = 0]
                         [] OTHER -> proc[c]]

-----------------------------------------------------------------------------
(* The shell. *)

(* A shell with a line in its hands, and what pipeline_build makes of it.  *)
Parsed(s, line) ==
    [s EXCEPT !.at = "read", !.line = line, !.pipeLine = pipeline_build(line)]

(* A shell reads a line at the terminal; or the end of its input, and that *)
(* is its own end.                                                         *)
ReadTerminal(p) ==
    /\ proc[p].at = "prompt" /\ proc[p].fd[stdIn] = Terminal
    /\ \/ \E line \in IF p = 1 THEN Lines ELSE NestedLines :
             proc' = [proc EXCEPT ![p] = Parsed(@, line)]
       \/ Exit(p)
    /\ UNCHANGED content

(* The shell of a child whose input is a pipe or a file reads that.  The   *)
(* files of this model are empty.                                          *)
ReadInput(p) ==
    LET in == proc[p].fd[stdIn] IN
    /\ proc[p].at = "prompt"
    /\ \/ /\ in[1] = "read" /\ content[in[2]] > 0
          /\ content' = [content EXCEPT ![in[2]] = @ - 1]
          /\ \E line \in Noise :
                proc' = [proc EXCEPT ![p] = Parsed(@, line)]
       \/ /\ \/ in = File
             \/ in[1] = "read" /\ content[in[2]] = 0 /\ Holders(WriteEnd(in[2])) = {}
          /\ Exit(p)
          /\ UNCHANGED content

(* pipe takes the two lowest descriptors that are free; where there are    *)
(* none the shell says so and goes on with flowThru as it was.             *)
Started(s, commands) ==
    LET free == {d \in Descriptors : s.fd[d] = Closed}
        r == Lowest(free)
        w == Lowest(free \ {r})
        q == Lowest(FreePipes)
        t == [s EXCEPT !.at = "loop", !.commands = commands, !.current = 1]
    IN IF Cardinality(free) < 2 \/ FreePipes = {} THEN t
       ELSE [t EXCEPT !.fd[r] = ReadEnd(q), !.fd[w] = WriteEnd(q),
                      !.flowThru = <<r, w>>]

(* A pipe that nobody holds is empty when it is made again.                *)
Emptied == [q \in Pipes |-> IF q \in FreePipes THEN 0 ELSE content[q]]

(* The line refused with a message, or its pipe made.  The parser may have *)
(* gone through an unset pointer, and that ended the process.              *)
Check(p) ==
    LET built == proc[p].pipeLine
        refused == \/ errorCheck(built.commands)
                   \/ built.doubleRedirectCheck
                   \/ built.ampersandPosCheck
        s == [proc[p] EXCEPT !.line = <<>>, !.pipeLine = Nobody.pipeLine]
    IN /\ s.at = "read"
       /\ \/ built.fault /\ Exit(p)
          \/ /\ ~built.fault /\ refused
             /\ proc' = [proc EXCEPT ![p] = [s EXCEPT !.at = "prompt"]]
          \/ /\ ~built.fault /\ ~refused
             /\ proc' = [proc EXCEPT ![p] = Started(s, built.commands)]
       /\ content' = Emptied

(* A read that fails is no end of file: fgets leaves the last line as it   *)
(* is, and that line is run again.                                         *)
Again(p) ==
    /\ proc[p].at = "prompt" /\ proc[p].fd[stdIn][1] \in {"closed", "write"}
    /\ proc' = [proc EXCEPT ![p] = Started(@, proc[p].commands)]
    /\ content' = Emptied

(* fork.  It fails when there are as many processes as there may be, and a *)
(* result of -1 is taken for the parent's.                                 *)
Fork(p) ==
    LET free == {c \in Processes : proc[c].at = "none"}
        c == Lowest(free)
    IN /\ proc[p].at = "loop"
       /\ proc' = [x \in Processes |->
                      CASE x = p -> [proc[p] EXCEPT !.at = "forked"]
                        [] free # {} /\ x = c ->
                             [proc[p] EXCEPT !.at = "child", !.parent = p]
                        [] OTHER -> proc[x]]
       /\ UNCHANGED content

(* A slip: the parent lets go of both ends.                                *)
CloseBoth(p) ==
    LET flow == proc[p].flowThru IN
    /\ proc[p].at = "forked"
    /\ proc' = [proc EXCEPT ![p].at = "waiting",
                            ![p].fd = close(close(@, flow[1]), flow[2])]
    /\ UNCHANGED content

(* The parent closes the write end once the last command has been forked.  *)
CloseWrite(p) ==
    /\ proc[p].at = "forked"
    /\ proc' = [proc EXCEPT
                   ![p].at = "waiting",
                   ![p].fd = IF proc[p].current = Len(proc[p].commands)
                             THEN close(@, proc[p].flowThru[2]) ELSE @]
    /\ UNCHANGED content

(* A shell at the head of the loop over the lines.  What it ran is kept    *)
(* where its input cannot be read, for only Again uses it.                 *)
Prompting(s) ==
    [s EXCEPT !.at = "prompt", !.current = 1,
              !.commands = IF s.fd[stdIn][1] \in {"closed", "write"} THEN @
                           ELSE <<>>]

(* A slip: the commands are gone through without the test for the end.     *)
AdvancedPast(s) == [s EXCEPT !.at = "loop", !.current = @ + 1]

(* A slip: the read end is not closed after the last command.              *)
AdvancedOpen(s) ==
    IF s.current < Len(s.commands)
    THEN [s EXCEPT !.at = "loop", !.current = @ + 1]
    ELSE Prompting(s)

(* A process moves to its next command; after the last one it closes the   *)
(* read end.                                                               *)
Advanced(s) ==
    IF s.current < Len(s.commands)
    THEN [s EXCEPT !.at = "loop", !.current = @ + 1]
    ELSE Prompting([s EXCEPT !.fd = close(@, s.flowThru[1])])

(* A slip: nothing is waited for (the test that lines 103 and 106 comment  *)
(* out, answered alike for every pipeline).                                *)
NoWait(p) ==
    /\ proc[p].at = "waiting"
    /\ proc' = [proc EXCEPT ![p] = Advanced(@)]
    /\ UNCHANGED content

(* waitpid(-1): any child that has ended; without a child it returns at    *)
(* once.                                                                   *)
Wait(p) ==
    /\ proc[p].at = "waiting"
    /\ \/ /\ Children(p) = {}
          /\ proc' = [proc EXCEPT ![p] = Advanced(@)]
       \/ \E c \in Children(p) :
             /\ proc[c].at = "zombie"
             /\ proc' = [proc EXCEPT ![p] = Advanced(@), ![c] = Nobody]
    /\ UNCHANGED content

(* A path that is given is opened, and put in the place of a standard      *)
(* descriptor; the file first gets the lowest descriptor that is free.     *)
Redirected(fd, path, std) ==
    LET d == Lowest({x \in Descriptors : fd[x] = Closed})
        opened == [fd EXCEPT ![d] = File]
    IN IF path = <<>> THEN fd
       ELSE close(dup2(close(opened, std), d, std), d)

(* A slip: the child keeps the write end it was born with.                 *)
ConnectedOpen(s) ==
    LET command == s.commands[s.current]
        in  == Redirected(s.fd, command.redirect_in, stdIn)
        out == Redirected(in, command.redirect_out, stdOut)
        to  == IF s.current < Len(s.commands)
               THEN dup2(close(out, stdOut), s.flowThru[2], stdOut) ELSE out
        from == IF s.current > 1
                THEN dup2(close(to, stdIn), s.flowThru[1], stdIn) ELSE to
    IN close(from, s.flowThru[1])

(* The descriptors of a child before execvp, once its files are open.      *)
Connected(s) ==
    LET command == s.commands[s.current]
        r == s.flowThru[1]
        w == s.flowThru[2]
        in  == Redirected(s.fd, command.redirect_in, stdIn)
        out == Redirected(in, command.redirect_out, stdOut)
        to  == IF s.current < Len(s.commands)
               THEN dup2(close(out, stdOut), w, stdOut) ELSE out
        cut == close(to, w)
        from == IF s.current > 1 THEN dup2(close(cut, stdIn), r, stdIn) ELSE cut
    IN close(from, r)

(* open fails for some files, and for want of a descriptor.                *)
Opens(fd, path) ==
    path # <<>> => /\ path \notin Unopenable
                   /\ \E d \in Descriptors : fd[d] = Closed

Runnable(command) == /\ command.args # <<>>
                     /\ command.args[1] \in Producers \cup Copiers

(* A child whose file cannot be opened leaves the loop over the commands:  *)
(* it is a shell, with the pipe open and what it redirected before.  One   *)
(* whose program does not exist goes on with the loop.                     *)
Child(p) ==
    LET s == proc[p]
        command == s.commands[s.current]
        in  == command.redirect_in
        opened == [s EXCEPT !.fd = Redirected(@, in, stdIn)]
        ready  == [s EXCEPT !.fd = Connected(s)]
        reads  == Opens(s.fd, in)
        writes == Opens(opened.fd, command.redirect_out)
    IN /\ s.at = "child"
       /\ proc' = [proc EXCEPT ![p] =
             CASE ~reads -> Prompting(s)
               [] reads /\ ~writes -> Prompting(opened)
               [] reads /\ writes /\ Runnable(command) ->
                    [ready EXCEPT !.at = "program",
                                  !.left = IF command.args[1] \in Producers
                                           THEN OUTPUT ELSE 0]
               [] OTHER -> Advanced(ready)]
       /\ UNCHANGED content

-----------------------------------------------------------------------------
(* The programs. *)

Copies(p) == proc[p].commands[proc[p].current].args[1] \in Copiers

(* A unit is written.  A pipe that is full makes the program wait, one     *)
(* that nobody can read ends it, and so does an output that is closed.     *)
Write(p) ==
    LET out == proc[p].fd[stdOut] IN
    /\ proc[p].at = "program" /\ proc[p].left > 0
    /\ \/ /\ out \in {Terminal, File}
          /\ proc' = [proc EXCEPT ![p].left = @ - 1]
          /\ UNCHANGED content
       \/ /\ out[1] = "write" /\ Holders(ReadEnd(out[2])) # {}
          /\ content[out[2]] < CAP
          /\ content' = [content EXCEPT ![out[2]] = @ + 1]
          /\ proc' = [proc EXCEPT ![p].left = @ - 1]
       \/ /\ \/ out[1] = "write" /\ Holders(ReadEnd(out[2])) = {}
             \/ out[1] \in {"closed", "read"}
          /\ Exit(p)
          /\ UNCHANGED content

(* A copier that has nothing to write reads a unit, or the end of its      *)
(* input.                                                                  *)
Read(p) ==
    LET in == proc[p].fd[stdIn] IN
    /\ proc[p].at = "program" /\ proc[p].left = 0 /\ Copies(p)
    /\ \/ /\ in[1] = "read" /\ content[in[2]] > 0
          /\ content' = [content EXCEPT ![in[2]] = @ - 1]
          /\ proc' = [proc EXCEPT ![p].left = 1]
       \/ /\ \/ in[1] \in {"file", "closed", "write"}
             \/ in[1] = "read" /\ content[in[2]] = 0 /\ Holders(WriteEnd(in[2])) = {}
          /\ Exit(p)
          /\ UNCHANGED content

(* What the user types while a copier reads the terminal.                  *)
ReadTyped(p) ==
    /\ proc[p].at = "program" /\ proc[p].left = 0 /\ Copies(p)
    /\ proc[p].fd[stdIn] = Terminal
    /\ \/ proc' = [proc EXCEPT ![p].left = 1]
       \/ Exit(p)
    /\ UNCHANGED content

(* A producer that has written everything ends.                            *)
Finish(p) ==
    /\ proc[p].at = "program" /\ proc[p].left = 0 /\ ~Copies(p)
    /\ Exit(p)
    /\ UNCHANGED content

-----------------------------------------------------------------------------
User(p) == ReadTerminal(p) \/ ReadTyped(p)

Step(p) == \/ ReadInput(p) \/ Check(p) \/ Again(p) \/ Fork(p) \/ CloseWrite(p)
           \/ Wait(p) \/ Child(p) \/ Write(p) \/ Read(p) \/ Finish(p)

Next == \E p \in Processes : User(p) \/ Step(p)

Spec == Init /\ [][Next]_shellVars

(* Every process that can take a step of its own takes one in the end; the *)
(* user need not type.                                                     *)
FairSpec == Spec /\ \A p \in Processes : WF_shellVars(Step(p))

-----------------------------------------------------------------------------
(* The variables hold values of their types: a descriptor's object is one  *)
(* of those above, and only the zombie and the missing hold none.          *)
ShTypeOK ==
    /\ content \in [Pipes -> 0 .. CAP]
    /\ \A p \in Processes :
          LET s == proc[p] IN
          /\ s.at \in {"none", "prompt", "read", "loop", "forked", "waiting",
                       "child", "program", "zombie"}
          /\ s.parent \in 0 .. MAX_PROC \ {p}
          /\ s.fd \in [Descriptors ->
                          {Closed, Terminal, File} \cup
                             {ReadEnd(q) : q \in Pipes} \cup
                             {WriteEnd(q) : q \in Pipes}]
          /\ s.flowThru \in Descriptors \X Descriptors
          /\ s.at \in {"loop", "forked", "waiting", "child", "program"} =>
                s.current \in DOMAIN s.commands
          /\ s.at \in {"none", "zombie"} =>
                \A d \in Descriptors : s.fd[d] = Closed

(* A well formed line is run as what the header says it means, and a line  *)
(* the README says is refused starts nothing.  Held for lines of at most   *)
(* two commands: errorCheck skips the output of those in the middle.       *)
LinesUnderstood ==
    [][\A p \in Processes :
          proc[p].at = "read" /\ proc'[p].at # "read" =>
             LET line == proc[p].line IN
             /\ WellFormed(line) =>
                   /\ proc'[p].at = "loop"
                   /\ proc'[p].commands =
                         [k \in DOMAIN Texts(line) |-> Meaning(Texts(line)[k])]
                   /\ At(line, "&") # {} => proc[p].pipeLine.is_background = {TRUE}
             /\ Improper(line, 2) => proc'[p].at # "loop"]_shellVars

(* However many shells a failed command has left behind, one process at    *)
(* most reads the terminal, and every other one waits for a single child.  *)
OneReader ==
    /\ \A p \in Processes : Cardinality(Children(p)) <= 1
    /\ Cardinality({p \in Processes :
                       /\ proc[p].fd[stdIn] = Terminal
                       /\ \/ proc[p].at = "prompt"
                          \/ proc[p].at = "program" /\ Copies(p)}) <= 1

(* The two ends of the pipe of a line.  What a program writes to a pipe    *)
(* can be read: the shell keeps the read end until the line is done, so    *)
(* that the first command is not ended for want of a reader that is not    *)
(* started yet.  And the last of two commands meets the end of its input:  *)
(* once its shell waits for it nobody can write to the pipe it reads.      *)
PipesConnected ==
    \A p \in Processes : \A q \in Pipes :
        proc[p].at = "program" =>
            /\ proc[p].fd[stdOut] = WriteEnd(q) => Holders(ReadEnd(q)) # {}
            /\ /\ proc[p].fd[stdIn] = ReadEnd(q)
               /\ Len(proc[p].commands) <= 2
               /\ proc[p].parent # 0 /\ proc[proc[p].parent].at = "waiting"
               => Holders(WriteEnd(q)) = {}

(* "True if this pipeline should execute in the background" (the header, of *)
(* is_background), and not otherwise.                                      *)
BackgroundKnown ==
    \A p \in Processes :
        proc[p].at = "read" /\ WellFormed(proc[p].line) =>
            proc[p].pipeLine.is_background = {At(proc[p].line, "&") # {}}

(* The shell that was started, back at its prompt, has its three standard  *)
(* descriptors and no other.                                               *)
NothingLeftOpen == proc[1].at = "prompt" => proc[1].fd = Fresh

(* A line of one or two programs, the first of which does not wait for the *)
(* user, is done in the end, and the shell is at its prompt ("works        *)
(* perfectly for a single command or two commands", README).               *)
TwoFinish ==
    /\ proc[1].at = "loop" /\ proc[1].current = 1
    /\ Len(proc[1].commands) <= 2
    /\ \A i \in DOMAIN proc[1].commands :
          /\ Runnable(proc[1].commands[i])
          /\ proc[1].commands[i].redirect_in = <<>>
          /\ proc[1].commands[i].redirect_out \notin Unopenable
    /\ proc[1].commands[1].args[1] \in Producers
    ~> proc[1].at = "prompt"

(* A line the README says is refused starts nothing, however many commands *)
(* it has.                                                                 *)
ImproperRefused ==
    [][\A p \in Processes :
          proc[p].at = "read" /\ Improper(proc[p].line, Len(proc[p].line)) =>
             proc'[p].at # "loop"]_shellVars

(* The end of the input that the user types ends the program ("the user    *)
(* can input ctrl+d and the program will quit", README).                   *)
EndQuits ==
    [][\A p \in Processes :
          /\ proc[p].at = "prompt" /\ proc[p].fd[stdIn] = Terminal
          /\ proc'[p].at \in {"none", "zombie"}
          => proc'[1].at = "none"]_shellVars

(* No line ends the shell: after it there is another prompt ("the program  *)
(* will prompt for another input until the user exits", README).           *)
LinesSurvived ==
    [][\A p \in Processes :
          proc[p].at = "read" => proc'[p].at \notin {"none", "zombie"}]_shellVars
=============================================================================
