------------------------------ MODULE MCShell ------------------------------
(***************************************************************************)
(* What is typed.  "p" produces, "c" copies, every other word names no     *)
(* program, and "x" names a file that cannot be opened.                    *)
(***************************************************************************)
EXTENDS Shell

Characters == {"&", "<", ">", "|", " ", "p", "c", "x"}

(* A line of the header's form, and the lines around it.                   *)
Long == {
    <<"p", " ", "x", " ", "<", " ", "p", "|", " ", "c", " ", "|", "c", ">", "c", "&">>,
    <<"p", "<", "p", " ", "|", " ", "c", " ", "x", ">", " ", "c", " ", "&">>,
    <<"p", " ", " ", "p", " ", ">", "p", "<", "c">>,
    <<"p", ">", "c", " ", "p">>,
    <<"p", "<", "x", "|", "c">>, <<"p", "|", "c", ">", "x">>,
    <<"p", ">", "c", "|", "c">>, <<"p", "|", "c", "<", "c">>,
    <<"p", "|", "c", "|", "c">>, <<"x", "|", "c", "|", "c">>,
    <<"p", "|", "x", "|", "c">>, <<"p", "|", "c", ">", "p", "|", "c">>}

AllLines == UNION {[1 .. n -> Characters] : n \in 0 .. 3} \cup Long

FewLines == {<<"p">>, <<"p", "|", "c">>}
SomeLines == {<<"p">>, <<"p", ">", "x">>, <<"p", ">", "c">>, <<"x", "|", "c">>}
NoiseLines == {<<"x">>}
PWord == {<<"p">>}
CWord == {<<"c">>}
XWord == {<<"x">>}
=============================================================================
