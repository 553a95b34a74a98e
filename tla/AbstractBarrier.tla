--------------------------- MODULE AbstractBarrier ---------------------------
(***************************************************************************)
(* What a barrier for N threads promises: who arrives waits until N have   *)
(* arrived, and then those N, and nobody else, are released together.      *)
(* A released thread may be slow to leave; others may already be waiting   *)
(* for the next round by then.                                             *)
(***************************************************************************)
EXTENDS Integers, FiniteSets

CONSTANTS
    Parties,    \* the threads that use the barrier
    N           \* how many release it

VARIABLE phase  \* where each party is: "outside", "waiting" or "released"

InPhase(p) == {t \in Parties : phase[t] = p}

Init == phase = [t \in Parties |-> "outside"]

Wait(t) ==
    /\ phase[t] = "outside"
    /\ Cardinality(InPhase("waiting")) + 1 < N
    /\ phase' = [phase EXCEPT ![t] = "waiting"]

Release(t) ==
    /\ phase[t] = "outside"
    /\ Cardinality(InPhase("waiting")) + 1 = N
    /\ phase' = [u \in Parties |->
                    IF u = t \/ phase[u] = "waiting" THEN "released"
                                                     ELSE phase[u]]

Leave(t) ==
    /\ phase[t] = "released"
    /\ phase' = [phase EXCEPT ![t] = "outside"]

Next == \E t \in Parties : Wait(t) \/ Release(t) \/ Leave(t)

Spec == Init /\ [][Next]_phase
=============================================================================
