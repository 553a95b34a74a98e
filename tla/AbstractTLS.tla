----------------------------- MODULE AbstractTLS -----------------------------
(***************************************************************************)
(* What Challenge4 promises (its README): each thread has at most one      *)
(* storage of its own, a whole number of pages; what it reads is what it   *)
(* wrote, or what the storage it cloned held at that time.  A thread       *)
(* writes its own name, so that a byte tells who wrote it.                 *)
(***************************************************************************)
EXTENDS Integers

CONSTANTS
    Threads,
    Zero,           \* what a byte holds that nobody wrote
    PAGE_SIZE,
    PAGE_LIMIT      \* the pages a storage may have

VARIABLE memory     \* of each thread that has a storage, the bytes in it

NoStorage == [b \in {} |-> Zero]

Init == memory = [t \in Threads |-> NoStorage]

Create(t) ==
    /\ memory[t] = NoStorage
    /\ \E n \in 1..PAGE_LIMIT :
        memory' = [memory EXCEPT ![t] = [b \in 0..(n * PAGE_SIZE - 1) |-> Zero]]

Write(t) ==
    \E first, last \in DOMAIN memory[t] :
        memory' = [memory EXCEPT ![t] =
                    [b \in DOMAIN @ |-> IF b \in first..last THEN t ELSE @[b]]]

Clone(t, u) ==
    /\ memory[t] = NoStorage
    /\ memory[u] # NoStorage
    /\ memory' = [memory EXCEPT ![t] = memory[u]]

Next ==
    \E t \in Threads :
        \/ Create(t)
        \/ Write(t)
        \/ \E u \in Threads : Clone(t, u)

Spec == Init /\ [][Next]_memory
=============================================================================
