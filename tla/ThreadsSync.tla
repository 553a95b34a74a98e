----------------------------- MODULE ThreadsSync -----------------------------
(***************************************************************************)
(* Challenge2/threads.c as a whole: one scheduler under both the mutexes   *)
(* and the barriers.  They meet in the statuses: a waiter of either is     *)
(* "BLOCKED", and whoever wakes a thread does not ask what it waits for.   *)
(***************************************************************************)
EXTENDS ThreadsMutex, ThreadsBarrier

syncVars == <<coreVars, mutexState, barrierState>>

SInit == Init /\ MutexInitial /\ BarrierInitial

SNext ==
    \/ (CreateCount \/ ExitMark \/ CoreStep \/ Alarm \/ Halted)
            /\ UNCHANGED <<mutexState, barrierState>>
    \/ (MutexInit \/ MutexCall \/ MutexStep) /\ UNCHANGED barrierState
    \/ (BarrierInit \/ BarrierCall \/ BarrierStep) /\ UNCHANGED mutexState

SSpec == SInit /\ [][SNext]_syncVars
----------------------------------------------------------------------------
STypeOK == MTypeOK /\ BTypeOK

(* A blocked worker waits for one thing: it is in the list of the mutex or *)
(* barrier its call names, and the call it is in is the one it blocked in. *)
BlockedWhereListed ==
    process = "running" =>
        \A t \in Tids \ {0} : status[t] = "BLOCKED" =>
            \/ \E m \in Mutexes : Waiting(t, m) /\ t \in Queued(m)
            \/ \E b \in Barriers : Inside(t, b) /\ t \in Listed(b)
=============================================================================
