---------------------------- MODULE ThreadsProofs ----------------------------
(***************************************************************************)
(* Proofs about the scheduler of module Threads, for every number of       *)
(* threads.                                                                *)
(***************************************************************************)
EXTENDS Threads, FiniteSetTheorems, TLAPS

(* What schedule() does to the types, whatever the context it is called in. *)
LEMMA ScheduleType ==
    ASSUME NEW c \in [of : Tids, at : CodePoints, on : Nat],
           TypeOK, Schedule(c)
    PROVE  /\ status' \in [Tids -> Status]
           /\ buf' \in [Tids -> Context]
           /\ topThread' \in Tids
           /\ currentThreadID' \in Tids
           /\ cpu' \in [of : Tids, at : CodePoints, on : Nat]
           /\ process' \in {process} \cup Halts
<1>1. Saved(c) \in [Tids -> Context]
  BY DEF TypeOK, Saved, Context
<1>2. Demoted \in [Tids -> Status]
  BY DEF TypeOK, Demoted, Status
<1>3. CASE Runnable = {} /\ UNCHANGED <<status, buf, topThread, currentThreadID, cpu>>
                         /\ process' = "spinning"
  BY <1>3 DEF TypeOK, Halts
<1>4. ASSUME NEW t \in Tids, status' = [Demoted EXCEPT ![t] = "RUNNING"],
             topThread' = t, currentThreadID' = t, Longjmp(Saved(c), t)
      PROVE  /\ status' \in [Tids -> Status]
             /\ buf' \in [Tids -> Context]
             /\ topThread' \in Tids
             /\ currentThreadID' \in Tids
             /\ cpu' \in [of : Tids, at : CodePoints, on : Nat]
             /\ process' \in {process} \cup Halts
  <2>1. status' \in [Tids -> Status]
    BY <1>2, <1>4 DEF Status
  <2>2. buf' \in [Tids -> Context]
    BY <1>1, <1>4 DEF Longjmp, Context, NotSaved
  <2>3. Saved(c)[t] \in Context
    BY <1>1
  <2>4. cpu' \in [of : Tids, at : CodePoints, on : Nat]
    BY <1>4, <2>3 DEF Longjmp, Context, TypeOK
  <2>5. process' \in {process} \cup Halts
    BY <1>4 DEF Longjmp, Halts
  <2>6. QED
    BY <1>4, <2>1, <2>2, <2>4, <2>5
<1>5. QED
  BY <1>3, <1>4 DEF Schedule

LEMMA CpuType ==
    ASSUME TypeOK, NEW p \in CodePoints
    PROVE  [cpu EXCEPT !.at = p] \in [of : Tids, at : CodePoints, on : Nat]
BY DEF TypeOK

(* Every step keeps the types; in particular nothing but a real code point *)
(* is ever executed.                                                       *)
LEMMA TypeStep == TypeOK /\ [Next]_coreVars => TypeOK'
<1> SUFFICES ASSUME TypeOK, [Next]_coreVars
             PROVE  TypeOK'
  OBVIOUS
<1> USE ThreadsAssumption
<1>1. ASSUME CreateCount PROVE TypeOK'
  BY <1>1 DEF TypeOK, CreateCount, Goto, CodePoints, Halts
<1>2. ASSUME ExitMark PROVE TypeOK'
  <2>1. cpu' \in [of : Tids, at : CodePoints, on : Nat]
    BY <1>2 DEF TypeOK, ExitMark, Ctx, CodePoints, Tids
  <2>2. status' \in [Tids -> Status]
    BY <1>2 DEF TypeOK, ExitMark, Status
  <2>3. QED
    BY <1>2, <2>1, <2>2 DEF TypeOK, ExitMark
<1>3. ASSUME CreateNoMemory PROVE TypeOK'
  BY <1>3 DEF TypeOK, CreateNoMemory, Goto, CodePoints
<1>4. ASSUME CreateInit PROVE TypeOK'
  <2>1. status' \in [Tids -> Status]
    BY <1>4 DEF TypeOK, CreateInit, Status
  <2>2. buf' \in [Tids -> Context]
    <3>1. CASE numOfThreads \in Tids
      BY <1>4, <3>1 DEF TypeOK, CreateInit, Context, Ctx, CodePoints
    <3>2. CASE numOfThreads \notin Tids
      BY <1>4, <3>2 DEF TypeOK, CreateInit
    <3>3. QED
      BY <3>1, <3>2
  <2>3. QED
    BY <1>4, <2>1, <2>2 DEF TypeOK, CreateInit, Goto, CodePoints
<1>5. ASSUME ExitCount PROVE TypeOK'
  BY <1>5 DEF TypeOK, ExitCount, Goto, CodePoints
<1>6. ASSUME ExitSchedule PROVE TypeOK'
  <2>1. [cpu EXCEPT !.at = "fellThrough"] \in [of : Tids, at : CodePoints, on : Nat]
    BY CpuType DEF CodePoints
  <2>2. QED
    BY <1>6, <2>1, ScheduleType DEF TypeOK, ExitSchedule
<1>7. ASSUME ExitToMain PROVE TypeOK'
  <2>1. 0 \in Tids
    BY DEF Tids
  <2>2. buf[0] \in Context
    BY <2>1 DEF TypeOK
  <2>3. cpu' \in [of : Tids, at : CodePoints, on : Nat]
    BY <1>7, <2>2 DEF TypeOK, ExitToMain, Longjmp, Context
  <2>4. buf' \in [Tids -> Context]
    BY <1>7, <2>2 DEF TypeOK, ExitToMain, Longjmp, Context, NotSaved
  <2>5. status' \in [Tids -> Status] /\ process' \in {process} \cup Halts
    BY <1>7 DEF TypeOK, ExitToMain, Longjmp, Status, Halts
  <2>6. QED
    BY <1>7, <2>1, <2>3, <2>4, <2>5 DEF TypeOK, ExitToMain
<1>8. ASSUME ExitProcess PROVE TypeOK'
  BY <1>8 DEF TypeOK, ExitProcess, Halts
<1>9. ASSUME Alarm PROVE TypeOK'
  <2>1. CASE is_first_call
    BY <1>9, <2>1 DEF TypeOK, Alarm, Halts
  <2>2. CASE ~is_first_call
    <3>1. cpu \in [of : Tids, at : CodePoints, on : Nat] /\ Schedule(cpu)
      BY <1>9, <2>2 DEF TypeOK, Alarm
    <3>2. QED
      BY <1>9, <3>1, ScheduleType DEF TypeOK, Alarm
  <2>3. QED
    BY <2>1, <2>2
<1>10. ASSUME UNCHANGED coreVars PROVE TypeOK'
  BY <1>10 DEF TypeOK, coreVars
<1>11. ASSUME SchedulerInit PROVE TypeOK'
  BY <1>11 DEF TypeOK, SchedulerInit, Goto, CodePoints, Status
<1>12. QED
  BY <1>1, <1>2, <1>3, <1>4, <1>5, <1>6, <1>7, <1>8, <1>9, <1>10, <1>11
     DEF Next, CoreStep, Halted

LEMMA InitType == Init => TypeOK
<1> SUFFICES ASSUME Init PROVE TypeOK
  OBVIOUS
<1>1. 0 \in Tids
  BY ThreadsAssumption DEF Tids
<1>2. \A t \in Tids : Ctx(t, "unset", 0) \in Context
  BY DEF Ctx, Context, NotSaved
<1>3. cpu \in [of : Tids, at : CodePoints, on : Nat]
  BY <1>1 DEF Init, Ctx, CodePoints
<1>4. status \in [Tids -> Status] /\ buf \in [Tids -> Context]
  BY <1>2 DEF Init, Status
<1>5. numOfThreads \in 0..MAX_THREADS /\ exitedThreads \in Nat
  BY ThreadsAssumption DEF Init
<1>6. alarm \in BOOLEAN /\ is_first_call \in BOOLEAN
  BY Zenon DEF Init
<1>7. QED
  BY <1>1, <1>3, <1>4, <1>5, <1>6 DEF Init, TypeOK

(* Type correctness of the scheduler for every number of threads.          *)
THEOREM TypeCorrect == Spec => []TypeOK
BY InitType, TypeStep, PTL DEF Spec
----------------------------------------------------------------------------
(* The inductive invariant. *)

Exec == [of : Tids, at : CodePoints, on : Nat]

(* What a schedule() that resumes somebody does: thread t, which was       *)
(* neither exited nor blocked, goes on where its entry says; the context c *)
(* it was called in is kept unless the entry in use belongs to a thread    *)
(* that exited; nobody's status changes but t's and that of the thread     *)
(* left.                                                                   *)
Resumed(c, t) ==
    /\ t <= numOfThreads
    /\ status[t] \notin Stopped
    /\ topThread' = t
    /\ currentThreadID' = t
    /\ status'[t] = "RUNNING"
    /\ \A u \in Tids \ {t} :
            \/ status'[u] = status[u]
            \/ status[u] \notin Stopped /\ status'[u] = "READY"
    /\ buf'[t].of = Saved(c)[t].of
    /\ buf'[t].at = "dead"
    /\ \A u \in Tids \ {t} : buf'[u] = Saved(c)[u]
    /\ process' = "running" => /\ cpu' = Saved(c)[t]
                               /\ Saved(c)[t].at \notin NotSaved

LEMMA SavedValue ==
    ASSUME TypeOK, NEW c \in Exec, NEW u \in Tids
    PROVE  Saved(c)[u] = IF u = topThread /\ status[topThread] # "EXITED"
                         THEN c ELSE buf[u]
BY DEF TypeOK, Saved

(* A context that is saved or resumed is one that was there before. *)
LEMMA ScheduleContexts ==
    ASSUME TypeOK, NEW c \in Exec, Schedule(c), NEW S, NEW n,
           c.at \in S => c.on < n,
           cpu.at \in S => cpu.on < n,
           S \subseteq CodePoints,
           \A t \in Tids : buf[t].at \in S => buf[t].on < n
    PROVE  /\ cpu'.at \in S => cpu'.on < n
           /\ \A t \in Tids : buf'[t].at \in S => buf'[t].on < n
<1>1. \A t \in Tids : Saved(c)[t].at \in S => Saved(c)[t].on < n
  BY SavedValue
<1>2. Saved(c) \in [Tids -> Context]
  BY DEF TypeOK, Saved, Context, Exec
<1>3. CASE UNCHANGED <<buf, cpu>>
  BY <1>3
<1>4. ASSUME NEW t \in Tids, Longjmp(Saved(c), t)
      PROVE  /\ cpu'.at \in S => cpu'.on < n
             /\ \A u \in Tids : buf'[u].at \in S => buf'[u].on < n
  <2>1. cpu'.at \in S => cpu'.on < n
    BY <1>1, <1>4 DEF Longjmp
  <2>2. buf'[t].at = "dead" /\ \A u \in Tids \ {t} : buf'[u] = Saved(c)[u]
    BY <1>2, <1>4 DEF Longjmp, Context
  <2>3. QED
    BY <1>1, <2>1, <2>2 DEF CodePoints
<1>5. QED
  BY <1>3, <1>4 DEF Schedule

LEMMA ScheduleResult ==
    ASSUME TypeOK, Running, NEW c \in Exec, Schedule(c)
    PROVE  \/ /\ process' = "spinning"
              /\ UNCHANGED <<status, buf, topThread, currentThreadID, cpu>>
           \/ /\ process' \in {"running", "stale"}
              /\ \E t \in Tids : Resumed(c, t)
<1>1. ASSUME NEW t \in Tids, IsNext(t),
             status' = [Demoted EXCEPT ![t] = "RUNNING"],
             topThread' = t, currentThreadID' = t, Longjmp(Saved(c), t)
      PROVE  process' \in {"running", "stale"} /\ Resumed(c, t)
  <2>1. /\ Demoted \in [Tids -> Status]
        /\ \A u \in Tids : \/ Demoted[u] = status[u]
                           \/ status[u] \notin Stopped /\ Demoted[u] = "READY"
    BY DEF TypeOK, Demoted, Status, Stopped
  <2>2. t <= numOfThreads /\ status[t] \notin Stopped
    BY <1>1, <2>1 DEF IsNext, Runnable, TypeOK, Stopped
  <2>3. Saved(c) \in [Tids -> Context]
    BY DEF TypeOK, Saved, Context, Exec
  <2>4. /\ buf'[t].of = Saved(c)[t].of
        /\ buf'[t].at = "dead"
        /\ \A u \in Tids \ {t} : buf'[u] = Saved(c)[u]
    BY <1>1, <2>3 DEF Longjmp, Context
  <2>5. /\ process' \in {"running", "stale"}
        /\ process' = "running" => /\ cpu' = Saved(c)[t]
                                   /\ Saved(c)[t].at \notin NotSaved
    BY <1>1 DEF Longjmp, Running
  <2>6. QED
    BY <1>1, <2>1, <2>2, <2>4, <2>5 DEF Resumed
<1>2. QED
  BY <1>1 DEF Schedule

(* Threads finish for good, so the count of the finished stays covered.    *)
LEMMA FinishedFinite ==
    /\ IsFiniteSet(Finished) /\ Cardinality(Finished) \in Nat
    /\ IsFiniteSet(Finished') /\ Cardinality(Finished') \in Nat
<1>1. IsFiniteSet(Tids)
  BY FS_Interval, ThreadsAssumption DEF Tids
<1>2. Finished \subseteq Tids /\ Finished' \subseteq Tids
  BY DEF Finished
<1>3. QED
  BY <1>1, <1>2, FS_Subset, FS_CardinalityType

LEMMA CountedKept ==
    ASSUME TypeOK, Running, CountedInv, exitedThreads' = exitedThreads,
           Finished \subseteq Finished'
    PROVE  CountedInv'
<1>1. Cardinality(Finished) <= Cardinality(Finished')
  BY FinishedFinite, FS_Subset
<1>2. exitedThreads <= Cardinality(Finished)
  BY DEF CountedInv
<1>3. QED
  BY <1>1, <1>2, FinishedFinite DEF CountedInv, TypeOK
----------------------------------------------------------------------------
(* schedule() keeps the invariant, called in any context c the executing   *)
(* thread may ask to come back to.                                         *)
MayReturnTo(c) ==
    /\ c.of = cpu.of
    /\ \/ status[cpu.of] = "EXITED"
       \/ /\ c.at \notin Exiting \cup {"fellThrough"}
          /\ c.at \in {"creating", "starting"} => cpu.at = c.at

LEMMA ScheduleCore ==
    ASSUME TypeOK, CoreInv, Running, NEW c \in Exec, MayReturnTo(c),
           Schedule(c),
           UNCHANGED <<numOfThreads, exitedThreads, is_first_call>>
    PROVE  CoreInv'
<1>1. CASE /\ process' = "spinning"
           /\ UNCHANGED <<status, buf, topThread, currentThreadID, cpu>>
  BY <1>1 DEF CoreInv, FirstInv, ExecutingInv, SavedInv, CreatedInv,
              NoContextLost, CountedInv, Running
<1>2. ASSUME process' \in {"running", "stale"},
             NEW t \in Tids, Resumed(c, t)
      PROVE  CoreInv'
  <2>1. ~is_first_call /\ status[t] # "EXITED" /\ status[t] # "BLOCKED"
    BY <1>2 DEF CoreInv, FirstInv, Resumed, Stopped
  <2>2. ASSUME status[topThread] # "EXITED"
        PROVE  topThread = cpu.of /\ currentThreadID = cpu.of
    BY <2>2 DEF CoreInv, ExecutingInv
  <2>3. \A u \in Tids :
            /\ Saved(c)[u].of = u
            /\ Saved(c)[u].at \notin NotSaved =>
                    /\ status[u] # "EXITED"
                    /\ Saved(c)[u].at \notin Exiting \cup {"fellThrough", "starting"}
    BY <2>2, SavedValue DEF CoreInv, SavedInv, ExecutingInv, MayReturnTo
  <2>4. \A u \in Tids :
            /\ status[u] = "EXITED" <=> status'[u] = "EXITED"
            /\ status[u] = "EXITED" => u # t /\ buf'[u] = buf[u]
    BY <1>2, <2>1, SavedValue DEF Resumed, Stopped
  <2>5. FirstInv'
    BY <2>1 DEF FirstInv
  <2>6. ExecutingInv'
    BY <1>2, <2>1, <2>3 DEF ExecutingInv, Resumed, Running, NotSaved, Exiting
  <2>7. SavedInv'
    BY <1>2, <2>3, <2>4 DEF SavedInv, Resumed, NotSaved
  <2>8. CreatedInv'
    <3> SUFFICES ASSUME Running' PROVE CreatedInv'
      BY DEF CreatedInv
    <3>1. topThread' <= numOfThreads' /\ currentThreadID' <= numOfThreads'
      BY <1>2 DEF Resumed
    <3>2. ASSUME NEW u \in Tids, Unused(u) PROVE Unused(u)'
      BY <2>4, <3>2 DEF Unused
    <3>3. ASSUME NEW u \in Tids, Place(u)'.at = "creating"
          PROVE  Place(u).at = "creating"
      <4>1. Place(u)' = Saved(c)[u]
        BY <1>2, <2>3, <3>3 DEF Place, Resumed, Running
      <4>2. CASE u = topThread /\ status[topThread] # "EXITED"
        BY <2>2, <3>3, <4>1, <4>2, SavedValue DEF Place, MayReturnTo
      <4>3. CASE ~(u = topThread /\ status[topThread] # "EXITED")
        BY <3>3, <4>1, <4>3, SavedValue
           DEF Place, CoreInv, ExecutingInv, NotSaved
      <4>4. QED
        BY <4>2, <4>3
    <3>4. QED
      BY <3>1, <3>2, <3>3 DEF CoreInv, CreatedInv
  <2>9. NoContextLost'
    <3> SUFFICES ASSUME Running', NEW u \in 1..numOfThreads, u \in Tids,
                        status'[u] # "EXITED", u # cpu'.of
                 PROVE  buf'[u].at \notin NotSaved
      BY DEF NoContextLost
    <3>1. u # t /\ buf'[u] = Saved(c)[u] /\ status[u] # "EXITED"
      BY <1>2, <2>3, <2>4 DEF Resumed, Running
    <3>2. CASE u = topThread
      BY <3>1, <3>2, SavedValue DEF Exec, CodePoints, NotSaved
    <3>3. CASE u # topThread
      <4>1. u # cpu.of
        BY <3>3 DEF CoreInv, ExecutingInv, TypeOK
      <4>2. QED
        BY <3>1, <3>3, <4>1, SavedValue DEF CoreInv, NoContextLost
    <3>4. QED
      BY <3>2, <3>3
  <2>10. CountedInv'
    <3> SUFFICES ASSUME Running' PROVE CountedInv'
      BY DEF CountedInv
    <3>1. cpu'.of = t
      BY <1>2, <2>3 DEF Resumed, Running
    <3>2. Finished \subseteq Finished'
      BY <2>4, <3>1 DEF Finished
    <3>3. QED
      BY <3>2, CountedKept DEF CoreInv
  <2>11. QED
    BY <2>5, <2>6, <2>7, <2>8, <2>9, <2>10 DEF CoreInv
<1>3. QED
  BY <1>1, <1>2, ScheduleResult
----------------------------------------------------------------------------
(* pthread_create and pthread_exit keep it too. *)

OnlyMainCreates == Creators \subseteq {0}

LEMMA ZeroTid == 0 \in Tids
BY ThreadsAssumption DEF Tids

LEMMA CreateCountCore ==
    ASSUME OnlyMainCreates, TypeOK, CoreInv, CreateCount
    PROVE  CoreInv'
<1>1. /\ Running /\ cpu.at = "user" /\ cpu.of = 0
      /\ numOfThreads' = numOfThreads + 1
      /\ cpu'.of = 0 /\ cpu'.at = "creating"
      /\ UNCHANGED <<status, buf, topThread, currentThreadID, exitedThreads,
                     is_first_call>>
  BY DEF OnlyMainCreates, CreateCount, At, Goto, Running, TypeOK
<1>2. FirstInv' /\ ExecutingInv' /\ SavedInv'
  BY <1>1 DEF CoreInv, FirstInv, ExecutingInv, SavedInv, Running, Exiting
<1>3. CreatedInv'
  <2> SUFFICES ASSUME Running' PROVE CreatedInv'
    BY DEF CreatedInv
  <2>1. numOfThreads' \in Tids \ {0}
    BY <1>1, ThreadsAssumption DEF CreateCount, Running, TypeOK, Tids
  <2>2. \A t \in Tids : t > numOfThreads => Unused(t)'
    BY <1>1 DEF CoreInv, CreatedInv, Unused
  <2>3. Unused(numOfThreads)'
    BY <1>1, <2>1, <2>2 DEF CoreInv, CreatedInv, Unused, TypeOK
  <2>4. numOfThreads' > numOfThreads
    BY <1>1 DEF TypeOK
  <2>5. \A t \in Tids : Place(t)'.at = "creating" => t = 0
    BY <1>1 DEF Place, CoreInv, CreatedInv
  <2>6. QED
    BY <1>1, <2>1, <2>2, <2>3, <2>4, <2>5
       DEF CoreInv, CreatedInv, TypeOK, Tids
<1>4. NoContextLost'
  <2> SUFFICES ASSUME Running', NEW u \in 1..numOfThreads', u \in Tids,
                      status[u] # "EXITED", u # cpu.of
               PROVE  buf[u].at \notin NotSaved
    BY <1>1 DEF NoContextLost
  <2>1. u <= numOfThreads
    BY <1>1 DEF CoreInv, CreatedInv, Unused, TypeOK, Tids
  <2>2. QED
    BY <1>1, <2>1 DEF CoreInv, NoContextLost, TypeOK
<1>5. CountedInv'
  <2>1. Finished \subseteq Finished'
    BY <1>1 DEF Finished
  <2>2. QED
    BY <1>1, <2>1, CountedKept DEF CoreInv
<1>6. QED
  BY <1>2, <1>3, <1>4, <1>5 DEF CoreInv

LEMMA CreateNoMemoryCore ==
    ASSUME TypeOK, CoreInv, CreateNoMemory
    PROVE  CoreInv'
<1>1. /\ Running /\ cpu.at = "creating"
      /\ cpu'.of = cpu.of /\ cpu'.at = "user" /\ cpu'.on = cpu.on
      /\ UNCHANGED <<status, buf, topThread, currentThreadID, numOfThreads,
                     exitedThreads, is_first_call, process>>
  BY DEF CreateNoMemory, At, Goto, Running, TypeOK
<1>2. FirstInv' /\ ExecutingInv' /\ SavedInv' /\ NoContextLost'
  BY <1>1 DEF CoreInv, FirstInv, ExecutingInv, SavedInv, NoContextLost,
              Running, Exiting
<1>3. CreatedInv'
  <2>1. \A t \in Tids : Place(t)'.at = "creating" => Place(t).at = "creating"
    BY <1>1 DEF Place
  <2>2. \A t \in Tids : Unused(t) <=> Unused(t)'
    BY <1>1 DEF Unused
  <2>3. QED
    BY <1>1, <2>1, <2>2 DEF CoreInv, CreatedInv, Running
<1>4. CountedInv'
  <2>1. Finished \subseteq Finished'
    BY <1>1 DEF Finished
  <2>2. QED
    BY <1>1, <2>1, CountedKept DEF CoreInv
<1>5. QED
  BY <1>2, <1>3, <1>4 DEF CoreInv

LEMMA CreateInitCore ==
    ASSUME TypeOK, CoreInv, CreateInit
    PROVE  CoreInv'
<1> DEFINE n == numOfThreads
<1>1. /\ Running /\ cpu.at = "creating" /\ cpu.of \in Tids
      /\ cpu'.of = cpu.of
      /\ cpu'.at = IF is_first_call THEN "starting" ELSE "user"
      /\ ~is_first_call'
      /\ UNCHANGED <<topThread, currentThreadID, numOfThreads,
                     exitedThreads, process>>
  BY DEF CreateInit, At, Goto, Running, TypeOK
<1>2. cpu.of = 0 /\ n \in Tids \ {0} /\ Unused(n)
  BY <1>1 DEF CoreInv, CreatedInv, Place
<1>3. /\ buf' = [buf EXCEPT ![n] = Ctx(n, "user", 0)]
      /\ status' = [status EXCEPT ![n] = "READY"]
  BY DEF CreateInit
<1>4. /\ status'[n] = "READY" /\ buf'[n] = Ctx(n, "user", 0)
      /\ \A t \in Tids \ {n} : buf'[t] = buf[t] /\ status'[t] = status[t]
      /\ status'[0] = status[0] /\ buf'[0] = buf[0]
  BY <1>2, <1>3, ZeroTid DEF TypeOK
<1>5. FirstInv'
  BY <1>1 DEF FirstInv
<1>6. ExecutingInv'
  <2>1. \/ topThread = currentThreadID
        \/ status'[topThread] = "EXITED" /\ buf'[topThread].at = "dead"
    BY <1>1, <1>2, <1>4 DEF CoreInv, ExecutingInv, FirstInv, CreatedInv, Unused, TypeOK
  <2>2. status'[0] = "EXITED" => is_first_call
    BY <1>1, <1>2, <1>4 DEF CoreInv, ExecutingInv, Exiting
  <2>3. is_first_call => buf'[0].at = "unset" /\ status'[0] = "EXITED"
    BY <1>1, <1>2, <1>4, ZeroTid DEF CoreInv, FirstInv, Stopped
  <2>4. QED
    BY <1>1, <1>2, <1>4, <2>1, <2>2, <2>3, ZeroTid
       DEF CoreInv, ExecutingInv, Running, Exiting
<1>7. SavedInv'
  <2> SUFFICES ASSUME NEW t \in Tids
               PROVE  /\ buf'[t].of = t
                      /\ buf'[t].at \notin NotSaved =>
                            /\ status'[t] # "EXITED"
                            /\ buf'[t].at \notin Exiting \cup {"fellThrough", "starting"}
    BY DEF SavedInv
  <2>1. CASE t = n
    BY <1>4, <2>1 DEF Ctx, Exiting
  <2>2. CASE t # n
    BY <1>1, <1>4, <2>2 DEF CoreInv, SavedInv
  <2>3. QED
    BY <2>1, <2>2
<1>8. CreatedInv'
  <2>1. \A t \in Tids : t > n => Unused(t)'
    BY <1>1, <1>2, <1>4 DEF CoreInv, CreatedInv, Unused, TypeOK, Tids
  <2>2. \A t \in Tids : Place(t)'.at # "creating"
    <3> SUFFICES ASSUME NEW t \in Tids PROVE Place(t)'.at # "creating"
      OBVIOUS
    <3>1. CASE t = 0
      BY <1>1, <1>2, <3>1 DEF Place
    <3>2. CASE t = n
      BY <1>1, <1>2, <1>4, <3>2 DEF Place, Ctx
    <3>3. CASE t # 0 /\ t # n
      BY <1>1, <1>2, <1>4, <3>3 DEF Place, CoreInv, CreatedInv
    <3>4. QED
      BY <3>1, <3>2, <3>3
  <2>3. QED
    BY <1>1, <2>1, <2>2 DEF CoreInv, CreatedInv
<1>9. NoContextLost'
  <2> SUFFICES ASSUME NEW u \in 1..n, u \in Tids,
                      status'[u] # "EXITED", u # cpu.of
               PROVE  buf'[u].at \notin NotSaved
    BY <1>1 DEF NoContextLost
  <2>1. CASE u = n
    BY <1>4, <2>1 DEF Ctx, NotSaved
  <2>2. CASE u # n
    BY <1>1, <1>4, <2>2 DEF CoreInv, NoContextLost
  <2>3. QED
    BY <2>1, <2>2
<1>10. CountedInv'
  <2>1. Finished \subseteq Finished'
    BY <1>1, <1>2, <1>4 DEF Finished, Unused
  <2>2. QED
    BY <1>1, <2>1, CountedKept DEF CoreInv
<1>11. QED
  BY <1>5, <1>6, <1>7, <1>8, <1>9, <1>10 DEF CoreInv

LEMMA SchedulerInitCore ==
    ASSUME TypeOK, CoreInv, SchedulerInit
    PROVE  CoreInv'
<1>1. /\ Running /\ cpu.at = "starting" /\ cpu.of = 0 /\ ~is_first_call
      /\ cpu'.of = 0 /\ cpu'.at = "user"
      /\ UNCHANGED <<buf, topThread, currentThreadID, numOfThreads,
                     exitedThreads, is_first_call, process>>
  BY DEF SchedulerInit, At, Goto, Running, TypeOK, CoreInv, ExecutingInv
<1>2. /\ status'[0] = "READY"
      /\ \A t \in Tids \ {0} : status'[t] = status[t]
  BY ZeroTid DEF SchedulerInit, TypeOK
<1>3. FirstInv'
  BY <1>1 DEF FirstInv
<1>4. ExecutingInv'
  <2>1. \/ topThread = currentThreadID
        \/ topThread # 0 /\ status[topThread] = "EXITED"
           /\ buf[topThread].at = "dead"
    BY <1>1 DEF CoreInv, ExecutingInv
  <2>2. \/ topThread = currentThreadID
        \/ status'[topThread] = "EXITED" /\ buf[topThread].at = "dead"
    BY <1>2, <2>1 DEF TypeOK
  <2>3. QED
    BY <1>1, <1>2, <2>2 DEF CoreInv, ExecutingInv, Running, Exiting
<1>5. SavedInv' /\ NoContextLost'
  BY <1>1, <1>2 DEF CoreInv, SavedInv, NoContextLost, Running
<1>6. CreatedInv'
  <2>1. \A t \in Tids \ {0} : Unused(t) <=> Unused(t)'
    BY <1>1, <1>2 DEF Unused
  <2>2. \A t \in Tids : Place(t)'.at = "creating" => Place(t).at = "creating"
    BY <1>1 DEF Place
  <2>3. QED
    BY <1>1, <2>1, <2>2 DEF CoreInv, CreatedInv, Running, TypeOK
<1>7. CountedInv'
  <2>1. Finished \subseteq Finished'
    BY <1>1, <1>2 DEF Finished
  <2>2. QED
    BY <1>1, <2>1, CountedKept DEF CoreInv
<1>8. QED
  BY <1>3, <1>4, <1>5, <1>6, <1>7 DEF CoreInv

LEMMA ExitMarkCore ==
    ASSUME TypeOK, CoreInv, ExitMark
    PROVE  CoreInv'
<1> DEFINE me == currentThreadID
<1>1. /\ Running /\ cpu.at = "user" /\ me = cpu.of /\ me \in Tids
      /\ cpu'.of = me /\ cpu'.at = "exiting" /\ cpu'.on = me
      /\ status'[me] = "EXITED"
      /\ \A t \in Tids \ {me} : status'[t] = status[t]
      /\ UNCHANGED <<buf, topThread, currentThreadID, numOfThreads,
                     exitedThreads, is_first_call, process>>
  BY DEF ExitMark, At, Ctx, Running, TypeOK, CoreInv, ExecutingInv
<1>2. status[me] = "EXITED" => is_first_call /\ me = 0
  BY <1>1 DEF CoreInv, ExecutingInv, FirstInv, Exiting
<1>3. FirstInv'
  BY <1>1 DEF CoreInv, FirstInv, Stopped, TypeOK
<1>4. ExecutingInv'
  BY <1>1 DEF CoreInv, ExecutingInv, Running, Exiting, TypeOK
<1>5. SavedInv'
  BY <1>1 DEF CoreInv, SavedInv, ExecutingInv
<1>6. CreatedInv'
  <2>1. \A t \in Tids : Unused(t) => Unused(t)'
    BY <1>1 DEF Unused
  <2>2. \A t \in Tids : Place(t)'.at = "creating" => Place(t).at = "creating"
    BY <1>1 DEF Place
  <2>3. QED
    BY <1>1, <2>1, <2>2 DEF CoreInv, CreatedInv, Running
<1>7. NoContextLost'
  BY <1>1 DEF CoreInv, NoContextLost, Running
<1>8. CountedInv'
  <2>1. Finished \subseteq Finished'
    BY <1>1, <1>2 DEF Finished
  <2>2. QED
    BY <1>1, <2>1, CountedKept DEF CoreInv
<1>9. QED
  BY <1>3, <1>4, <1>5, <1>6, <1>7, <1>8 DEF CoreInv

LEMMA ExitCountCore ==
    ASSUME TypeOK, CoreInv, ExitCount
    PROVE  CoreInv'
<1> DEFINE me == cpu.of
<1>1. /\ Running /\ cpu.at = "exiting" /\ cpu.on = me /\ me \in Tids
      /\ cpu'.of = me /\ cpu'.at = "exited"
      /\ status[me] = "EXITED"
      /\ exitedThreads' = exitedThreads + (IF me = 0 THEN 0 ELSE 1)
      /\ UNCHANGED <<status, buf, topThread, currentThreadID, numOfThreads,
                     is_first_call, process>>
  BY DEF ExitCount, At, Goto, Running, TypeOK, CoreInv, ExecutingInv, Exiting
<1>2. FirstInv'
  BY <1>1 DEF CoreInv, FirstInv, TypeOK
<1>3. ExecutingInv'
  BY <1>1 DEF CoreInv, ExecutingInv, Running, Exiting
<1>4. SavedInv' /\ NoContextLost'
  BY <1>1 DEF CoreInv, SavedInv, NoContextLost, Running
<1>5. CreatedInv'
  <2>1. \A t \in Tids : Unused(t) <=> Unused(t)'
    BY <1>1 DEF Unused
  <2>2. \A t \in Tids : Place(t)'.at = "creating" => Place(t).at = "creating"
    BY <1>1 DEF Place
  <2>3. QED
    BY <1>1, <2>1, <2>2 DEF CoreInv, CreatedInv, Running
<1>6. CountedInv'
  <2>1. CASE me = 0
    <3>1. Finished \subseteq Finished' /\ exitedThreads' = exitedThreads
      BY <1>1, <2>1 DEF Finished, TypeOK
    <3>2. QED
      BY <1>1, <3>1, CountedKept DEF CoreInv
  <2>2. CASE me # 0
    <3>1. buf[me].at = "dead"
      BY <1>1, <2>2 DEF CoreInv, ExecutingInv
    <3>2. Finished' = Finished \cup {me} /\ me \notin Finished
      BY <1>1, <2>2, <3>1 DEF Finished
    <3>3. Cardinality(Finished') = Cardinality(Finished) + 1
      BY <3>2, FinishedFinite, FS_AddElement
    <3>4. exitedThreads <= Cardinality(Finished)
      BY <1>1 DEF CoreInv, CountedInv
    <3>5. QED
      BY <1>1, <2>2, <3>3, <3>4, FinishedFinite DEF CountedInv, TypeOK
  <2>3. QED
    BY <2>1, <2>2
<1>7. QED
  BY <1>2, <1>3, <1>4, <1>5, <1>6 DEF CoreInv

(* When the counts agree, every worker has exited. *)
LEMMA CountsAgree ==
    ASSUME TypeOK, CoreInv, Running, exitedThreads = numOfThreads
    PROVE  \A t \in Tids \ {0} : status[t] = "EXITED"
<1>1. Finished \subseteq 1..numOfThreads
  BY DEF Finished, CoreInv, CreatedInv, Unused, TypeOK, Tids
<1>2. IsFiniteSet(1..numOfThreads) /\ Cardinality(1..numOfThreads) = numOfThreads
  BY FS_Interval DEF TypeOK
<1>3. Cardinality(Finished) <= numOfThreads
  BY <1>1, <1>2, FS_Subset
<1>4. numOfThreads <= Cardinality(Finished)
  BY DEF CoreInv, CountedInv
<1>5. Finished = 1..numOfThreads
  <2>1. Cardinality(Finished) = Cardinality(1..numOfThreads)
    BY <1>2, <1>3, <1>4, FinishedFinite DEF TypeOK
  <2>2. QED
    BY ONLY <1>1, <1>2, <2>1, FS_Subset
<1>6. QED
  BY <1>5 DEF Finished, CoreInv, CreatedInv, Unused, TypeOK, Tids

LEMMA ExitToMainCore ==
    ASSUME TypeOK, CoreInv, ExitToMain
    PROVE  CoreInv'
<1>1. /\ Running /\ cpu.at = "exited" /\ status[0] # "EXITED"
      /\ status[cpu.of] = "EXITED" /\ cpu.of \in Tids
      /\ currentThreadID' = 0
      /\ status'[0] = "RUNNING"
      /\ \A t \in Tids \ {0} : status'[t] = status[t]
      /\ UNCHANGED <<topThread, numOfThreads, exitedThreads, is_first_call>>
  BY ZeroTid DEF ExitToMain, At, Running, TypeOK, CoreInv, ExecutingInv, Exiting
<1>2. /\ cpu.of # 0 /\ ~is_first_call
      /\ topThread = cpu.of /\ buf[topThread].at = "dead"
  BY <1>1 DEF CoreInv, FirstInv, ExecutingInv
<1>3. /\ buf'[0].at = "dead" /\ buf'[0].of = 0
      /\ \A t \in Tids \ {0} : buf'[t] = buf[t]
      /\ Running' => cpu' = buf[0] /\ buf[0].at \notin NotSaved
  <2>1. buf[0] \in Context /\ buf[0].of = 0
    BY ZeroTid DEF TypeOK, CoreInv, SavedInv
  <2>2. /\ buf' = [buf EXCEPT ![0].at = "dead"]
        /\ process' = "running" => cpu' = buf[0] /\ buf[0].at \notin NotSaved
    BY DEF ExitToMain, Longjmp
  <2>3. QED
    BY <2>1, <2>2, ZeroTid DEF TypeOK, Context, Running
<1>4. Running' => /\ cpu'.of = 0
                  /\ cpu'.at \notin Exiting \cup {"fellThrough", "starting"}
  BY <1>3, ZeroTid DEF CoreInv, SavedInv
<1>5. FirstInv'
  BY <1>1, <1>2 DEF FirstInv
<1>6. ExecutingInv'
  BY <1>1, <1>2, <1>3, <1>4 DEF ExecutingInv, NotSaved, Exiting, TypeOK
<1>7. SavedInv'
  BY <1>1, <1>3 DEF CoreInv, SavedInv, NotSaved
<1>8. CreatedInv'
  <2> SUFFICES ASSUME Running' PROVE CreatedInv'
    BY DEF CreatedInv
  <2>1. \A t \in Tids : Unused(t) => Unused(t)'
    BY <1>1, <1>3 DEF Unused
  <2>2. ASSUME NEW t \in Tids, Place(t)'.at = "creating"
        PROVE  Place(t).at = "creating"
    <3>1. CASE t = 0
      BY <1>2, <1>3, <1>4, <2>2, <3>1 DEF Place
    <3>2. CASE t # 0
      <4>1. buf[t].at = "creating"
        BY <1>3, <1>4, <2>2, <3>2 DEF Place
      <4>2. QED
        BY <1>1, <4>1 DEF Place, CoreInv, ExecutingInv, NotSaved
    <3>3. QED
      BY <3>1, <3>2
  <2>3. QED
    BY <1>1, <2>1, <2>2, ZeroTid DEF CoreInv, CreatedInv, TypeOK
<1>9. NoContextLost'
  BY <1>1, <1>3, <1>4 DEF CoreInv, NoContextLost, TypeOK
<1>10. CountedInv'
  <2> SUFFICES ASSUME Running' PROVE CountedInv'
    BY DEF CountedInv
  <2>1. Finished \subseteq Finished'
    BY <1>1, <1>3, <1>4 DEF Finished
  <2>2. QED
    BY <1>1, <2>1, CountedKept DEF CoreInv
<1>11. QED
  BY <1>5, <1>6, <1>7, <1>8, <1>9, <1>10 DEF CoreInv
LEMMA ExitProcessCore ==
    ASSUME TypeOK, CoreInv, ExitProcess
    PROVE  CoreInv' /\ NobodyCutShort'
<1>1. /\ Running /\ ~Running'
      /\ UNCHANGED <<status, buf, topThread, currentThreadID, numOfThreads,
                     exitedThreads, is_first_call, cpu>>
  BY DEF ExitProcess, At, Running
<1>2. exitedThreads = numOfThreads /\ status[0] = "EXITED"
  BY DEF ExitProcess, At, Running, CoreInv, ExecutingInv
<1>3. NobodyCutShort'
  BY <1>1, <1>2, CountsAgree DEF NobodyCutShort
<1>4. CoreInv'
  BY <1>1 DEF CoreInv, FirstInv, ExecutingInv, SavedInv, CreatedInv,
              NoContextLost, CountedInv
<1>5. QED
  BY <1>3, <1>4

LEMMA AlarmCore ==
    ASSUME TypeOK, CoreInv, Alarm
    PROVE  CoreInv'
<1>1. CASE is_first_call
  BY <1>1 DEF Alarm, CoreInv, FirstInv, ExecutingInv, SavedInv, CreatedInv,
              NoContextLost, CountedInv, Running
<1>2. CASE ~is_first_call
  <2>1. /\ Running /\ Schedule(cpu) /\ cpu \in Exec
        /\ UNCHANGED <<numOfThreads, exitedThreads, is_first_call>>
    BY <1>2 DEF Alarm, Running, TypeOK, Exec
  <2>2. MayReturnTo(cpu)
    BY <2>1 DEF MayReturnTo, CoreInv, ExecutingInv
  <2>3. QED
    BY <2>1, <2>2, ScheduleCore
<1>3. QED
  BY <1>1, <1>2

LEMMA ExitScheduleCore ==
    ASSUME TypeOK, CoreInv, ExitSchedule
    PROVE  CoreInv'
<1> DEFINE c == [cpu EXCEPT !.at = "fellThrough"]
<1>1. /\ Running /\ cpu.at = "exited" /\ Schedule(c)
      /\ UNCHANGED <<numOfThreads, exitedThreads, is_first_call>>
  BY DEF ExitSchedule, At, Running
<1>2. c \in Exec
  BY CpuType DEF Exec, CodePoints
<1>3. MayReturnTo(c)
  BY <1>1 DEF MayReturnTo, CoreInv, ExecutingInv, Exiting, TypeOK
<1>4. QED
  BY <1>1, <1>2, <1>3, ScheduleCore

(* Every step of the scheduler's own. *)
LEMMA CoreStepInv ==
    ASSUME OnlyMainCreates, TypeOK, CoreInv,
           CreateCount \/ ExitMark \/ CoreStep \/ Alarm \/ UNCHANGED coreVars
    PROVE  CoreInv'
<1>1. CASE UNCHANGED coreVars
  BY <1>1 DEF coreVars, CoreInv, FirstInv, ExecutingInv, SavedInv, CreatedInv,
              NoContextLost, CountedInv, Running, Place, Unused, Finished
<1>2. QED
  BY <1>1, CreateCountCore, ExitMarkCore, CreateNoMemoryCore, CreateInitCore,
     SchedulerInitCore,
     ExitCountCore, ExitScheduleCore, ExitToMainCore, ExitProcessCore,
     AlarmCore DEF CoreStep

LEMMA InitCore == Init => TypeOK /\ CoreInv
<1> SUFFICES ASSUME Init PROVE TypeOK /\ CoreInv
  OBVIOUS
<1>1. TypeOK
  BY InitType
<1>2. /\ is_first_call /\ numOfThreads = 0 /\ exitedThreads = 0
      /\ topThread = 0 /\ currentThreadID = 0
      /\ cpu.of = 0 /\ cpu.at = "user"
      /\ \A t \in Tids : status[t] = "EXITED" /\ buf[t].at = "unset" /\ buf[t].of = t
  BY ZeroTid DEF Init, Ctx
<1>3. FirstInv /\ ExecutingInv /\ SavedInv /\ NoContextLost
  BY <1>2, ZeroTid DEF FirstInv, ExecutingInv, SavedInv, NoContextLost,
                       Stopped, NotSaved, Exiting
<1>4. CreatedInv
  BY <1>2 DEF CreatedInv, Unused, Place
<1>5. CountedInv
  BY <1>2, FinishedFinite DEF CountedInv
<1>6. QED
  BY <1>1, <1>3, <1>4, <1>5 DEF CoreInv

(* Whatever the number of threads and however preemptions fall, the        *)
(* scheduler's bookkeeping stays consistent and no worker's context is     *)
(* lost, if only main creates threads.                                     *)
THEOREM CoreInvariant == ASSUME OnlyMainCreates PROVE Spec => []CoreInv
<1>1. TypeOK /\ CoreInv /\ [Next]_coreVars => (TypeOK /\ CoreInv)'
  BY TypeStep, CoreStepInv DEF Next, Halted
<1>2. QED
  BY <1>1, InitCore, PTL DEF Spec

(* exit(0) cuts nobody short. *)
THEOREM NobodyIsCutShort == ASSUME OnlyMainCreates PROVE Spec => []NobodyCutShort
<1> DEFINE I == TypeOK /\ CoreInv /\ NobodyCutShort
<1>1. Init => I
  BY InitCore DEF Init, NobodyCutShort
<1>2. I /\ [Next]_coreVars => I'
  <2> SUFFICES ASSUME I, [Next]_coreVars PROVE I'
    OBVIOUS
  <2>1. TypeOK' /\ CoreInv'
    BY TypeStep, CoreStepInv DEF Next, Halted
  <2>2. CASE ExitProcess
    BY <2>1, <2>2, ExitProcessCore
  <2>3. CASE UNCHANGED coreVars
    BY <2>1, <2>3 DEF coreVars, NobodyCutShort
  <2>4. CASE /\ [Next]_coreVars /\ ~ExitProcess /\ ~UNCHANGED coreVars
    <3>1. process' # "exited"
      BY <2>4 DEF Next, CoreStep, Halted, CreateCount, ExitMark,
         CreateNoMemory, CreateInit, SchedulerInit, ExitCount, ExitSchedule, ExitToMain,
         Alarm, At, Schedule, Longjmp
    <3>2. QED
      BY <2>1, <3>1 DEF NobodyCutShort
  <2>5. QED
    BY <2>2, <2>3, <2>4
<1>3. QED
  BY <1>1, <1>2, PTL DEF Spec

(* A thread that has exited is never scheduled again.                      *)
THEOREM ExitsAreFinal == ASSUME OnlyMainCreates PROVE Spec => ExitIsFinal
<1> DEFINE Final == \A t \in Tids : status[t] = "EXITED" /\ buf[t].at = "dead"
                                        => status'[t] = "EXITED"
<1>1. TypeOK /\ CoreInv /\ [Next]_coreVars => [Final]_coreVars
  <2> SUFFICES ASSUME TypeOK, CoreInv, Next PROVE Final
    OBVIOUS
  <2>1. CASE CreateInit
    <3>1. Unused(numOfThreads)
      BY <2>1 DEF CreateInit, At, CoreInv, CreatedInv, Place, Running, TypeOK
    <3>2. QED
      BY <2>1, <3>1 DEF CreateInit, Unused, TypeOK
  <2>2. CASE ExitSchedule \/ Alarm
    <3>1. CASE status' = status
      BY <3>1
    <3>2. CASE status' # status
      <4>1. PICK c \in Exec : Schedule(c) /\ Running
        BY <2>2, <3>2, CpuType
           DEF ExitSchedule, Alarm, At, Running, TypeOK, Exec, CodePoints
      <4>2. PICK t \in Tids : Resumed(c, t)
        BY <4>1, <3>2, ScheduleResult
      <4>3. QED
        BY <4>2 DEF Resumed, Stopped
    <3>3. QED
      BY <3>1, <3>2
  <2>3. CASE ExitToMain
    BY <2>3, ZeroTid DEF ExitToMain, TypeOK
  <2>4. CASE ExitMark
    BY <2>4 DEF ExitMark, TypeOK
  <2>5. CASE CreateCount \/ CreateNoMemory \/ ExitCount \/ ExitProcess \/ Halted
    BY <2>5 DEF CreateCount, CreateNoMemory, ExitCount, ExitProcess, Halted,
                coreVars
  <2>6. CASE SchedulerInit
    <3>1. status[0] = "EXITED" => buf[0].at = "unset"
      BY <2>6 DEF SchedulerInit, At, Running, CoreInv, ExecutingInv
    <3>2. QED
      BY <2>6, <3>1 DEF SchedulerInit, TypeOK
  <2>7. QED
    BY <2>1, <2>2, <2>3, <2>4, <2>5, <2>6 DEF Next, CoreStep
<1>2. Spec => [](TypeOK /\ CoreInv)
  BY TypeCorrect, CoreInvariant, PTL
<1>3. QED
  BY <1>1, <1>2, PTL DEF Spec, ExitIsFinal
=============================================================================
