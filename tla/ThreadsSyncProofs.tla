-------------------------- MODULE ThreadsSyncProofs --------------------------
(***************************************************************************)
(* Proofs about the thread library as a whole, module ThreadsSync, for     *)
(* every number of threads, mutexes and barriers: the types, whatever the  *)
(* program does; and, where each barrier is used for one round, that the   *)
(* mutexes still exclude and the barriers still hold next to each other.   *)
(***************************************************************************)
EXTENDS ThreadsSync, ThreadsMutexProofs, ThreadsBarrierProofs
----------------------------------------------------------------------------
(* Types. *)

LEMMA SyncType ==
    ASSUME STypeOK, WaitsInv, [SNext]_syncVars
    PROVE  STypeOK'
<1>1. /\ MTypeOK <=> TypeOK /\ MState
      /\ MTypeOK' <=> TypeOK' /\ MState'
      /\ BTypeOK <=> TypeOK /\ BState
      /\ BTypeOK' <=> TypeOK' /\ BState'
  BY DEF MTypeOK, MState, BTypeOK, BState
<1>2. MTypeOK /\ BTypeOK /\ TypeOK
  BY <1>1 DEF STypeOK
<1>3. CASE [MNext]_mutexVars /\ UNCHANGED barrierState
  <2>1. MTypeOK'
    BY <1>2, <1>3, MutexTypeStep, ReturnsFromMutex
  <2>2. BState'
    BY <1>1, <1>2, <1>3 DEF BState, barrierState
  <2>3. QED
    BY <1>1, <2>1, <2>2 DEF STypeOK
<1>4. CASE [BNext]_barrierVars /\ UNCHANGED mutexState
  <2>1. BTypeOK'
    BY <1>2, <1>4, BarrierType
  <2>2. MState'
    BY <1>1, <1>2, <1>4 DEF MState, mutexState
  <2>3. QED
    BY <1>1, <2>1, <2>2 DEF STypeOK
<1>5. QED
  BY <1>3, <1>4 DEF SNext, MNext, BNext, syncVars, mutexVars, barrierVars

LEMMA BarrierWaits ==
    ASSUME STypeOK, WaitsInv, BarrierInit \/ BarrierCall \/ BarrierStep
    PROVE  WaitsInv'
<1>1. TypeOK /\ cpu \in Exec
  BY DEF STypeOK, MTypeOK, TypeOK, Exec
<1>2. CASE BarrierInit
  BY <1>2 DEF BarrierInit, coreVars, WaitsInv
<1>3. CASE BarrierCall
  <2>1. PICK b \in Barriers : BarrierBlock(b) \/ BarrierRelease(b)
    BY <1>3 DEF BarrierCall, BarrierWait
  <2>2. cpu'.at \notin WaitPoints /\ buf' = buf
    BY <2>1 DEF BarrierBlock, BarrierRelease, BarrierEnter, Ctx, WaitPoints
  <2>3. QED
    BY <2>2 DEF WaitsInv
<1>4. CASE BarrierYield
  <2>1. PICK c \in Exec : c = [cpu EXCEPT !.at = "barrierCheck"]
    BY <1>1, CpuType DEF CodePoints, Exec
  <2>2. Schedule(c) /\ c.at \notin WaitPoints
    BY <1>1, <1>4, <2>1 DEF BarrierYield, Exec, WaitPoints
  <2>3. QED
    BY <1>1, <2>2, ScheduleWaits
<1>5. CASE BarrierReturn \/ BarrierSerial \/ BarrierClear
  <2>1. cpu'.at \notin WaitPoints /\ buf' = buf
    BY <1>1, <1>5 DEF BarrierReturn, BarrierSerial, BarrierClear, Return, Goto,
                      Exec, WaitPoints
  <2>2. QED
    BY <2>1 DEF WaitsInv
<1>6. QED
  BY <1>2, <1>3, <1>4, <1>5 DEF BarrierStep

LEMMA SyncWaits ==
    ASSUME STypeOK, WaitsInv, [SNext]_syncVars
    PROVE  WaitsInv'
<1>1. CASE [MNext]_mutexVars
  BY <1>1, WaitsStep DEF STypeOK
<1>2. CASE BarrierInit \/ BarrierCall \/ BarrierStep
  BY <1>2, BarrierWaits
<1>3. QED
  BY <1>1, <1>2 DEF SNext, MNext, syncVars, mutexVars

LEMMA InitSyncType == SInit => STypeOK /\ WaitsInv
<1> SUFFICES ASSUME SInit PROVE STypeOK /\ WaitsInv
  OBVIOUS
<1>1. MInit /\ BInit
  BY DEF SInit, MInit, BInit
<1>2. QED
  BY <1>1, InitMutex, InitBarrierType, InitWaits DEF STypeOK, MInit

(* The library keeps its types, however mutexes and barriers are mixed and *)
(* whoever creates threads: no list ever yields anything but a thread, and *)
(* nothing but a real code point is ever resumed.                          *)
THEOREM SyncTypeCorrect == SSpec => []STypeOK
<1>1. STypeOK /\ WaitsInv /\ [SNext]_syncVars => (STypeOK /\ WaitsInv)'
  BY SyncType, SyncWaits
<1>2. QED
  BY <1>1, InitSyncType, PTL DEF SSpec
----------------------------------------------------------------------------
(* One round. *)

(* What the proofs below assume: each barrier is used for one round, as in *)
(* ch3Tests/barrierTest.c, by threads other than main.  The list of a      *)
(* barrier that is used again still names the threads of the round before, *)
(* and wakes those that wait for a mutex: Sync_MutualExclusion.cfg.        *)
OneRound ==
    /\ OnlyMainCreates
    /\ 0 \notin BarrierClients
    /\ WAIT_LIMIT <= COUNT

(* Until the count of a barrier is met, currentCount is the calls so far,  *)
(* and each has left another thread in the list.                           *)
RoundBooks ==
    \A b \in Barriers :
        /\ b >= barrierId => arrived[b] = 0 /\ Listed(b) = {}
        /\ arrived[b] < COUNT =>
            currentCount[b] = arrived[b] /\ Cardinality(Listed(b)) = arrived[b]

(* Until then, too, whoever is in the list is a worker blocked there.      *)
RoundLists ==
    Running =>
        \A b \in Barriers : arrived[b] < COUNT =>
            \A t \in Listed(b) : t # 0 /\ Inside(t, b) /\ status[t] = "BLOCKED"

(* A blocked worker waits where it is listed, and the list is still to be  *)
(* worked through.                                                         *)
WhereInv ==
    Running =>
        \A t \in Tids \ {0} : status[t] = "BLOCKED" =>
            \/ \E m \in Mutexes : Waiting(t, m) /\ t \in Queued(m)
            \/ \E b \in Barriers :
                Inside(t, b) /\ arrived[b] < COUNT /\ t \in Listed(b)

ClientsInv ==
    Running => \A t \in Tids : Place(t).at \in InBarrier => t \in BarrierClients

RoundInv == RoundBooks /\ RoundLists /\ WhereInv /\ ClientsInv

SyncInv == STypeOK /\ WaitsInv /\ MInv /\ RoundInv

LEMMA InsideMeans ==
    \A t, b : /\ Inside(t, b) <=> Place(t).at \in InBarrier /\ Place(t).on = b
              /\ Inside(t, b)' <=> Place(t)'.at \in InBarrier /\ Place(t)'.on = b
BY DEF Inside, InBarrier
----------------------------------------------------------------------------
(* Steps of the scheduler's own. *)

(* A step that leaves every worker in the call it is in, and what is       *)
(* blocked, blocked; and takes nobody into a barrier.                      *)
SameCall(u) ==
    /\ Place(u)'.at \in WaitPoints <=> Place(u).at \in WaitPoints
    /\ Place(u)'.at \in InBarrier <=> Place(u).at \in InBarrier
    /\ Place(u).at \in WaitPoints \cup InBarrier => Place(u)'.on = Place(u).on

Kept ==
    /\ \A u \in Tids \ {0} :
        SameCall(u) /\ (status'[u] = "BLOCKED" <=> status[u] = "BLOCKED")
    /\ \A u \in Tids : Place(u)'.at \in InBarrier => Place(u).at \in InBarrier
    /\ Running' => Running

LEMMA KeptCalls ==
    ASSUME Kept, NEW u \in Tids \ {0}
    PROVE  /\ status'[u] = "BLOCKED" <=> status[u] = "BLOCKED"
           /\ \A b : Inside(u, b)' <=> Inside(u, b)
           /\ \A m : Waiting(u, m)' <=> Waiting(u, m)
BY InsideMeans DEF Kept, SameCall, Waiting

LEMMA RoundKept ==
    ASSUME BTypeOK, RoundInv, Kept, UNCHANGED <<mutexState, barrierState>>
    PROVE  RoundInv'
<1>1. /\ \A b \in Barriers : Listed(b)' = Listed(b)
      /\ \A m \in Mutexes : Queued(m)' = Queued(m)
      /\ UNCHANGED <<arrived, currentCount, barrierId>>
  BY DEF Listed, Queued, mutexState, barrierState
<1>2. \A b \in Barriers : Listed(b) \subseteq Tids
  BY DEF BTypeOK, Listed
<1>3. RoundBooks'
  BY <1>1 DEF RoundInv, RoundBooks
<1>4. RoundLists'
  <2> SUFFICES ASSUME Running', NEW b \in Barriers, arrived[b] < COUNT, NEW t \in Listed(b)
               PROVE  t # 0 /\ Inside(t, b)' /\ status'[t] = "BLOCKED"
    BY <1>1 DEF RoundLists
  <2>1. t # 0 /\ Inside(t, b) /\ status[t] = "BLOCKED"
    BY DEF RoundInv, RoundLists, Kept
  <2>2. QED
    BY <1>2, <2>1, KeptCalls
<1>5. WhereInv'
  <2> SUFFICES ASSUME Running', NEW t \in Tids \ {0}, status'[t] = "BLOCKED"
               PROVE  \/ \E m \in Mutexes : Waiting(t, m)' /\ t \in Queued(m)
                      \/ \E b \in Barriers :
                            Inside(t, b)' /\ arrived[b] < COUNT /\ t \in Listed(b)
    BY <1>1 DEF WhereInv
  <2>1. \/ \E m \in Mutexes : Waiting(t, m) /\ t \in Queued(m)
        \/ \E b \in Barriers :
              Inside(t, b) /\ arrived[b] < COUNT /\ t \in Listed(b)
    BY KeptCalls DEF RoundInv, WhereInv, Kept
  <2>2. QED
    BY <2>1, KeptCalls
<1>6. ClientsInv'
  BY DEF RoundInv, ClientsInv, Kept
<1>7. QED
  BY <1>3, <1>4, <1>5, <1>6 DEF RoundInv

(* The client of a barrier is in the phase it was in. *)
LEMMA KeptPhases ==
    ASSUME OneRound, Kept PROVE SamePhases
<1>1. BarrierClients \subseteq Tids \ {0}
  BY BarrierAssumption DEF OneRound
<1>2. QED
  BY <1>1, KeptCalls DEF SamePhases, Phase

(* schedule() lets nobody out of a call, or into one: whoever it leaves    *)
(* behind it saves, but for main after the jump of line 494.               *)
LEMMA ScheduleKept ==
    ASSUME TypeOK, CoreInv, Running, NEW c \in Exec, MayReturnTo(c),
           SameWait(c), SameBarrier(c), Schedule(c)
    PROVE  Kept
<1>1. CASE /\ process' = "spinning"
           /\ UNCHANGED <<status, buf, topThread, currentThreadID, cpu>>
  BY <1>1 DEF Kept, SameCall, Place
<1>2. ASSUME NEW t \in Tids, Resumed(c, t), process' \in {"running", "stale"}
      PROVE  Kept
  <2>1. ~is_first_call /\ status[t] # "EXITED" /\ status[t] # "BLOCKED"
    BY <1>2 DEF CoreInv, FirstInv, Resumed, Stopped
  <2>2. ASSUME status[topThread] # "EXITED"
        PROVE  topThread = cpu.of /\ currentThreadID = cpu.of
    BY <2>2 DEF CoreInv, ExecutingInv
  <2>3. \A u \in Tids : status'[u] = "BLOCKED" <=> status[u] = "BLOCKED"
    BY <1>2, <2>1 DEF Resumed, Stopped
  <2>4. /\ buf'[t].at = "dead" /\ \A u \in Tids \ {t} : buf'[u] = Saved(c)[u]
        /\ Running' => cpu' = Saved(c)[t]
    BY <1>2 DEF Resumed, Running
  <2>5. ~Running' => cpu' = cpu /\ Saved(c)[t].at \in NotSaved
    BY <1>2, StaleResult DEF Running
  <2>6. Saved(c)[t].of = t
    <3>1. CASE t = topThread /\ status[topThread] # "EXITED"
      BY <2>2, <3>1, SavedValue DEF MayReturnTo
    <3>2. CASE ~(t = topThread /\ status[topThread] # "EXITED")
      BY <3>2, SavedValue DEF CoreInv, SavedInv
    <3>3. QED
      BY <3>1, <3>2
(* Where a thread comes back to, if anybody is resumed. *)
  <2>7. ASSUME NEW u \in Tids, Running'
        PROVE  Place(u)' = Saved(c)[u]
    BY <2>4, <2>6, <2>7 DEF Place
(* The longjmp to a context that has returned: it is main's. *)
  <2>8. ASSUME NEW u \in Tids, ~Running'
        PROVE  \/ Place(u)' = Place(u)
               \/ u = 0 /\ Place(u)'.at = "dead"
    <3>1. cpu' = cpu /\ Saved(c)[t].at \in NotSaved
      BY <2>5, <2>8
    <3>2. CASE u = cpu.of
      BY <3>1, <3>2 DEF Place
    <3>3. CASE u # cpu.of /\ u # t
      <4>1. ~(u = topThread /\ status[topThread] # "EXITED")
        BY <2>2, <3>3
      <4>2. buf'[u] = buf[u]
        BY <2>4, <3>3, <4>1, SavedValue
      <4>3. QED
        BY <3>1, <3>3, <4>2 DEF Place
    <3>4. CASE u # cpu.of /\ u = t
      <4>1. ~(u = topThread /\ status[topThread] # "EXITED")
        BY <2>2, <3>4
      <4>2. buf[u].at \in NotSaved
        BY <3>1, <3>4, <4>1, SavedValue
      <4>3. u <= numOfThreads
        BY <1>2, <3>4 DEF Resumed
      <4>4. u \notin 1..numOfThreads
        BY <2>1, <3>4, <4>2 DEF CoreInv, NoContextLost
      <4>5. u = 0
        BY <4>3, <4>4 DEF TypeOK, Tids
      <4>6. QED
        BY <2>4, <3>1, <3>4, <4>5 DEF Place
    <3>5. QED
      BY <3>2, <3>3, <3>4
  <2>9. ASSUME NEW u \in Tids
        PROVE  Place(u)'.at \in InBarrier => Place(u).at \in InBarrier
    <3>1. CASE ~Running'
      BY <2>8, <3>1 DEF InBarrier
    <3>2. CASE Running' /\ u = topThread /\ status[topThread] # "EXITED"
      BY <2>2, <2>7, <3>2, SavedValue DEF Place, SameBarrier
    <3>3. CASE Running' /\ ~(u = topThread /\ status[topThread] # "EXITED")
      <4>1. Place(u)' = buf[u]
        BY <2>7, <3>3, SavedValue
      <4>2. QED
        BY <4>1 DEF Place, CoreInv, ExecutingInv, NotSaved, InBarrier
    <3>4. QED
      BY <3>1, <3>2, <3>3
  <2>10. ASSUME NEW u \in Tids \ {0}
         PROVE  SameCall(u)
    <3>1. CASE ~Running'
      BY <2>8, <3>1 DEF SameCall
    <3>2. CASE Running' /\ u = topThread /\ status[topThread] # "EXITED"
      BY <2>2, <2>7, <3>2, SavedValue DEF Place, SameBarrier, SameWait, SameCall
    <3>3. CASE Running' /\ ~(u = topThread /\ status[topThread] # "EXITED")
      <4>1. Place(u)' = buf[u]
        BY <2>7, <3>3, SavedValue
      <4>2. CASE u # cpu.of
        BY <4>1, <4>2 DEF Place, SameCall
      <4>3. CASE u = cpu.of
        <5>1. status[cpu.of] = "EXITED"
          BY <3>3, <4>3 DEF CoreInv, ExecutingInv
        <5>2. Place(u) = cpu /\ cpu.at \in Exiting
          BY <2>1, <4>3, <5>1 DEF Place, CoreInv, ExecutingInv
        <5>3. Place(u)'.at \in NotSaved
          BY <4>1, <4>3 DEF CoreInv, ExecutingInv
        <5>4. QED
          BY <5>2, <5>3 DEF SameCall, Exiting, NotSaved, WaitPoints, InBarrier
      <4>4. QED
        BY <4>2, <4>3
    <3>4. QED
      BY <3>1, <3>2, <3>3
  <2>11. QED
    BY <2>3, <2>9, <2>10 DEF Kept
<1>3. QED
  BY <1>1, <1>2, ScheduleResult

(* A step that moves the executing thread between two points outside every *)
(* call, and leaves the table alone.                                       *)
LEMMA QuietKept ==
    ASSUME Running, UNCHANGED <<status, buf>>, cpu'.of = cpu.of,
           cpu.at \notin WaitPoints \cup InBarrier,
           cpu'.at \notin WaitPoints \cup InBarrier
    PROVE  Kept
BY DEF Kept, SameCall, Place

LEMMA CoreKept ==
    ASSUME TypeOK, CoreInv, BlockedInv,
           CreateCount \/ ExitMark \/ CoreStep \/ Alarm \/ UNCHANGED coreVars
    PROVE  Kept
<1> USE DEF WaitPoints, InBarrier
<1>1. cpu \in Exec
  BY DEF TypeOK, Exec
<1>2. CASE CreateCount \/ CreateNoMemory \/ ExitCount \/ ExitProcess
  <2>1. /\ Running /\ UNCHANGED <<status, buf>> /\ cpu'.of = cpu.of
        /\ cpu.at \in {"user", "creating", "exiting", "exited", "fellThrough"}
        /\ cpu'.at \in {"user", "creating", "exited", "fellThrough"}
    BY <1>1, <1>2 DEF CreateCount, CreateNoMemory, ExitCount, ExitProcess, At,
                      Goto, Running, Exec
  <2>2. QED
    BY <2>1, QuietKept
<1>3. CASE ExitMark
  <2>1. /\ Running /\ cpu.at = "user" /\ cpu.of = currentThreadID
        /\ cpu'.of = cpu.of /\ cpu'.at = "exiting" /\ buf' = buf
        /\ status' = [status EXCEPT ![currentThreadID] = "EXITED"]
    BY <1>3 DEF ExitMark, At, Ctx, Running, CoreInv, ExecutingInv
  <2>2. status[cpu.of] # "BLOCKED"
    BY <2>1 DEF BlockedInv
  <2>3. QED
    BY <2>1, <2>2 DEF Kept, SameCall, Place, TypeOK
<1>4. CASE CreateInit
  <2> DEFINE n == numOfThreads
  <2>1. /\ Running /\ cpu.at = "creating" /\ cpu'.of = cpu.of
        /\ cpu'.at \in {"user", "starting"}
        /\ buf' = [buf EXCEPT ![n] = Ctx(n, "user", 0)]
        /\ status' = [status EXCEPT ![n] = "READY"]
    BY <1>1, <1>4 DEF CreateInit, At, Goto, Running, Exec
  <2>2. cpu.of = 0 /\ n \in Tids \ {0} /\ Unused(n)
    <3>1. Place(cpu.of) = cpu /\ cpu.of \in Tids
      BY <1>1 DEF Place, Exec
    <3>2. QED
      BY <2>1, <3>1 DEF CoreInv, CreatedInv
  <2>3. /\ buf[n].at = "unset" /\ status[n] = "EXITED"
        /\ buf'[n].at = "user" /\ status'[n] = "READY"
        /\ \A u \in Tids \ {0, n} : buf'[u] = buf[u] /\ status'[u] = status[u]
        /\ buf'[0] = buf[0]
    BY <2>1, <2>2, ZeroTid DEF Unused, TypeOK, Ctx
  <2>4. ASSUME NEW u \in Tids \ {0}
        PROVE  SameCall(u) /\ (status'[u] = "BLOCKED" <=> status[u] = "BLOCKED")
    BY <2>1, <2>2, <2>3 DEF SameCall, Place
  <2>5. ASSUME NEW u \in Tids
        PROVE  Place(u)'.at \in InBarrier => Place(u).at \in InBarrier
    BY <2>1, <2>2, <2>3 DEF Place
  <2>6. QED
    BY <2>1, <2>4, <2>5 DEF Kept
<1>5. CASE ExitSchedule
  <2>1. PICK c \in Exec : c = [cpu EXCEPT !.at = "fellThrough"]
    BY CpuType DEF CodePoints, Exec
  <2>2. /\ Running /\ cpu.at = "exited" /\ Schedule(c)
        /\ c.at = "fellThrough" /\ c.of = cpu.of /\ c.on = cpu.on
    BY <1>1, <1>5, <2>1 DEF ExitSchedule, At, Running, Exec
  <2>3. MayReturnTo(c) /\ SameWait(c) /\ SameBarrier(c)
    BY <2>2 DEF MayReturnTo, SameWait, SameBarrier, CoreInv, ExecutingInv, Exiting
  <2>4. QED
    BY <2>2, <2>3, ScheduleKept
<1>6. CASE ExitToMain
  <2>1. /\ Running /\ cpu.at = "exited" /\ Longjmp(buf, 0)
        /\ status' = [status EXCEPT ![0] = "RUNNING"]
    BY <1>6 DEF ExitToMain, At, Running
  <2>2. cpu.of # 0 /\ buf[cpu.of].at \in NotSaved
    BY <1>6, <2>1 DEF ExitToMain, CoreInv, ExecutingInv, Exiting
  <2>3. /\ \A u \in Tids \ {0} : buf'[u] = buf[u] /\ status'[u] = status[u]
        /\ buf'[0].at = "dead"
        /\ \/ cpu' = cpu
           \/ cpu' = buf[0] /\ cpu'.of = 0 /\ buf[0].at \notin NotSaved
    BY <2>1, ZeroTid DEF Longjmp, TypeOK, Context, CoreInv, SavedInv
  <2>4. \A u \in Tids \ {0} :
            SameCall(u) /\ (status'[u] = "BLOCKED" <=> status[u] = "BLOCKED")
    BY <2>1, <2>2, <2>3 DEF SameCall, Place, NotSaved
  <2>5. \A u \in Tids : Place(u)'.at \in InBarrier => Place(u).at \in InBarrier
    BY <2>1, <2>2, <2>3 DEF Place, NotSaved
  <2>6. QED
    BY <2>1, <2>4, <2>5 DEF Kept
<1>7. CASE Alarm
  <2>1. CASE is_first_call
    BY <1>7, <2>1 DEF Alarm, Kept, SameCall, Place, Running
  <2>2. CASE ~is_first_call
    <3>1. Running /\ Schedule(cpu)
      BY <1>7, <2>2 DEF Alarm, Running
    <3>2. MayReturnTo(cpu) /\ SameWait(cpu) /\ SameBarrier(cpu)
      BY <2>2, <3>1 DEF MayReturnTo, SameWait, SameBarrier, CoreInv, ExecutingInv
    <3>3. QED
      BY <1>1, <3>1, <3>2, ScheduleKept
  <2>3. QED
    BY <2>1, <2>2
<1>8. CASE UNCHANGED coreVars
  BY <1>8 DEF coreVars, Kept, SameCall, Place, Running
<1>9. CASE SchedulerInit
  <2>1. /\ Running /\ cpu.at = "starting" /\ cpu.of = 0 /\ cpu'.of = 0
        /\ cpu'.at = "user" /\ buf' = buf
        /\ status' = [status EXCEPT ![0] = "READY"]
    BY <1>1, <1>9 DEF SchedulerInit, At, Goto, Running, Exec, CoreInv,
                      ExecutingInv
  <2>2. QED
    BY <2>1 DEF Kept, SameCall, Place, TypeOK
<1>10. QED
  BY <1>2, <1>3, <1>4, <1>5, <1>6, <1>7, <1>8, <1>9 DEF CoreStep
----------------------------------------------------------------------------
(* The steps of the mutexes, next to barriers. *)

LEMMA CoreRound ==
    ASSUME SyncInv, UNCHANGED <<mutexState, barrierState>>,
           CreateCount \/ ExitMark \/ CoreStep \/ Alarm \/ UNCHANGED coreVars
    PROVE  RoundInv' /\ (OneRound => SamePhases)
<1>1. BTypeOK /\ TypeOK /\ CoreInv /\ BlockedInv /\ RoundInv
  BY DEF SyncInv, STypeOK, MInv, MutexPart
<1>2. Kept
  BY <1>1, CoreKept
<1>3. QED
  BY <1>1, <1>2, RoundKept, KeptPhases

LEMMA MutexYieldRound ==
    ASSUME SyncInv, MutexYield, UNCHANGED barrierState
    PROVE  RoundInv' /\ (OneRound => SamePhases)
<1>1. BTypeOK /\ TypeOK /\ CoreInv /\ RoundInv /\ cpu \in Exec
  BY DEF SyncInv, STypeOK, MInv, TypeOK, Exec
<1>2. PICK c \in Exec : c = [cpu EXCEPT !.at = "mutexReturn"]
  BY <1>1, CpuType DEF CodePoints, Exec
<1>3. c.of = cpu.of /\ c.on = cpu.on /\ c.at = "mutexReturn"
  BY <1>1, <1>2 DEF Exec
<1>4. /\ Running /\ cpu.at = "mutexYield" /\ Schedule(c) /\ UNCHANGED mutexState
  BY <1>2 DEF MutexYield, At, Running
<1>5. MayReturnTo(c) /\ SameWait(c) /\ SameBarrier(c)
  BY <1>3, <1>4 DEF MayReturnTo, SameWait, SameBarrier, WaitPoints, InBarrier, Exiting
<1>6. Kept
  BY <1>1, <1>4, <1>5, ScheduleKept
<1>7. QED
  BY <1>1, <1>4, <1>6, RoundKept, KeptPhases

(* The executing thread me moves on, with no barrier; the others that are  *)
(* blocked afterwards were blocked before, and are listed as they were.    *)
LEMMA MutexRound ==
    ASSUME SyncInv, Running, UNCHANGED <<buf, barrierState>>,
           cpu'.of = cpu.of, cpu.at \notin InBarrier, cpu'.at \notin InBarrier,
           \A t \in Tids \ {0, cpu.of} :
                /\ status'[t] = "BLOCKED" => status[t] = "BLOCKED"
                /\ \A b : Inside(t, b) /\ status[t] = "BLOCKED" => status'[t] = "BLOCKED"
                /\ status'[t] = "BLOCKED" =>
                    \A m \in Mutexes : t \in Queued(m) => t \in Queued(m)',
           status'[cpu.of] = "BLOCKED" /\ cpu.of # 0 =>
                \E m \in Mutexes : Waiting(cpu.of, m)' /\ cpu.of \in Queued(m)'
    PROVE  RoundInv' /\ (OneRound => SamePhases)
<1>1. BTypeOK /\ TypeOK /\ RoundInv /\ cpu.of \in Tids
  BY DEF SyncInv, STypeOK, MInv, TypeOK
<1>2. /\ \A b \in Barriers : Listed(b)' = Listed(b) /\ Listed(b) \subseteq Tids
      /\ UNCHANGED <<arrived, currentCount, barrierId>>
  BY <1>1 DEF Listed, barrierState, BTypeOK
<1>3. /\ Place(cpu.of) = cpu /\ Place(cpu.of)' = cpu'
      /\ \A t \in Tids \ {cpu.of} : Place(t)' = Place(t)
  BY DEF Place
<1>4. /\ \A b : ~Inside(cpu.of, b)
      /\ \A b : Inside(cpu.of, b)' <=> FALSE
      /\ \A t \in Tids \ {cpu.of} :
            /\ \A b : Inside(t, b)' <=> Inside(t, b)
            /\ \A m : Waiting(t, m)' <=> Waiting(t, m)
  BY <1>3, InsideMeans DEF Waiting
<1>5. RoundBooks'
  BY <1>1, <1>2 DEF RoundInv, RoundBooks
<1>6. RoundLists'
  <2> SUFFICES ASSUME NEW b \in Barriers, arrived[b] < COUNT, NEW t \in Listed(b)
               PROVE  t # 0 /\ Inside(t, b)' /\ status'[t] = "BLOCKED"
    BY <1>2 DEF RoundLists
  <2>1. t \in Tids \ {0} /\ Inside(t, b) /\ status[t] = "BLOCKED"
    BY <1>1, <1>2 DEF RoundInv, RoundLists
  <2>2. QED
    BY <1>4, <2>1
<1>7. WhereInv'
  <2> SUFFICES ASSUME NEW t \in Tids \ {0}, status'[t] = "BLOCKED"
               PROVE  \/ \E m \in Mutexes : Waiting(t, m)' /\ t \in Queued(m)'
                      \/ \E b \in Barriers :
                            Inside(t, b)' /\ arrived[b] < COUNT /\ t \in Listed(b)
    BY <1>2 DEF WhereInv
  <2>1. CASE t # cpu.of
    <3>1. \/ \E m \in Mutexes : Waiting(t, m) /\ t \in Queued(m)
          \/ \E b \in Barriers :
                Inside(t, b) /\ arrived[b] < COUNT /\ t \in Listed(b)
      BY <1>1, <2>1 DEF RoundInv, WhereInv
    <3>2. QED
      BY <1>4, <2>1, <3>1
  <2>2. QED
    BY <2>1
<1>8. ClientsInv'
  BY <1>1, <1>3 DEF RoundInv, ClientsInv
<1>9. ASSUME OneRound PROVE SamePhases
  <2>1. BarrierClients \subseteq Tids \ {0}
    BY <1>9, BarrierAssumption DEF OneRound
  <2>2. ASSUME NEW t \in BarrierClients PROVE Phase(t, 0)' = Phase(t, 0)
    <3>1. CASE t = cpu.of
      BY <1>4, <3>1 DEF Phase
    <3>2. CASE t # cpu.of
      BY <1>4, <2>1, <3>2 DEF Phase
    <3>3. QED
      BY <3>1, <3>2
  <2>3. QED
    BY <2>2 DEF SamePhases
<1>10. QED
  BY <1>5, <1>6, <1>7, <1>8, <1>9 DEF RoundInv

LEMMA MutexStepRound ==
    ASSUME SyncInv, MutexInit \/ MutexCall \/ MutexStep, UNCHANGED barrierState
    PROVE  RoundInv' /\ (OneRound => SamePhases)
<1> USE DEF InBarrier
<1>1. MInv /\ TypeOK /\ cpu \in Exec /\ MState
  BY DEF SyncInv, MInv, TypeOK, Exec
<1>2. CASE MutexInit
  <2>1. /\ At("user") /\ UNCHANGED coreVars /\ mutexId \in Nat
        /\ mutexThreadLists' = [mutexThreadLists EXCEPT ![mutexId] = <<>>]
    BY <1>1, <1>2 DEF MutexInit, MState
  <2>2. /\ Running /\ cpu' = cpu /\ cpu.at = "user" /\ status[cpu.of] # "BLOCKED"
        /\ UNCHANGED <<buf, status>>
    BY <1>1, <2>1, Caller DEF coreVars, At
  <2>3. \A m \in Mutexes : mutexThreadLists'[m] = mutexThreadLists[m]
    BY <1>1, <2>1, <2>2 DEF MState, MInv, MutexPart, UnbornInv
  <2>4. \A m \in Mutexes : Queued(m)' = Queued(m)
    BY <2>3 DEF Queued
  <2>5. QED
    BY <2>2, <2>4, MutexRound
<1>3. ASSUME NEW m \in Mutexes, MutexClaim(m) \/ MutexRelease(m)
      PROVE  RoundInv' /\ (OneRound => SamePhases)
  <2>1. /\ At("user") /\ cpu' = cpu
        /\ UNCHANGED <<buf, status, mutexThreadLists>>
    BY <1>3 DEF MutexClaim, MutexRelease
  <2>2. Running /\ cpu.at = "user" /\ status[cpu.of] # "BLOCKED"
    BY <1>1, <2>1, Caller DEF At
  <2>3. \A k \in Mutexes : Queued(k)' = Queued(k)
    BY <2>1 DEF Queued
  <2>4. QED
    BY <2>1, <2>2, <2>3, MutexRound
<1>4. ASSUME NEW m \in Mutexes, MutexEnqueue(m)
      PROVE  RoundInv' /\ (OneRound => SamePhases)
  <2> DEFINE me == cpu.of
  <2>1. /\ At("user") /\ UNCHANGED buf
        /\ status' = [status EXCEPT ![currentThreadID] = "BLOCKED"]
        /\ mutexThreadLists' =
                [mutexThreadLists EXCEPT ![m] = Append(@, currentThreadID)]
        /\ cpu' = Ctx(me, "mutexYield", m)
    BY <1>4 DEF MutexEnqueue
  <2>2. Running /\ cpu.at = "user" /\ currentThreadID = me /\ me \in Tids
    BY <1>1, <2>1, Caller DEF At
  <2>3. cpu'.of = me /\ cpu'.at = "mutexYield" /\ cpu'.on = m
    BY <2>1 DEF Ctx
  <2>4. \A t \in Tids \ {me} : status'[t] = status[t]
    BY <1>1, <2>1, <2>2 DEF TypeOK
  <2>5. /\ \A k \in Mutexes \ {m} : Queued(k)' = Queued(k)
        /\ Queued(m)' = Queued(m) \cup {me}
    <3>1. /\ mutexThreadLists'[m] = Append(mutexThreadLists[m], me)
          /\ mutexThreadLists[m] \in Seq(Tids)
          /\ \A k \in Mutexes \ {m} : mutexThreadLists'[k] = mutexThreadLists[k]
      BY <1>1, <2>1, <2>2 DEF MState
    <3>2. QED
      BY <2>2, <3>1, AppendedItem DEF Queued
  <2>6. Waiting(me, m)' /\ me \in Queued(m)'
    BY <2>3, <2>5 DEF Waiting, Place, WaitPoints
  <2>7. \A k \in Mutexes : Queued(k) \subseteq Queued(k)'
    BY <2>5
  <2>8. QED
    BY <2>1, <2>2, <2>3, <2>4, <2>6, <2>7, MutexRound
<1>5. ASSUME NEW m \in Mutexes, MutexHandOver(m)
      PROVE  RoundInv' /\ (OneRound => SamePhases)
  <2> DEFINE list == mutexThreadLists[m]
             h == Head(list)
  <2>1. /\ At("user") /\ UNCHANGED <<buf, cpu>> /\ list # <<>> /\ m \in held[cpu.of]
        /\ status' = [status EXCEPT ![h] = "READY"]
        /\ mutexThreadLists' = [mutexThreadLists EXCEPT ![m] = Tail(@)]
    BY <1>5 DEF MutexHandOver
  <2>2. Running /\ cpu.at = "user" /\ status[cpu.of] # "BLOCKED"
    BY <1>1, <2>1, Caller DEF At
  <2>3. h \in Tids /\ (h = 0 \/ Waiting(h, m))
    BY <1>1, <2>1, FirstInLine
  <2>4. status'[h] = "READY" /\ \A t \in Tids \ {h} : status'[t] = status[t]
    BY <1>1, <2>1, <2>3 DEF TypeOK
  <2>5. \A t \in Tids \ {h} : \A k \in Mutexes : t \in Queued(k) => t \in Queued(k)'
    <3>1. /\ \A k \in Mutexes \ {m} : mutexThreadLists'[k] = mutexThreadLists[k]
          /\ list \in Seq(Tids) /\ mutexThreadLists'[m] = Tail(list)
      BY <1>1, <2>1 DEF MState
    <3>2. /\ Len(list) \in Nat \ {0} /\ h = list[1]
          /\ DOMAIN list = 1..Len(list) /\ DOMAIN Tail(list) = 1..(Len(list) - 1)
          /\ \A i \in 1..(Len(list) - 1) : Tail(list)[i] = list[i + 1]
      BY <2>1, <3>1, HeadTailProperties, EmptySeq, LenProperties
    <3>3. ASSUME NEW t \in Tids \ {h}, t \in Queued(m) PROVE t \in Queued(m)'
      <4>1. PICK i \in DOMAIN list : t = list[i]
        BY <3>3 DEF Queued
      <4>2. i - 1 \in DOMAIN Tail(list) /\ Tail(list)[i - 1] = t
        BY <3>2, <4>1
      <4>3. QED
        BY <3>1, <4>2 DEF Queued
    <3>4. QED
      BY <3>1, <3>3 DEF Queued
  <2>6. \A b : Inside(h, b) => h = 0
    BY <2>3, InsideMeans DEF Waiting, WaitPoints
  <2>7. status'[cpu.of] # "BLOCKED"
    BY <1>1, <2>2, <2>4 DEF Exec
  <2>8. QED
    BY <2>1, <2>2, <2>4, <2>5, <2>6, <2>7, MutexRound
<1>6. CASE MutexReturn
  <2>1. /\ Running /\ cpu.at = "mutexReturn" /\ cpu'.of = cpu.of /\ cpu'.at = "user"
        /\ UNCHANGED <<buf, status, mutexThreadLists>>
    BY <1>1, <1>6 DEF MutexReturn, At, Goto, Running, Exec
  <2>2. status[cpu.of] # "BLOCKED"
    BY <1>1, <2>1 DEF MInv, MutexPart, BlockedInv
  <2>3. \A k \in Mutexes : Queued(k)' = Queued(k)
    BY <2>1 DEF Queued
  <2>4. QED
    BY <2>1, <2>2, <2>3, MutexRound
<1>7. QED
  BY <1>2, <1>3, <1>4, <1>5, <1>6, MutexYieldRound
     DEF MutexCall, MutexLock, MutexUnlock, MutexStep
----------------------------------------------------------------------------
(* The steps of the barriers, next to mutexes. *)

(* A step that changes the status only of workers that wait for no mutex.  *)
LEMMA NoMutexStep ==
    ASSUME MInv, Running, UNCHANGED <<buf, is_first_call, mutexState>>,
           cpu'.of = cpu.of, cpu.at \notin WaitPoints \cup {"barrierYield"},
           cpu'.at \notin WaitPoints \cup {"starting"},
           status'[cpu.of] = "BLOCKED" => cpu'.at = "barrierYield",
           \A t \in Tids :
                \/ status'[t] = status[t]
                \/ /\ t # 0 /\ Place(t).at \notin WaitPoints
                   /\ status[t] # "EXITED" /\ status'[t] # "EXITED"
    PROVE  MutexPart'
<1>1. \A u \in Tids : Place(u)'.at \in WaitPoints \/ Place(u).at \in WaitPoints
                        => Place(u)' = Place(u) /\ status'[u] = status[u]
  BY DEF Place
<1>2. \A u \in Tids : status'[u] = "EXITED" <=> status[u] = "EXITED"
  OBVIOUS
<1>3. \A u \in Tids, m \in Mutexes :
        /\ Waiting(u, m)' <=> Waiting(u, m)
        /\ Waiting(u, m) => status'[u] = status[u]
  BY <1>1 DEF Waiting
<1>4. \A u \in Tids, m \in Mutexes : Granted(u, m)' <=> Granted(u, m)
  BY <1>2, <1>3 DEF Granted, mutexState
<1>5. /\ status'[0] = status[0] /\ MainLost' <=> MainLost
      /\ \A m \in Mutexes : MainForced(m)' <=> MainForced(m)
  BY <1>4, ZeroTid DEF MainForced, MainLost, mutexState
<1>6. BlockedInv'
  BY DEF BlockedInv
<1>7. UnbornInv'
  BY <1>1 DEF MInv, MutexPart, UnbornInv, mutexState
<1>8. ClosedInv'
  BY <1>3 DEF MInv, MutexPart, ClosedInv, mutexState
<1>9. QueueInv'
  <2> SUFFICES ASSUME NEW m \in Mutexes, NEW i \in DOMAIN mutexThreadLists[m],
                      NEW u \in Tids, u = mutexThreadLists[m][i]
               PROVE  \/ Waiting(u, m)' /\ status'[u] = "BLOCKED"
                      \/ u = 0 /\ ~is_first_call /\ MainLost'
                      \/ u = 0 /\ ~is_first_call /\ i = 1 /\ MainForced(m)'
    BY DEF MInv, MState, MutexPart, QueueInv, mutexState
  <2>1. QED
    BY <1>3, <1>5 DEF MInv, MutexPart, QueueInv
<1>10. MutualExclusion'
  BY <1>4 DEF MInv, MutexPart, MutualExclusion, Running
<1>11. QED
  BY <1>6, <1>7, <1>8, <1>9, <1>10 DEF MutexPart

(* Who arrives at a barrier is a worker that is in no call and no list,    *)
(* and the round it arrives for is not complete.                           *)
LEMMA Arrives ==
    ASSUME OneRound, SyncInv, NEW b \in Barriers, BarrierEnter(b)
    PROVE  /\ Running /\ At("user") /\ cpu.at = "user" /\ ~is_first_call
           /\ cpu.of \in Tids \ {0} /\ cpu.of \in BarrierClients
           /\ currentThreadID = cpu.of /\ b < barrierId /\ b \in Nat
           /\ status[cpu.of] # "BLOCKED" /\ status[cpu.of] # "EXITED"
           /\ \A c : ~Inside(cpu.of, c)
           /\ arrived[b] < COUNT /\ COUNT \in Nat /\ arrived[b] \in Nat
           /\ currentCount[b] = arrived[b] /\ Cardinality(Listed(b)) = arrived[b]
           /\ Listed(b) \subseteq Tids \ {0, cpu.of} /\ IsFiniteSet(Listed(b))
           /\ arrived'[b] = arrived[b] + 1
           /\ \A c \in Barriers \ {b} : arrived'[c] = arrived[c]
           /\ UNCHANGED <<buf, topThread, currentThreadID, numOfThreads,
                          exitedThreads, is_first_call, process, barrierId>>
<1>1. BTypeOK /\ TypeOK /\ MInv /\ RoundInv
  BY DEF SyncInv, STypeOK, MInv
<1>2. At("user") /\ cpu.of \in BarrierClients /\ b < barrierId /\ arrived[b] < WAIT_LIMIT
  BY DEF BarrierEnter
<1>3. /\ Running /\ cpu.at = "user" /\ cpu.of \in Tids \ {0} /\ currentThreadID = cpu.of
      /\ status[cpu.of] # "BLOCKED" /\ status[cpu.of] # "EXITED" /\ ~is_first_call
      /\ Place(cpu.of) = cpu
  BY <1>1, <1>2, Caller DEF At, OneRound
<1>4. \A c : ~Inside(cpu.of, c)
  BY <1>3, InsideMeans DEF InBarrier
<1>5. /\ arrived[b] \in Nat /\ COUNT \in Nat /\ arrived[b] < COUNT
      /\ b \in Nat
  BY <1>1, <1>2, BarrierAssumption DEF BTypeOK, OneRound, Barriers
<1>6. currentCount[b] = arrived[b] /\ Cardinality(Listed(b)) = arrived[b]
  BY <1>1, <1>5 DEF RoundInv, RoundBooks
<1>7. Listed(b) \subseteq Tids \ {0, cpu.of}
  <2>1. Listed(b) \subseteq Tids
    BY <1>1 DEF BTypeOK, Listed
  <2>2. QED
    BY <1>1, <1>3, <1>5, <2>1 DEF RoundInv, RoundLists
<1>8. IsFiniteSet(Listed(b))
  <2>1. IsFiniteSet(Tids) /\ Listed(b) \subseteq Tids
    BY <1>7, FS_Interval, ThreadsAssumption DEF Tids
  <2>2. QED
    BY <2>1, FS_Subset
<1>9. /\ arrived'[b] = arrived[b] + 1
      /\ \A c \in Barriers \ {b} : arrived'[c] = arrived[c]
  BY <1>1 DEF BarrierEnter, BTypeOK
<1>10. QED
  BY <1>2, <1>3, <1>4, <1>5, <1>6, <1>7, <1>8, <1>9 DEF BarrierEnter


LEMMA BlockRound ==
    ASSUME OneRound, SyncInv, NEW b \in Barriers, BarrierBlock(b), UNCHANGED mutexState
    PROVE  /\ CoreInv' /\ MutexPart' /\ RoundInv'
           /\ b = 0 => Moves(cpu.of, "outside", "waiting")
           /\ b # 0 => SamePhases
<1> DEFINE me == cpu.of
<1>1. BTypeOK /\ TypeOK /\ MInv /\ CoreInv /\ RoundInv /\ BarrierEnter(b)
  BY DEF SyncInv, STypeOK, MInv, BarrierBlock
<1>2. /\ Running /\ cpu.at = "user" /\ ~is_first_call
      /\ me \in Tids \ {0} /\ me \in BarrierClients /\ b < barrierId
      /\ status[me] # "BLOCKED" /\ status[me] # "EXITED"
      /\ currentThreadID = me /\ \A c : ~Inside(me, c)
      /\ UNCHANGED <<buf, topThread, currentThreadID, numOfThreads,
                     exitedThreads, is_first_call, process, barrierId>>
  BY <1>1, Arrives
<1>3. status'[me] = "BLOCKED" /\ \A u \in Tids \ {me} : status'[u] = status[u]
  BY <1>1, <1>2 DEF BarrierBlock, TypeOK
<1>4. /\ Listed(b)' = Listed(b) \cup {me}
      /\ \A c \in Barriers \ {b} : Listed(c)' = Listed(c)
  <2>1. /\ barrierThreadLists'[b] = Append(barrierThreadLists[b], me)
        /\ barrierThreadLists[b] \in Seq(Tids)
        /\ \A c \in Barriers \ {b} : barrierThreadLists'[c] = barrierThreadLists[c]
    BY <1>1, <1>2 DEF BarrierBlock, BTypeOK
  <2>2. QED
    BY <1>2, <2>1, AppendedItem DEF Listed
<1>5. cpu'.of = me /\ cpu'.at = "barrierYield" /\ cpu'.on = b
  BY DEF BarrierBlock, Ctx
<1>6. /\ Place(me)' = cpu' /\ Place(me) = cpu
      /\ \A u \in Tids \ {me} : Place(u)' = Place(u)
  BY <1>2, <1>5 DEF Place
<1>7. /\ \A c : Inside(me, c)' <=> c = b
      /\ \A u \in Tids \ {me}, c \in Nat : Inside(u, c)' <=> Inside(u, c)
      /\ \A u \in Tids, m \in Mutexes : u # me => (Waiting(u, m)' <=> Waiting(u, m))
      /\ \A m : ~Waiting(me, m)
  BY <1>2, <1>5, <1>6, InsideMeans DEF InBarrier, Waiting, WaitPoints
<1>8. CoreInv'
  BY <1>1, <1>2, <1>3, <1>5, MutexOpCore DEF Exiting
<1>9. MutexPart'
  BY <1>1, <1>2, <1>3, <1>5, <1>6, NoMutexStep DEF WaitPoints
<1>10. /\ arrived[b] < COUNT /\ arrived'[b] < COUNT
       /\ currentCount'[b] = arrived'[b] /\ Cardinality(Listed(b)') = arrived'[b]
       /\ \A c \in Barriers \ {b} : /\ arrived'[c] = arrived[c]
                                    /\ currentCount'[c] = currentCount[c]
  <2>1. /\ arrived[b] < COUNT /\ COUNT \in Nat /\ arrived[b] \in Nat
        /\ currentCount[b] = arrived[b] /\ Cardinality(Listed(b)) = arrived[b]
        /\ IsFiniteSet(Listed(b)) /\ me \notin Listed(b)
        /\ arrived'[b] = arrived[b] + 1
        /\ \A c \in Barriers \ {b} : arrived'[c] = arrived[c]
    BY <1>1, Arrives
  <2>2. Cardinality(Listed(b) \cup {me}) = arrived[b] + 1
    BY <2>1, FS_AddElement
  <2>3. /\ currentCount[b] + 1 # COUNT
        /\ currentCount'[b] = currentCount[b] + 1
        /\ \A c \in Barriers \ {b} : currentCount'[c] = currentCount[c]
    BY <1>1 DEF BarrierBlock, BTypeOK
  <2>4. QED
    BY <1>4, <2>1, <2>2, <2>3
<1>11. RoundBooks'
  <2>1. b \in Nat /\ barrierId \in Nat
    BY <1>1 DEF BTypeOK, Barriers
  <2>2. QED
    BY <1>1, <1>2, <1>4, <1>10, <2>1 DEF RoundInv, RoundBooks
<1>12. \A c \in Barriers : c \in Nat /\ Listed(c) \subseteq Tids
  BY <1>1 DEF Barriers, BTypeOK, Listed
<1>13. RoundLists'
  <2> SUFFICES ASSUME NEW c \in Barriers, arrived'[c] < COUNT, NEW t \in Listed(c)'
               PROVE  t # 0 /\ Inside(t, c)' /\ status'[t] = "BLOCKED"
    BY DEF RoundLists
  <2>1. CASE t = me /\ c = b
    BY <1>2, <1>3, <1>5, <1>7, <2>1
  <2>2. CASE ~(t = me /\ c = b)
    <3>1. t \in Listed(c) /\ arrived[c] < COUNT
      BY <1>4, <1>10, <2>2
    <3>2. t \in Tids \ {0} /\ Inside(t, c) /\ status[t] = "BLOCKED"
      BY <1>1, <1>2, <1>12, <3>1 DEF RoundInv, RoundLists
    <3>3. QED
      BY <1>2, <1>3, <1>7, <1>12, <3>2
  <2>3. QED
    BY <2>1, <2>2
<1>14. WhereInv'
  <2> SUFFICES ASSUME NEW t \in Tids \ {0}, status'[t] = "BLOCKED"
               PROVE  \/ \E m \in Mutexes : Waiting(t, m)' /\ t \in Queued(m)
                      \/ \E c \in Barriers :
                            Inside(t, c)' /\ arrived'[c] < COUNT /\ t \in Listed(c)'
    BY DEF WhereInv, Queued, mutexState
  <2>1. CASE t = me
    BY <1>4, <1>5, <1>7, <1>10, <2>1
  <2>2. CASE t # me
    <3>1. status[t] = "BLOCKED"
      BY <1>3, <2>2
    <3>2. \/ \E m \in Mutexes : Waiting(t, m) /\ t \in Queued(m)
          \/ \E c \in Barriers :
                Inside(t, c) /\ arrived[c] < COUNT /\ t \in Listed(c)
      BY <1>1, <1>2, <3>1 DEF RoundInv, WhereInv
    <3>3. CASE \E m \in Mutexes : Waiting(t, m) /\ t \in Queued(m)
      BY <1>7, <2>2, <3>3
    <3>4. CASE \E c \in Barriers :
                Inside(t, c) /\ arrived[c] < COUNT /\ t \in Listed(c)
      <4>1. PICK c \in Barriers :
                Inside(t, c) /\ arrived[c] < COUNT /\ t \in Listed(c)
        BY <3>4
      <4>2. Inside(t, c)'
        BY <1>7, <1>12, <2>2, <4>1
      <4>3. arrived'[c] < COUNT /\ t \in Listed(c)'
        BY <1>4, <1>10, <4>1
      <4>4. QED
        BY <4>2, <4>3
    <3>5. QED
      BY <3>2, <3>3, <3>4
  <2>3. QED
    BY <2>1, <2>2
<1>15. ClientsInv'
  BY <1>1, <1>2, <1>6 DEF RoundInv, ClientsInv
<1>16. RoundInv'
  BY <1>11, <1>13, <1>14, <1>15 DEF RoundInv
<1>17. /\ Phase(me, 0) = "outside" /\ Phase(me, 0)' = IF b = 0 THEN "waiting" ELSE "outside"
       /\ \A u \in BarrierClients \ {me} : Phase(u, 0)' = Phase(u, 0)
  <2>1. BarrierClients \subseteq Tids
    BY BarrierAssumption
  <2>2. QED
    BY <1>2, <1>3, <1>5, <1>7, <2>1 DEF Phase
<1>18. QED
  BY <1>2, <1>5, <1>8, <1>9, <1>16, <1>17 DEF Moves, SamePhases

LEMMA ReleaseRound ==
    ASSUME OneRound, SyncInv, NEW b \in Barriers, BarrierRelease(b), UNCHANGED mutexState
    PROVE  /\ CoreInv' /\ MutexPart' /\ RoundInv'
           /\ b = 0 => Releases(cpu.of)
           /\ b # 0 => SamePhases
<1> DEFINE me == cpu.of
<1>1. BTypeOK /\ TypeOK /\ MInv /\ CoreInv /\ RoundInv /\ BarrierEnter(b)
  BY DEF SyncInv, STypeOK, MInv, BarrierRelease
<1>2. /\ Running /\ cpu.at = "user" /\ ~is_first_call
      /\ me \in Tids \ {0} /\ me \in BarrierClients /\ b < barrierId /\ b \in Nat
      /\ status[me] # "BLOCKED" /\ status[me] # "EXITED"
      /\ \A c : ~Inside(me, c)
      /\ arrived[b] < COUNT /\ COUNT \in Nat /\ arrived[b] \in Nat
      /\ currentCount[b] = arrived[b]
      /\ me \notin Listed(b) /\ Listed(b) \subseteq Tids \ {0}
      /\ arrived'[b] = arrived[b] + 1
      /\ \A c \in Barriers \ {b} : arrived'[c] = arrived[c]
      /\ UNCHANGED <<buf, topThread, currentThreadID, numOfThreads,
                     exitedThreads, is_first_call, process, barrierId>>
  BY <1>1, Arrives
<1>3. \A u \in Tids : status'[u] = IF u \in Listed(b) THEN "READY" ELSE status[u]
  BY DEF BarrierRelease
<1>4. \A u \in Listed(b) : status[u] = "BLOCKED" /\ Inside(u, b)
  BY <1>1, <1>2 DEF RoundInv, RoundLists
<1>5. cpu'.of = me /\ cpu'.at = "barrierCheck" /\ cpu'.on = b
  BY DEF BarrierRelease, Ctx
<1>6. /\ Place(me)' = cpu' /\ Place(me) = cpu
      /\ \A u \in Tids \ {me} : Place(u)' = Place(u)
  BY <1>2, <1>5 DEF Place
<1>7. /\ \A c : Inside(me, c)' <=> c = b
      /\ \A u \in Tids \ {me} : \A c : Inside(u, c)' <=> Inside(u, c)
      /\ \A u \in Tids, m \in Mutexes : u # me => (Waiting(u, m)' <=> Waiting(u, m))
  BY <1>2, <1>5, <1>6, InsideMeans DEF InBarrier, Waiting
<1>8. CoreInv'
  BY <1>1, <1>2, <1>3, <1>4, <1>5, MutexOpCore DEF Exiting
<1>9. MutexPart'
  <2>1. \A u \in Listed(b) : Place(u).at \notin WaitPoints
    BY <1>4, InsideMeans DEF InBarrier, WaitPoints
  <2>2. \A u \in Tids :
            \/ status'[u] = status[u]
            \/ /\ u # 0 /\ Place(u).at \notin WaitPoints
               /\ status[u] # "EXITED" /\ status'[u] # "EXITED"
    BY <1>2, <1>3, <1>4, <2>1
  <2>3. status'[me] # "BLOCKED"
    BY <1>2, <1>3
  <2>4. QED
    BY <1>1, <1>2, <1>5, <2>2, <2>3, NoMutexStep DEF WaitPoints
<1>10. /\ arrived'[b] = COUNT
       /\ \A c \in Barriers : Listed(c)' = Listed(c)
       /\ \A c \in Barriers \ {b} : currentCount'[c] = currentCount[c]
  BY <1>1, <1>2 DEF BarrierRelease, BTypeOK, Listed
<1>11. RoundBooks'
  <2>1. barrierId \in Nat
    BY <1>1 DEF BTypeOK
  <2>2. QED
    BY <1>1, <1>2, <1>10, <2>1 DEF RoundInv, RoundBooks
(* Who is in two lists would be woken here and be missing there. *)
<1>12. ASSUME NEW c \in Barriers, c # b, arrived[c] < COUNT, NEW t \in Listed(c)
       PROVE  t \in Tids \ {0, me} /\ t \notin Listed(b) /\ status'[t] = "BLOCKED"
  <2>1. t \in Tids
    BY <1>1 DEF BTypeOK, Listed
  <2>2. t # 0 /\ Inside(t, c) /\ status[t] = "BLOCKED"
    BY <1>1, <1>2, <1>12 DEF RoundInv, RoundLists
  <2>3. t \notin Listed(b)
    BY <1>4, <1>12, <2>2, InsideMeans
  <2>4. QED
    BY <1>2, <1>3, <2>1, <2>2, <2>3
<1>13. RoundLists'
  <2> SUFFICES ASSUME NEW c \in Barriers, arrived'[c] < COUNT, NEW t \in Listed(c)
               PROVE  t # 0 /\ Inside(t, c)' /\ status'[t] = "BLOCKED"
    BY <1>10 DEF RoundLists
  <2>1. c # b /\ arrived[c] < COUNT
    BY <1>2, <1>10
  <2>2. t \in Tids \ {0, me} /\ status'[t] = "BLOCKED" /\ Inside(t, c)
    BY <1>1, <1>2, <1>12, <2>1 DEF RoundInv, RoundLists
  <2>3. QED
    BY <1>7, <2>2
<1>14. WhereInv'
  <2> SUFFICES ASSUME NEW t \in Tids \ {0}, status'[t] = "BLOCKED"
               PROVE  \/ \E m \in Mutexes : Waiting(t, m)' /\ t \in Queued(m)
                      \/ \E c \in Barriers :
                            Inside(t, c)' /\ arrived'[c] < COUNT /\ t \in Listed(c)
    BY <1>10 DEF WhereInv, Queued, mutexState
  <2>1. status[t] = "BLOCKED" /\ t \notin Listed(b) /\ t # me
    BY <1>2, <1>3
  <2>2. \/ \E m \in Mutexes : Waiting(t, m) /\ t \in Queued(m)
        \/ \E c \in Barriers :
              Inside(t, c) /\ arrived[c] < COUNT /\ t \in Listed(c)
    BY <1>1, <1>2, <2>1 DEF RoundInv, WhereInv
  <2>3. QED
    BY <1>2, <1>7, <2>1, <2>2
<1>15. ClientsInv'
  BY <1>1, <1>2, <1>6 DEF RoundInv, ClientsInv
<1>16. RoundInv'
  BY <1>11, <1>13, <1>14, <1>15 DEF RoundInv
(* Those that wait for the round are those in the list. *)
<1>17. ASSUME b = 0, NEW u \in Tids \ {0, me}
       PROVE  Phase(u, 0)' = IF Phase(u, 0) = "waiting" THEN "released" ELSE Phase(u, 0)
  <2>1. Inside(u, 0)' <=> Inside(u, 0)
    BY <1>7
  <2>2. ASSUME Inside(u, 0), status[u] = "BLOCKED" PROVE u \in Listed(0)
    <3>1. \A m : ~Waiting(u, m)
      BY <2>2, InsideMeans DEF Waiting, WaitPoints, InBarrier
    <3>2. PICK c \in Barriers : Inside(u, c) /\ u \in Listed(c)
      BY <1>1, <1>2, <2>2, <3>1 DEF RoundInv, WhereInv
    <3>3. c = 0
      BY <2>2, <3>2, InsideMeans
    <3>4. QED
      BY <3>2, <3>3
  <2>3. QED
    BY <1>3, <1>4, <1>17, <2>1, <2>2 DEF Phase
<1>18. ASSUME b # 0, NEW u \in Tids \ {0, me}
       PROVE  Phase(u, 0)' = Phase(u, 0)
  <2>1. u \in Listed(b) => ~Inside(u, 0)
    BY <1>4, <1>18, InsideMeans
  <2>2. QED
    BY <1>3, <1>7, <2>1 DEF Phase
<1>19. Phase(me, 0) = "outside" /\ Phase(me, 0)' = IF b = 0 THEN "released" ELSE "outside"
  BY <1>2, <1>3, <1>5, <1>7 DEF Phase
<1>20. BarrierClients \subseteq Tids \ {0}
  BY BarrierAssumption DEF OneRound
<1>21. QED
  BY <1>2, <1>5, <1>8, <1>9, <1>16, <1>17, <1>18, <1>19, <1>20 DEF Releases, SamePhases

(* Lines 404-408: nobody that is blocked is there. *)
LEMMA CheckRound ==
    ASSUME OneRound, SyncInv, UNCHANGED mutexState,
           BarrierReturn \/ BarrierSerial \/ BarrierClear
    PROVE  /\ CoreInv' /\ MutexPart' /\ RoundInv' /\ cpu.of \in BarrierClients
           /\ BarrierSerial \/ cpu.on # 0 => SamePhases
           /\ ~BarrierSerial /\ cpu.on = 0 => Moves(cpu.of, "released", "outside")
<1> DEFINE me == cpu.of
<1>1. /\ BTypeOK /\ TypeOK /\ MInv /\ CoreInv /\ BlockedInv /\ RoundInv
      /\ cpu \in Exec /\ me \in Tids
  BY DEF SyncInv, STypeOK, MInv, MutexPart, TypeOK, Exec
<1>2. /\ Running /\ cpu.at \in {"barrierCheck", "barrierClear"}
      /\ UNCHANGED <<status, buf, topThread, currentThreadID, numOfThreads,
                     exitedThreads, is_first_call, process, barrierId,
                     barrierThreadLists, currentCount, arrived>>
  BY DEF BarrierReturn, BarrierSerial, BarrierClear, Return, At, Running, barrierState
<1>3. /\ cpu'.of = me /\ cpu'.on = cpu.on
      /\ BarrierSerial => cpu'.at = "barrierClear"
      /\ ~BarrierSerial => cpu'.at = "user"
  BY <1>1 DEF BarrierReturn, BarrierSerial, BarrierClear, Return, Goto, Exec
<1>4. Place(me) = cpu /\ \A u \in Tids \ {me} : Place(u)' = Place(u)
  BY <1>3, <1>2 DEF Place
<1>5. me \in BarrierClients /\ me # 0 /\ status[me] # "BLOCKED"
  BY <1>1, <1>2, <1>4 DEF RoundInv, ClientsInv, BlockedInv, InBarrier, OneRound
<1>6. CoreInv'
  <2>1. is_first_call => status[0] \in Stopped /\ status[0] # "BLOCKED"
    BY <1>1, <1>2 DEF CoreInv, FirstInv, BlockedInv
  <2>2. QED
    BY <1>1, <1>2, <1>3, <2>1, MutexOpCore DEF Exiting
<1>7. MutexPart'
  BY <1>1, <1>2, <1>3, QuietStep DEF WaitPoints
<1>8. \A u \in Tids \ {me} : /\ \A c : Inside(u, c)' <=> Inside(u, c)
                             /\ \A m : Waiting(u, m)' <=> Waiting(u, m)
  BY <1>4, InsideMeans DEF Waiting
<1>9. /\ \A c \in Barriers : Listed(c)' = Listed(c) /\ Listed(c) \subseteq Tids
      /\ \A m \in Mutexes : Queued(m)' = Queued(m)
  BY <1>1, <1>2 DEF Listed, Queued, mutexState, BTypeOK
<1>10. RoundBooks'
  BY <1>1, <1>2, <1>9 DEF RoundInv, RoundBooks
<1>11. RoundLists'
  <2> SUFFICES ASSUME NEW c \in Barriers, arrived[c] < COUNT, NEW t \in Listed(c)
               PROVE  t # 0 /\ Inside(t, c)' /\ status[t] = "BLOCKED"
    BY <1>2, <1>9 DEF RoundLists
  <2>1. t \in Tids /\ t # 0 /\ Inside(t, c) /\ status[t] = "BLOCKED"
    BY <1>1, <1>2, <1>9 DEF RoundInv, RoundLists
  <2>2. QED
    BY <1>5, <1>8, <2>1
<1>12. WhereInv'
  <2> SUFFICES ASSUME NEW t \in Tids \ {0}, status[t] = "BLOCKED"
               PROVE  \/ \E m \in Mutexes : Waiting(t, m)' /\ t \in Queued(m)
                      \/ \E c \in Barriers :
                            Inside(t, c)' /\ arrived[c] < COUNT /\ t \in Listed(c)
    BY <1>2, <1>9 DEF WhereInv
  <2>1. \/ \E m \in Mutexes : Waiting(t, m) /\ t \in Queued(m)
        \/ \E c \in Barriers :
              Inside(t, c) /\ arrived[c] < COUNT /\ t \in Listed(c)
    BY <1>1, <1>2 DEF RoundInv, WhereInv
  <2>2. QED
    BY <1>5, <1>8, <2>1
<1>13. ClientsInv'
  BY <1>1, <1>2, <1>3, <1>5, <1>4 DEF RoundInv, ClientsInv
<1>14. RoundInv'
  BY <1>10, <1>11, <1>12, <1>13 DEF RoundInv
<1>15. BarrierClients \subseteq Tids
  BY BarrierAssumption
<1>16. \A u \in BarrierClients \ {me} : Phase(u, 0)' = Phase(u, 0)
  BY <1>2, <1>8, <1>15 DEF Phase
<1>17. Phase(me, 0) = IF cpu.on = 0 THEN "released" ELSE "outside"
  BY <1>2, <1>4, <1>5 DEF Phase, Inside
<1>18. Phase(me, 0)' = IF cpu.on = 0 /\ BarrierSerial THEN "released" ELSE "outside"
  BY <1>2, <1>3, <1>5 DEF Phase, Inside, Place
<1>19. QED
  BY <1>3, <1>5, <1>6, <1>7, <1>14, <1>16, <1>17, <1>18 DEF Moves, SamePhases

LEMMA BarrierYieldRound ==
    ASSUME OneRound, SyncInv, BarrierYield, UNCHANGED mutexState
    PROVE  CoreInv' /\ MutexPart' /\ RoundInv' /\ SamePhases
<1>1. BTypeOK /\ TypeOK /\ MInv /\ CoreInv /\ RoundInv /\ cpu \in Exec
  BY DEF SyncInv, STypeOK, MInv, TypeOK, Exec
<1>2. PICK c \in Exec : c = [cpu EXCEPT !.at = "barrierCheck"]
  BY <1>1, CpuType DEF CodePoints, Exec
<1>3. c.of = cpu.of /\ c.on = cpu.on /\ c.at = "barrierCheck"
  BY <1>1, <1>2 DEF Exec
<1>4. /\ Running /\ cpu.at = "barrierYield" /\ Schedule(c)
      /\ UNCHANGED <<numOfThreads, exitedThreads, is_first_call, barrierState>>
  BY <1>2 DEF BarrierYield, At, Running
<1>5. MayReturnTo(c) /\ SameWait(c) /\ SameBarrier(c)
  BY <1>3, <1>4 DEF MayReturnTo, SameWait, SameBarrier, WaitPoints, InBarrier, Exiting
<1>6. Kept
  BY <1>1, <1>4, <1>5, ScheduleKept
<1>7. CoreInv' /\ MutexPart'
  BY <1>1, <1>4, <1>5, ScheduleCore, ScheduleMutex
<1>8. QED
  BY <1>1, <1>4, <1>6, <1>7, RoundKept, KeptPhases

LEMMA BarrierInitRound ==
    ASSUME OneRound, SyncInv, BarrierInit, UNCHANGED mutexState
    PROVE  CoreInv' /\ MutexPart' /\ RoundInv' /\ SamePhases
<1>1. /\ BTypeOK /\ TypeOK /\ MInv /\ CoreInv /\ BlockedInv /\ RoundInv
  BY DEF SyncInv, STypeOK, MInv, MutexPart
<1>2. /\ UNCHANGED coreVars /\ UNCHANGED arrived
      /\ barrierThreadLists' = [barrierThreadLists EXCEPT ![barrierId] = <<>>]
      /\ currentCount' = [currentCount EXCEPT ![barrierId] = 0]
      /\ barrierId' = barrierId + 1
      /\ barrierId \in Barriers /\ barrierId \in Nat
  BY <1>1, BarrierAssumption, ThreadsAssumption DEF BarrierInit, BTypeOK, Barriers
<1>3. CoreInv' /\ MutexPart'
  BY <1>1, <1>2, CoreStepInv, CoreMutex DEF OneRound
<1>4. /\ arrived[barrierId] = 0 /\ Listed(barrierId) = {}
  BY <1>1, <1>2 DEF RoundInv, RoundBooks
<1>5. /\ \A c \in Barriers : Listed(c)' = Listed(c)
      /\ \A c \in Barriers : currentCount'[c] = IF c = barrierId THEN 0 ELSE currentCount[c]
  <2>1. barrierThreadLists'[barrierId] = <<>>
    BY <1>1, <1>2 DEF BTypeOK
  <2>2. DOMAIN barrierThreadLists'[barrierId] = {}
    BY <2>1
  <2>4. \A c \in Barriers \ {barrierId} : barrierThreadLists'[c] = barrierThreadLists[c]
    BY <1>1, <1>2 DEF BTypeOK
  <2>5. ASSUME NEW c \in Barriers PROVE Listed(c)' = Listed(c)
    <3>1. CASE c = barrierId
      BY <1>4, <2>2, <3>1 DEF Listed
    <3>2. CASE c # barrierId
      BY <2>4, <3>2 DEF Listed
    <3>3. QED
      BY <3>1, <3>2
  <2>6. QED
    BY <1>1, <1>2, <2>5 DEF BTypeOK
<1>6. Kept
  BY <1>2 DEF coreVars, Kept, SameCall, Place, Running
<1>7. RoundBooks'
  <2>1. \A c \in Barriers : c \in Nat
    BY DEF Barriers
  <2>2. QED
    BY <1>1, <1>2, <1>4, <1>5, <2>1 DEF RoundInv, RoundBooks
<1>8. RoundLists' /\ WhereInv' /\ ClientsInv'
  <2>1. /\ UNCHANGED <<status, arrived>> /\ (Running' <=> Running)
        /\ \A u \in Tids : Place(u)' = Place(u)
        /\ \A u, b : Inside(u, b)' <=> Inside(u, b)
        /\ \A u, m : Waiting(u, m)' <=> Waiting(u, m)
        /\ \A m : Queued(m)' = Queued(m)
    BY <1>2 DEF coreVars, Running, Inside, Place, Waiting, Queued, mutexState
  <2>2. RoundLists'
    BY <1>1, <1>5, <2>1 DEF RoundInv, RoundLists
  <2>3. WhereInv'
    BY <1>1, <1>5, <2>1 DEF RoundInv, WhereInv
  <2>4. ClientsInv'
    BY <1>1, <2>1 DEF RoundInv, ClientsInv
  <2>5. QED
    BY <2>2, <2>3, <2>4
<1>9. QED
  BY <1>3, <1>6, <1>7, <1>8, KeptPhases DEF RoundInv
----------------------------------------------------------------------------
(* The invariant. *)

LEMMA SyncStep ==
    ASSUME OneRound, SyncInv, [SNext]_syncVars PROVE SyncInv'
<1>1. STypeOK /\ WaitsInv /\ MTypeOK /\ MInv /\ OnlyMainCreates
  BY DEF SyncInv, STypeOK, OneRound
<1>2. STypeOK' /\ WaitsInv' /\ TypeOK' /\ MState'
  BY <1>1, SyncType, SyncWaits DEF STypeOK, MTypeOK, MState
<1>3. ASSUME CoreInv', MutexPart' PROVE MInv'
  BY <1>2, <1>3 DEF MInv
<1>4. CASE /\ CreateCount \/ ExitMark \/ CoreStep \/ Alarm \/ UNCHANGED coreVars
           /\ UNCHANGED <<mutexState, barrierState>>
  <2>1. [MNext]_mutexVars
    BY <1>4 DEF MNext, mutexVars
  <2>2. QED
    BY <1>1, <1>2, <1>4, <2>1, MutexInvStep, CoreRound DEF SyncInv
<1>5. CASE (MutexInit \/ MutexCall \/ MutexStep) /\ UNCHANGED barrierState
  <2>1. [MNext]_mutexVars
    BY <1>5 DEF MNext
  <2>2. QED
    BY <1>1, <1>2, <1>5, <2>1, MutexInvStep, MutexStepRound DEF SyncInv
<1>6. CASE BarrierInit /\ UNCHANGED mutexState
  BY <1>2, <1>3, <1>6, BarrierInitRound DEF SyncInv
<1>7. CASE BarrierCall /\ UNCHANGED mutexState
  BY <1>2, <1>3, <1>7, BlockRound, ReleaseRound DEF SyncInv, BarrierCall, BarrierWait
<1>8. CASE BarrierStep /\ UNCHANGED mutexState
  BY <1>2, <1>3, <1>8, BarrierYieldRound, CheckRound DEF SyncInv, BarrierStep
<1>9. QED
  BY <1>4, <1>5, <1>6, <1>7, <1>8 DEF SNext, Halted, syncVars

LEMMA InitSync == SInit => SyncInv
<1> SUFFICES ASSUME SInit PROVE SyncInv
  OBVIOUS
<1>1. STypeOK /\ WaitsInv /\ MInv
  BY InitSyncType, InitMutex DEF SInit, MInit
<1>2. \A t \in Tids : status[t] = "EXITED" \/ t = 0
  BY DEF SInit, Init
<1>3. \A t \in Tids : Place(t).at \in {"user", "unset"}
  BY DEF SInit, Init, Place, Ctx
<1>4. /\ \A b \in Barriers : arrived[b] = 0 /\ currentCount[b] = 0
      /\ \A b \in Barriers : barrierThreadLists[b] = <<>>
  BY DEF SInit, BarrierInitial
<1>5. \A b \in Barriers : DOMAIN barrierThreadLists[b] = {}
  BY <1>4
<1>6. \A b \in Barriers : Listed(b) = {}
  BY <1>5 DEF Listed
<1>7. Cardinality({}) = 0
  BY FS_EmptySet
<1>8. RoundBooks
  BY <1>4, <1>6, <1>7 DEF RoundBooks
<1>9. RoundLists /\ ClientsInv
  BY <1>3, <1>6 DEF RoundLists, ClientsInv, InBarrier
<1>10. WhereInv
  <2>1. \A t \in Tids : status[t] # "BLOCKED"
    BY DEF SInit, Init
  <2>2. QED
    BY <2>1 DEF WhereInv
<1>11. QED
  BY <1>1, <1>8, <1>9, <1>10 DEF SyncInv, RoundInv

LEMMA SyncInvariant == ASSUME OneRound PROVE SSpec => []SyncInv
<1>1. SyncInv /\ [SNext]_syncVars => SyncInv'
  BY SyncStep
<1>2. QED
  BY <1>1, InitSync, PTL DEF SSpec

(* Mutexes exclude next to barriers: what a barrier wakes in lines 388-396 *)
(* waits for that barrier, and is not sent on into a mutex it queued for   *)
(* (line 227).                                                             *)
THEOREM MutexesExcludeNextToBarriers ==
    ASSUME OneRound PROVE SSpec => []MutualExclusion
<1>1. SyncInv => MutualExclusion
  BY DEF SyncInv, MInv, MutexPart
<1>2. QED
  BY <1>1, SyncInvariant, PTL

(* A blocked worker is where whoever will wake it looks: in the list of    *)
(* the mutex (lines 231, 290) or barrier (366, 388) that its call names.   *)
THEOREM BlockedThreadsAreListed ==
    ASSUME OneRound PROVE SSpec => []BlockedWhereListed
<1>1. SyncInv => BlockedWhereListed
  BY DEF SyncInv, RoundInv, WhereInv, BlockedWhereListed, Running
<1>2. QED
  BY <1>1, SyncInvariant, PTL
----------------------------------------------------------------------------
(* The abstract barrier. *)

(* While the round is on, who waits at barrier 0 is who is listed there. *)
LEMMA WaitersCounted ==
    ASSUME OneRound, SyncInv, 0 \in Barriers, BarrierEnter(0)
    PROVE  Cardinality(Waiters) = currentCount[0]
<1>1. BTypeOK /\ RoundInv /\ Running /\ arrived[0] < COUNT
  BY BarrierAssumption DEF SyncInv, STypeOK, BTypeOK, BarrierEnter, At, OneRound, Running
<1>2. BarrierClients \subseteq Tids \ {0}
  BY BarrierAssumption DEF OneRound
<1>3. ASSUME NEW t \in Listed(0) PROVE t \in Waiters
  <2>1. t \in Tids /\ Inside(t, 0) /\ status[t] = "BLOCKED"
    BY <1>1, <1>3 DEF RoundInv, RoundLists, BTypeOK, Listed
  <2>2. t \in BarrierClients
    BY <1>1, <2>1, InsideMeans DEF RoundInv, ClientsInv
  <2>3. QED
    BY <2>1, <2>2 DEF Waiters, Phases, Phase
<1>4. ASSUME NEW t \in Waiters PROVE t \in Listed(0)
  <2>1. t \in Tids \ {0} /\ Inside(t, 0) /\ status[t] = "BLOCKED"
    BY <1>2, <1>4 DEF Waiters, Phases, Phase
  <2>2. \A m : ~Waiting(t, m)
    BY <2>1 DEF Inside, Waiting, WaitPoints
  <2>3. PICK b \in Barriers : Inside(t, b) /\ t \in Listed(b)
    BY <1>1, <2>1, <2>2 DEF RoundInv, WhereInv
  <2>4. QED
    BY <2>1, <2>3 DEF Inside
<1>5. Waiters = Listed(0)
  BY <1>3, <1>4
<1>6. QED
  BY <1>1, <1>5 DEF RoundInv, RoundBooks

LEMMA PartyWaits ==
    ASSUME OneRound, SyncInv, 0 \in Barriers, BarrierBlock(0), UNCHANGED mutexState
    PROVE  Abstract!Next
<1>1. Moves(cpu.of, "outside", "waiting")
  BY BlockRound
<1>2. /\ cpu.of \in BarrierClients /\ Phases[cpu.of] = "outside"
      /\ Phases' = [Phases EXCEPT ![cpu.of] = "waiting"]
  BY <1>1, MovesPhases
<1>3. BarrierEnter(0) /\ currentCount[0] + 1 # COUNT
  BY DEF BarrierBlock
<1>4. arrived[0] < COUNT /\ arrived[0] \in Nat /\ currentCount[0] = arrived[0]
  BY <1>3, Arrives
<1>5. Cardinality(Waiters) = currentCount[0]
  BY <1>3, WaitersCounted
<1>6. Cardinality(Waiters) + 1 < COUNT
  BY <1>3, <1>4, <1>5, BarrierAssumption
<1>7. Abstract!Cardinality(Abstract!InPhase("waiting")) + 1 < COUNT
  BY <1>6, SameCardinality, AbstractWaiting
<1>8. Abstract!Wait(cpu.of)
  BY <1>2, <1>7, Zenon DEF Abstract!Wait, Phases
<1>9. QED
  BY <1>2, <1>8, Zenon DEF Abstract!Next

LEMMA PartyReleases ==
    ASSUME OneRound, SyncInv, 0 \in Barriers, BarrierRelease(0), UNCHANGED mutexState
    PROVE  Abstract!Next
<1>1. Releases(cpu.of)
  BY ReleaseRound
<1>2. /\ cpu.of \in BarrierClients /\ Phases[cpu.of] = "outside"
      /\ Phases' = [u \in BarrierClients |->
                        IF u = cpu.of \/ Phases[u] = "waiting" THEN "released"
                                                               ELSE Phases[u]]
  BY <1>1, ReleasesPhases
<1>3. BarrierEnter(0) /\ currentCount[0] + 1 = COUNT
  BY DEF BarrierRelease
<1>4. Cardinality(Waiters) + 1 = COUNT
  BY <1>3, WaitersCounted
<1>5. Abstract!Cardinality(Abstract!InPhase("waiting")) + 1 = COUNT
  BY <1>4, SameCardinality, AbstractWaiting
<1>6. Abstract!Release(cpu.of)
  BY <1>2, <1>5, Zenon DEF Abstract!Release, Phases
<1>7. QED
  BY <1>2, <1>6, Zenon DEF Abstract!Next

LEMMA PartyLeaves ==
    ASSUME OneRound, SyncInv, BarrierReturn \/ BarrierSerial \/ BarrierClear,
           UNCHANGED mutexState
    PROVE  Abstract!Next \/ UNCHANGED Phases
<1>1. CASE BarrierSerial \/ cpu.on # 0
  BY <1>1, CheckRound, SameSets
<1>2. CASE ~BarrierSerial /\ cpu.on = 0
  <2>1. Moves(cpu.of, "released", "outside")
    BY <1>2, CheckRound
  <2>2. /\ cpu.of \in BarrierClients /\ Phases[cpu.of] = "released"
        /\ Phases' = [Phases EXCEPT ![cpu.of] = "outside"]
    BY <2>1, MovesPhases
  <2>3. Abstract!Leave(cpu.of)
    BY <2>2, Zenon DEF Abstract!Leave, Phases
  <2>4. QED
    BY <2>2, <2>3, Zenon DEF Abstract!Next
<1>3. QED
  BY <1>1, <1>2

LEMMA SyncImplements ==
    ASSUME OneRound
    PROVE  SyncInv /\ [SNext]_syncVars => Abstract!Next \/ UNCHANGED Phases
<1> SUFFICES ASSUME SyncInv, [SNext]_syncVars
             PROVE  Abstract!Next \/ UNCHANGED Phases
  OBVIOUS
<1>1. CASE /\ CreateCount \/ ExitMark \/ CoreStep \/ Alarm \/ UNCHANGED coreVars
           /\ UNCHANGED <<mutexState, barrierState>>
  BY <1>1, CoreRound, SameSets
<1>2. CASE (MutexInit \/ MutexCall \/ MutexStep) /\ UNCHANGED barrierState
  BY <1>2, MutexStepRound, SameSets
<1>3. CASE BarrierInit /\ UNCHANGED mutexState
  BY <1>3, BarrierInitRound, SameSets
<1>4. ASSUME NEW b \in Barriers, BarrierBlock(b) \/ BarrierRelease(b), UNCHANGED mutexState
      PROVE  Abstract!Next \/ UNCHANGED Phases
  <2>1. CASE b = 0
    BY <1>4, <2>1, PartyWaits, PartyReleases
  <2>2. CASE b # 0
    BY <1>4, <2>2, BlockRound, ReleaseRound, SameSets
  <2>3. QED
    BY <2>1, <2>2
<1>5. CASE BarrierCall /\ UNCHANGED mutexState
  BY <1>4, <1>5 DEF BarrierCall, BarrierWait
<1>6. CASE BarrierYield /\ UNCHANGED mutexState
  BY <1>6, BarrierYieldRound, SameSets
<1>7. CASE (BarrierReturn \/ BarrierSerial \/ BarrierClear) /\ UNCHANGED mutexState
  BY <1>7, PartyLeaves
<1>8. QED
  BY <1>1, <1>2, <1>3, <1>5, <1>6, <1>7 DEF SNext, BarrierStep, Halted, syncVars

(* A barrier is the abstract one next to mutexes too, and among others:    *)
(* no unlock, no exit and no other barrier lets a thread out of            *)
(* pthread_barrier_wait before the last of its round arrives (line 371).   *)
THEOREM BarrierIsImplementedNextToMutexes ==
    ASSUME OneRound PROVE SSpec => ImplementsBarrier
<1>1. SInit => Abstract!Init
  <2> SUFFICES ASSUME SInit PROVE Abstract!Init
    OBVIOUS
  <2>1. \A t \in Tids : Place(t).at \in {"user", "unset"}
    BY DEF SInit, Init, Place, Ctx
  <2>2. \A t \in BarrierClients : Phase(t, 0) = "outside"
    BY <2>1, BarrierAssumption DEF Phase, Inside
  <2>3. QED
    BY <2>2 DEF Abstract!Init
<1>2. SyncInv /\ [SNext]_syncVars => [Abstract!Next]_[t \in BarrierClients |-> Phase(t, 0)]
  BY SyncImplements, Zenon DEF Phases
<1>3. QED
  BY <1>1, <1>2, SyncInvariant, PTL DEF SSpec, ImplementsBarrier, Abstract!Spec
=============================================================================
