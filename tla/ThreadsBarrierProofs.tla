------------------------ MODULE ThreadsBarrierProofs ------------------------
(***************************************************************************)
(* Proofs about the barriers of module ThreadsBarrier, for every number of *)
(* threads and every count, and wherever the alarms fall.                  *)
(*                                                                         *)
(* CoreInv, the invariant of the scheduler alone, does not survive the     *)
(* barriers: the list of a barrier is never emptied, so a later release    *)
(* makes threads READY that have exited since.  What is left of it, and is *)
(* enough here, is stated below.                                           *)
(***************************************************************************)
EXTENDS ThreadsBarrier, ThreadsProofs

InBarrier == {"barrierYield", "barrierCheck", "barrierClear"}

(* The executing thread is the one currentThreadID names; it is blocked    *)
(* only on its way to yield() (lines 366-375), and an exit it has begun    *)
(* cannot be undone by a release, as it is the releaser that executes.     *)
RunnerInv ==
    Running =>
        /\ cpu.of = currentThreadID
        /\ \/ topThread = currentThreadID
           \/ /\ currentThreadID = 0
              /\ status[topThread] = "EXITED" /\ buf[topThread].at = "dead"
        /\ buf[cpu.of].at \in NotSaved
        /\ cpu.of # 0 => buf[cpu.of].at = "dead"
        /\ status[cpu.of] = "BLOCKED" => cpu.at = "barrierYield"
        /\ cpu.of # 0 /\ status[cpu.of] = "EXITED" => cpu.at \in Exiting
        /\ cpu.at \in Exiting => status[cpu.of] = "EXITED"
        /\ cpu.at # "fellThrough"

(* A saved context is its own thread's, and no exit is ever resumed. *)
ContextsInv ==
    \A t \in Tids : /\ buf[t].of = t
                    /\ buf[t].at \notin Exiting \cup {"fellThrough"}

(* Only who calls pthread_barrier_wait is in it, at an initialised one. *)
CallersInv ==
    /\ cpu.at \in InBarrier => cpu.of \in BarrierClients /\ cpu.on < barrierId
    /\ \A t \in Tids :
        buf[t].at \in InBarrier => t \in BarrierClients /\ buf[t].on < barrierId

(* The threads of a list have run, so no release touches an entry that     *)
(* pthread_create has yet to fill in.                                      *)
ListedInv ==
    \A b \in Barriers : \A t \in Listed(b) : buf[t].at # "unset"

PlacesInv ==
    /\ RunnerInv
    /\ ContextsInv
    /\ CallersInv
    /\ CreatedInv
    /\ ListedInv

(* The books of barrier 0: the threads that wait are in the list and are   *)
(* currentCount many, those in the call are the calls made less those that *)
(* returned, and the calls made are whole rounds and currentCount more.    *)
Phases  == [t \in BarrierClients |-> Phase(t, 0)]
Within  == {t \in BarrierClients : Phases[t] # "outside"}
Waiters == {t \in BarrierClients : Phases[t] = "waiting"}

BooksInv ==
    /\ Waiters \subseteq Listed(0)
    /\ currentCount[0] = Cardinality(Waiters)
    /\ left[0] + Cardinality(Within) = arrived[0]
    /\ barrierId = 0 => arrived[0] = 0 /\ currentCount[0] = 0
    /\ barrierId # 0 => COUNT # 0 /\ currentCount[0] < COUNT
    /\ \E rounds \in 0..arrived[0] : arrived[0] = COUNT * rounds + currentCount[0]

(* What the proofs assume.  With a second barrier, or with main as a       *)
(* client, BarrierHolds fails: Barrier_Two.cfg and Barrier_Main.cfg.       *)
OneBarrier ==
    /\ BARRIER_LIMIT = 1
    /\ 0 \notin BarrierClients
    /\ OnlyMainCreates

----------------------------------------------------------------------------
(* Types. *)

BState ==
    /\ barrierId \in 0..BARRIER_LIMIT
    /\ barrierId > 0 => COUNT > 0
    /\ currentCount \in [Barriers -> Nat]
    /\ \A b \in 0..(barrierId - 1) : currentCount[b] < COUNT
    /\ printSerialThread \in [Barriers -> BOOLEAN]
    /\ barrierThreadLists \in [Barriers -> Seq(Tids)]
    /\ arrived \in [Barriers -> 0..WAIT_LIMIT]
    /\ left \in [Barriers -> Nat]
    /\ serials \in [Barriers -> Nat]

LEMMA EnterType ==
    ASSUME BTypeOK, NEW b \in Barriers, BarrierEnter(b)
    PROVE  /\ cpu.of \in Tids /\ cpu.of \in BarrierClients /\ b \in Nat
           /\ b < barrierId
           /\ arrived' \in [Barriers -> 0..WAIT_LIMIT]
           /\ arrived'[b] = arrived[b] + 1
           /\ printSerialThread' \in [Barriers -> BOOLEAN]
           /\ alarm' \in BOOLEAN
           /\ UNCHANGED <<buf, topThread, currentThreadID, numOfThreads,
                          exitedThreads, is_first_call, process, barrierId,
                          left, serials>>
<1>1. arrived[b] \in 0..WAIT_LIMIT /\ arrived[b] < WAIT_LIMIT
  BY DEF BTypeOK, BarrierEnter
<1>2. arrived[b] + 1 \in 0..WAIT_LIMIT
  BY <1>1, BarrierAssumption
<1>3. arrived' \in [Barriers -> 0..WAIT_LIMIT] /\ arrived'[b] = arrived[b] + 1
  BY <1>2 DEF BTypeOK, BarrierEnter
<1>4. printSerialThread' \in [Barriers -> BOOLEAN]
  BY DEF BTypeOK, BarrierEnter
<1>5. cpu.of \in Tids /\ b \in Nat
  BY DEF BTypeOK, TypeOK, Barriers
<1>6. QED
  BY <1>3, <1>4, <1>5 DEF BarrierEnter

LEMMA Incremented ==
    ASSUME NEW S, NEW f \in [S -> Nat], NEW k
    PROVE  [f EXCEPT ![k] = @ + 1] \in [S -> Nat]
<1>1. CASE k \in S
  BY <1>1
<1>2. CASE k \notin S
  <2>1. [f EXCEPT ![k] = @ + 1] = f
    BY <1>2
  <2>2. QED
    BY <2>1
<1>3. QED
  BY <1>1, <1>2

LEMMA BarrierType == BTypeOK /\ [BNext]_barrierVars => BTypeOK'
<1> SUFFICES ASSUME BTypeOK, [BNext]_barrierVars PROVE BTypeOK'
  OBVIOUS
<1>1. BTypeOK <=> TypeOK /\ BState
  BY DEF BTypeOK, BState
<1>2. BTypeOK' <=> TypeOK' /\ BState'
  BY DEF BTypeOK, BState
<1>3. CASE [Next]_coreVars /\ UNCHANGED barrierState
  <2>1. TypeOK'
    BY <1>1, <1>3, TypeStep
  <2>2. BState'
    BY <1>1, <1>3 DEF BState, barrierState
  <2>3. QED
    BY <1>2, <2>1, <2>2
<1>4. CASE BarrierInit
  <2>1. TypeOK'
    BY <1>1, <1>4, TypeStep DEF BarrierInit
  <2>2. barrierId' \in 0..BARRIER_LIMIT
    BY <1>4, BarrierAssumption DEF BTypeOK, BarrierInit
  <2>3. /\ currentCount' \in [Barriers -> Nat]
        /\ printSerialThread' \in [Barriers -> BOOLEAN]
    BY <1>4 DEF BTypeOK, BarrierInit
  <2>4. <<>> \in Seq(Tids)
    OBVIOUS
  <2>5. barrierThreadLists' \in [Barriers -> Seq(Tids)]
    BY <1>4, <2>4 DEF BTypeOK, BarrierInit
  <2>6. /\ COUNT > 0
        /\ \A b \in 0..(barrierId' - 1) : currentCount'[b] < COUNT
    <3>1. /\ COUNT \in Nat \ {0} /\ barrierId \in Nat
          /\ barrierId' = barrierId + 1
          /\ currentCount' = [currentCount EXCEPT ![barrierId] = 0]
      BY <1>4, BarrierAssumption DEF BTypeOK, BarrierInit
    <3>2. SUFFICES ASSUME NEW k \in 0..barrierId PROVE currentCount'[k] < COUNT
      BY <3>1
    <3>3. k \in Barriers
      BY <1>4, <3>1, BarrierAssumption, ThreadsAssumption
         DEF BarrierInit, Barriers
    <3>4. currentCount'[k] = IF k = barrierId THEN 0 ELSE currentCount[k]
      BY <3>1, <3>3 DEF BTypeOK
    <3>5. k # barrierId => currentCount[k] < COUNT
      BY <3>1 DEF BTypeOK
    <3>6. QED
      BY <3>1, <3>4, <3>5
  <2>7. QED
    BY <1>1, <1>2, <1>4, <2>1, <2>2, <2>3, <2>5, <2>6 DEF BState, BarrierInit
<1>5. ASSUME NEW b \in Barriers, BarrierBlock(b) PROVE BTypeOK'
  <2>1. BarrierEnter(b)
    BY <1>5 DEF BarrierBlock
  <2>2. status' \in [Tids -> Status]
    BY <1>5 DEF BTypeOK, TypeOK, BarrierBlock, Status
  <2>3. cpu' \in Exec
    BY <1>5, <2>1, EnterType DEF BarrierBlock, Exec, Ctx, CodePoints
  <2>4. currentCount' \in [Barriers -> Nat]
    BY <1>5 DEF BTypeOK, BarrierBlock
  <2>5. barrierThreadLists' \in [Barriers -> Seq(Tids)]
    BY <1>5 DEF BTypeOK, TypeOK, BarrierBlock
  <2>6. TypeOK'
    BY <1>1, <2>1, <2>2, <2>3, EnterType DEF TypeOK, Exec
  <2>7. /\ barrierId > 0 => COUNT > 0
        /\ \A k \in 0..(barrierId - 1) : currentCount'[k] < COUNT
    <3>1. SUFFICES ASSUME NEW k \in 0..(barrierId - 1)
                   PROVE  currentCount'[k] < COUNT
      BY DEF BTypeOK
    <3>2. k \in Barriers
      BY BarrierAssumption, ThreadsAssumption DEF BTypeOK, Barriers
    <3>3. currentCount'[k] = currentCount[k] + (IF k = b THEN 1 ELSE 0)
      BY <1>5, <3>2 DEF BTypeOK, BarrierBlock
    <3>4. currentCount[k] \in Nat /\ currentCount[k] < COUNT
      BY <3>2 DEF BTypeOK
    <3>5. currentCount[b] + 1 # COUNT
      BY <1>5 DEF BarrierBlock
    <3>6. QED
      BY <3>3, <3>4, <3>5, BarrierAssumption
  <2>8. QED
    BY <1>1, <1>2, <2>1, <2>4, <2>5, <2>6, <2>7, EnterType DEF BState
<1>6. ASSUME NEW b \in Barriers, BarrierRelease(b) PROVE BTypeOK'
  <2>1. BarrierEnter(b)
    BY <1>6 DEF BarrierRelease
  <2>2. status' \in [Tids -> Status]
    BY <1>6 DEF BTypeOK, TypeOK, BarrierRelease, Status
  <2>3. cpu' \in Exec
    BY <1>6, <2>1, EnterType DEF BarrierRelease, Exec, Ctx, CodePoints
  <2>4. currentCount' \in [Barriers -> Nat] /\ barrierThreadLists' = barrierThreadLists
    BY <1>6 DEF BTypeOK, BarrierRelease
  <2>5. TypeOK'
    BY <1>1, <2>1, <2>2, <2>3, EnterType DEF TypeOK, Exec
  <2>6. /\ barrierId > 0 => COUNT > 0
        /\ \A k \in 0..(barrierId - 1) : currentCount'[k] < COUNT
    <3>1. SUFFICES ASSUME NEW k \in 0..(barrierId - 1)
                   PROVE  currentCount'[k] < COUNT
      BY DEF BTypeOK
    <3>2. k \in Barriers /\ COUNT > 0
      BY BarrierAssumption, ThreadsAssumption DEF BTypeOK, Barriers
    <3>3. currentCount'[k] = IF k = b THEN 0 ELSE currentCount[k]
      BY <1>6, <3>2 DEF BTypeOK, BarrierRelease
    <3>4. QED
      BY <3>2, <3>3, BarrierAssumption DEF BTypeOK
  <2>7. QED
    BY <1>1, <1>2, <2>1, <2>4, <2>5, <2>6, EnterType DEF BState
<1>7. CASE BarrierYield
  <2>1. [cpu EXCEPT !.at = "barrierCheck"] \in Exec
    BY <1>1, CpuType DEF CodePoints, Exec
  <2>2. TypeOK'
    BY <1>1, <1>7, <2>1, ScheduleType DEF BarrierYield, TypeOK, Exec
  <2>3. QED
    BY <1>1, <1>2, <1>7, <2>2 DEF BarrierYield, BState, barrierState
<1>8. CASE BarrierReturn \/ BarrierClear
  <2>1. cpu' = [cpu EXCEPT !.at = "user"]
    BY <1>8 DEF BarrierReturn, BarrierClear, Return, Goto
  <2>2. cpu' \in Exec
    BY <1>1, <2>1, CpuType DEF CodePoints, Exec
  <2>3. TypeOK'
    BY <1>1, <1>8, <2>2 DEF TypeOK, Exec, BarrierReturn, BarrierClear, Return
  <2>4. left' \in [Barriers -> Nat]
    <3>1. left' = [left EXCEPT ![cpu.on] = @ + 1]
      BY <1>8 DEF BarrierReturn, BarrierClear, Return
    <3>2. left \in [Barriers -> Nat]
      BY DEF BTypeOK
    <3>3. QED
      BY <3>1, <3>2, Incremented
  <2>5. printSerialThread' \in [Barriers -> BOOLEAN] /\ serials' \in [Barriers -> Nat]
    <3>1. \/ UNCHANGED <<printSerialThread, serials>>
          \/ /\ printSerialThread' = [printSerialThread EXCEPT ![cpu.on] = FALSE]
             /\ serials' = [serials EXCEPT ![cpu.on] = @ + 1]
      BY <1>8 DEF BarrierReturn, BarrierClear
    <3>2. serials \in [Barriers -> Nat] /\ printSerialThread \in [Barriers -> BOOLEAN]
      BY DEF BTypeOK
    <3>3. [serials EXCEPT ![cpu.on] = @ + 1] \in [Barriers -> Nat]
      BY <3>2, Incremented
    <3>4. [printSerialThread EXCEPT ![cpu.on] = FALSE] \in [Barriers -> BOOLEAN]
      BY <3>2
    <3>5. QED
      BY <3>1, <3>2, <3>3, <3>4
  <2>6. QED
    BY <1>1, <1>2, <1>8, <2>3, <2>4, <2>5
       DEF BState, BarrierReturn, BarrierClear, Return
<1>9. CASE BarrierSerial
  <2>1. cpu' \in Exec
    BY <1>1, <1>9, CpuType DEF BarrierSerial, Goto, CodePoints, Exec
  <2>2. TypeOK'
    BY <1>1, <1>9, <2>1 DEF TypeOK, Exec, BarrierSerial
  <2>3. QED
    BY <1>1, <1>2, <1>9, <2>2 DEF BarrierSerial, BState, barrierState
<1>10. CASE UNCHANGED barrierVars
  BY <1>1, <1>2, <1>10, TypeStep DEF barrierVars, BState, barrierState
<1>11. QED
  BY <1>3, <1>4, <1>5, <1>6, <1>7, <1>8, <1>9, <1>10
     DEF BNext, Next, BarrierCall, BarrierWait, BarrierStep

LEMMA InitBarrierType == BInit => BTypeOK
<1> SUFFICES ASSUME BInit PROVE BTypeOK
  OBVIOUS
<1>1. TypeOK
  BY InitType DEF BInit
<1>2. <<>> \in Seq(Tids) /\ 0 \in 0..WAIT_LIMIT /\ 0 \in 0..BARRIER_LIMIT
  BY BarrierAssumption
<1>3. QED
  BY <1>1, <1>2 DEF BInit, BarrierInitial, BTypeOK

(* The barriers keep their types, and nothing but a real code point is     *)
(* executed, whatever the clients do, however many barriers there are.     *)
THEOREM BarrierTypes == BSpec => []BTypeOK
BY InitBarrierType, BarrierType, PTL DEF BSpec
----------------------------------------------------------------------------
(* The serial thread. *)

(* Until there has been a serial thread the flag of the barrier is set, so *)
(* that whoever comes to line 404 first, becomes it.                       *)
SerialInv ==
    /\ cpu.at \in InBarrier => cpu.on < barrierId
    /\ \A t \in Tids : buf[t].at \in InBarrier => buf[t].on < barrierId
    /\ \A b \in Barriers :
        serials[b] = 0 =>
            left[b] = 0 /\ (b < barrierId => printSerialThread[b])

LEMMA SerialStep == BTypeOK /\ SerialInv /\ [BNext]_barrierVars => SerialInv'
<1> SUFFICES ASSUME BTypeOK, SerialInv, [BNext]_barrierVars PROVE SerialInv'
  OBVIOUS
<1> USE DEF InBarrier
<1>1. TypeOK /\ cpu \in Exec
  BY DEF BTypeOK, TypeOK, Exec
<1>2. CASE Alarm /\ UNCHANGED barrierState
  <2>1. CASE UNCHANGED <<buf, cpu>>
    BY <1>2, <2>1 DEF SerialInv, barrierState
  <2>2. CASE Schedule(cpu)
    <3>1. /\ cpu'.at \in InBarrier => cpu'.on < barrierId
          /\ \A t \in Tids : buf'[t].at \in InBarrier => buf'[t].on < barrierId
      BY <1>1, <2>2, ScheduleContexts DEF SerialInv, CodePoints
    <3>2. QED
      BY <1>2, <3>1 DEF SerialInv, barrierState
  <2>3. QED
    BY <1>2, <2>1, <2>2 DEF Alarm
<1>3. CASE ExitSchedule /\ UNCHANGED barrierState
  <2>1. PICK c \in Exec : c = [cpu EXCEPT !.at = "fellThrough"]
    BY <1>1, CpuType DEF CodePoints, Exec
  <2>2. c.at = "fellThrough"
    BY <2>1, <1>1 DEF Exec
  <2>3. Schedule(c)
    BY <1>3, <2>1 DEF ExitSchedule
  <2>4. /\ cpu'.at \in InBarrier => cpu'.on < barrierId
        /\ \A t \in Tids : buf'[t].at \in InBarrier => buf'[t].on < barrierId
    BY <1>1, <2>2, <2>3, ScheduleContexts DEF SerialInv, CodePoints
  <2>5. QED
    BY <1>3, <2>4 DEF SerialInv, barrierState
<1>4. CASE BarrierYield
  <2>1. PICK c \in Exec : c = [cpu EXCEPT !.at = "barrierCheck"]
    BY <1>1, CpuType DEF CodePoints, Exec
  <2>2. c.on = cpu.on /\ cpu.at = "barrierYield"
    BY <2>1, <1>1, <1>4 DEF Exec, BarrierYield, At
  <2>3. Schedule(c)
    BY <1>4, <2>1 DEF BarrierYield
  <2>4. /\ cpu'.at \in InBarrier => cpu'.on < barrierId
        /\ \A t \in Tids : buf'[t].at \in InBarrier => buf'[t].on < barrierId
    BY <1>1, <2>2, <2>3, ScheduleContexts DEF SerialInv, CodePoints
  <2>5. QED
    BY <1>4, <2>4 DEF SerialInv, BarrierYield, barrierState
<1>5. CASE ExitToMain /\ UNCHANGED barrierState
  <2>1. buf[0] \in Context
    BY <1>1, ZeroTid DEF TypeOK
  <2>2. cpu' = cpu \/ cpu' = buf[0]
    BY <1>5 DEF ExitToMain, Longjmp
  <2>3. buf'[0].at = "dead" /\ \A u \in Tids \ {0} : buf'[u] = buf[u]
    BY <1>1, <1>5, <2>1, ZeroTid DEF ExitToMain, Longjmp, TypeOK, Context
  <2>4. QED
    BY <1>5, <2>2, <2>3, ZeroTid DEF SerialInv, barrierState
<1>6. CASE CreateInit /\ UNCHANGED barrierState
  <2>1. cpu'.at \in {"user", "starting"}
    BY <1>1, <1>6 DEF CreateInit, Goto, Exec
  <2>2. \A t \in Tids : buf'[t] = buf[t] \/ buf'[t].at = "user"
    BY <1>1, <1>6 DEF CreateInit, TypeOK, Ctx
  <2>3. QED
    BY <1>6, <2>1, <2>2 DEF SerialInv, barrierState
<1>7. CASE /\ \/ CreateCount \/ CreateNoMemory \/ SchedulerInit
              \/ ExitMark \/ ExitCount \/ ExitProcess
           /\ UNCHANGED barrierState
  <2>1. cpu' = cpu \/ cpu'.at \in {"creating", "user", "exiting", "exited"}
    BY <1>1, <1>7 DEF CreateCount, CreateNoMemory, SchedulerInit, ExitMark,
                      ExitCount, ExitProcess, Goto, Ctx, Exec
  <2>2. buf' = buf
    BY <1>7 DEF CreateCount, CreateNoMemory, SchedulerInit, ExitMark,
                ExitCount, ExitProcess
  <2>3. QED
    BY <1>7, <2>1, <2>2 DEF SerialInv, barrierState
<1>8. CASE BarrierInit
  <2>1. /\ barrierId' = barrierId + 1 /\ UNCHANGED <<cpu, buf, left, serials>>
        /\ printSerialThread' = [printSerialThread EXCEPT ![barrierId] = TRUE]
    BY <1>8 DEF BarrierInit, coreVars
  <2>2. \A b \in Barriers : b < barrierId' /\ b # barrierId => b < barrierId
    BY <2>1 DEF BTypeOK, Barriers
  <2>3. \A b \in Barriers : printSerialThread'[b] = (b = barrierId \/ printSerialThread[b])
    BY <2>1 DEF BTypeOK
  <2>4. \A k \in Nat : k < barrierId => k < barrierId'
    BY <2>1 DEF BTypeOK
  <2>5. cpu.on \in Nat /\ \A t \in Tids : buf[t].on \in Nat
    BY <1>1 DEF TypeOK, Exec, Context
  <2>6. QED
    BY <2>1, <2>2, <2>3, <2>4, <2>5 DEF SerialInv
<1>9. ASSUME NEW b \in Barriers, BarrierWait(b) PROVE SerialInv'
  <2>1. BarrierEnter(b) /\ cpu'.on = b
    BY <1>9 DEF BarrierWait, BarrierBlock, BarrierRelease, Ctx
  <2>2. b < barrierId /\ UNCHANGED <<buf, barrierId, left, serials>>
    BY <2>1 DEF BarrierEnter
  <2>3. printSerialThread' = [printSerialThread EXCEPT ![b] = TRUE]
    BY <2>1 DEF BarrierEnter
  <2>4. \A k \in Barriers : printSerialThread[k] => printSerialThread'[k]
    BY <2>3 DEF BTypeOK
  <2>5. QED
    BY <2>1, <2>2, <2>4 DEF SerialInv
<1>10. CASE BarrierReturn
  <2>1. /\ cpu.at = "barrierCheck" /\ ~printSerialThread[cpu.on]
        /\ left' = [left EXCEPT ![cpu.on] = @ + 1]
        /\ cpu'.at = "user"
        /\ UNCHANGED <<buf, barrierId, printSerialThread, serials>>
    BY <1>1, <1>10 DEF BarrierReturn, Return, At, Goto, Exec
  <2>2. \A b \in Barriers : serials[b] = 0 => b # cpu.on
    BY <2>1 DEF SerialInv
  <2>3. \A b \in Barriers : b # cpu.on => left'[b] = left[b]
    BY <2>1 DEF BTypeOK
  <2>4. QED
    BY <2>1, <2>2, <2>3 DEF SerialInv
<1>11. CASE BarrierSerial
  BY <1>1, <1>11 DEF BarrierSerial, SerialInv, Goto, At, Exec, barrierState
<1>12. CASE BarrierClear
  <2>1. /\ cpu'.at = "user"
        /\ left' = [left EXCEPT ![cpu.on] = @ + 1]
        /\ printSerialThread' = [printSerialThread EXCEPT ![cpu.on] = FALSE]
        /\ serials' = [serials EXCEPT ![cpu.on] = @ + 1]
        /\ UNCHANGED <<buf, barrierId>>
    BY <1>1, <1>12 DEF BarrierClear, Return, Goto, Exec
  <2>2. \A b \in Barriers : b # cpu.on =>
            /\ left'[b] = left[b] /\ serials'[b] = serials[b]
            /\ printSerialThread'[b] = printSerialThread[b]
    BY <2>1 DEF BTypeOK
  <2>3. \A b \in Barriers : b = cpu.on => serials'[b] # 0
    BY <2>1 DEF BTypeOK
  <2>4. QED
    BY <2>1, <2>2, <2>3 DEF SerialInv
<1>13. CASE UNCHANGED <<coreVars, barrierState>>
  BY <1>13 DEF SerialInv, coreVars, barrierState
<1>14. QED
  BY <1>2, <1>3, <1>4, <1>5, <1>6, <1>7, <1>8, <1>9, <1>10, <1>11, <1>12, <1>13
     DEF BNext, CoreStep, Halted, BarrierCall, BarrierStep, barrierVars

LEMMA InitSerial == BInit => SerialInv
BY DEF BInit, Init, BarrierInitial, SerialInv, InBarrier, Ctx

(* Nobody returns from a barrier that has not had its serial thread, so a  *)
(* complete first round has one: no alarm makes all of them miss the flag  *)
(* of lines 356 and 404-406.                                               *)
THEOREM SomeoneIsSerial == BSpec => []FirstRoundHasSerial
<1>1. BSpec => [](BTypeOK /\ SerialInv)
  BY InitBarrierType, BarrierType, InitSerial, SerialStep, PTL DEF BSpec
<1>2. BTypeOK /\ SerialInv => FirstRoundHasSerial
  <2> SUFFICES ASSUME BTypeOK, SerialInv, NEW b \in Barriers,
                      COUNT # 0, left[b] = COUNT
               PROVE  serials[b] > 0
    BY DEF FirstRoundHasSerial
  <2>1. serials[b] # 0
    BY DEF SerialInv
  <2>2. QED
    BY <2>1 DEF BTypeOK
<1>3. QED
  BY <1>1, <1>2, PTL
----------------------------------------------------------------------------
(* Steps of the scheduler's own: no client's phase changes. *)

SamePhases == \A t \in BarrierClients : Phase(t, 0)' = Phase(t, 0)

(* A thread that comes back to context c is in the barrier as it is now. *)
SameBarrier(c) ==
    /\ c.at \in InBarrier <=> cpu.at \in InBarrier
    /\ c.on = cpu.on

LEMMA StaleResult ==
    ASSUME Running, NEW c, NEW t, Resumed(c, t), Schedule(c), process' = "stale"
    PROVE  cpu' = cpu /\ Saved(c)[t].at \in NotSaved
BY DEF Resumed, Schedule, Longjmp, Running

LEMMA ResumedPlaces ==
    ASSUME OneBarrier, BTypeOK, PlacesInv, Running,
           NEW c \in Exec, MayReturnTo(c), SameBarrier(c), Schedule(c),
           NEW t \in Tids, Resumed(c, t), process' \in {"running", "stale"},
           UNCHANGED <<numOfThreads, barrierState>>
    PROVE  PlacesInv' /\ SamePhases
<1> USE DEF InBarrier
<1>1. TypeOK /\ cpu \in Exec
  BY DEF BTypeOK, TypeOK, Exec
<1>2. status[t] # "EXITED" /\ status[t] # "BLOCKED"
  BY DEF Resumed, Stopped
<1>3. ASSUME status[topThread] # "EXITED"
      PROVE  topThread = cpu.of /\ currentThreadID = cpu.of
  BY <1>3 DEF PlacesInv, RunnerInv
<1>4. ASSUME NEW u \in Tids
      PROVE  /\ Saved(c)[u].of = u
             /\ Saved(c)[u].at \notin Exiting \cup {"fellThrough"}
             /\ Saved(c)[u].at \in InBarrier =>
                    u \in BarrierClients /\ Saved(c)[u].on < barrierId
             /\ buf[u].at # "unset" => Saved(c)[u].at # "unset"
  <2>1. CASE u = topThread /\ status[topThread] # "EXITED"
    <3>1. Saved(c)[u] = c /\ u = cpu.of
      BY <1>1, <1>3, <2>1, SavedValue
    <3>2. c.at # "unset"
      BY DEF Exec, CodePoints
    <3>3. QED
      BY <1>3, <2>1, <3>1, <3>2 DEF MayReturnTo, SameBarrier, PlacesInv, CallersInv
  <2>2. CASE ~(u = topThread /\ status[topThread] # "EXITED")
    <3>1. Saved(c)[u] = buf[u]
      BY <1>1, <2>2, SavedValue
    <3>2. QED
      BY <3>1 DEF PlacesInv, ContextsInv, CallersInv
  <2>3. QED
    BY <2>1, <2>2
<1>5. \A u \in Tids :
          /\ status[u] = "EXITED" <=> status'[u] = "EXITED"
          /\ status[u] = "BLOCKED" <=> status'[u] = "BLOCKED"
          /\ status[u] = "EXITED" => u # t /\ buf'[u] = buf[u]
  BY <1>1, <1>2, SavedValue DEF Resumed, Stopped
<1>6. /\ buf'[t].of = t /\ buf'[t].at = "dead"
      /\ \A u \in Tids \ {t} : buf'[u] = Saved(c)[u]
  BY <1>4 DEF Resumed
<1>7. ASSUME Running'
      PROVE  cpu' = Saved(c)[t] /\ cpu'.of = t /\ cpu'.at \notin NotSaved
  BY <1>4, <1>7 DEF Resumed, Running
<1>8. ASSUME ~Running'
      PROVE  cpu' = cpu /\ Saved(c)[t].at \in NotSaved
  BY <1>8, StaleResult DEF Running
<1>9. RunnerInv'
  <2> SUFFICES ASSUME Running' PROVE RunnerInv'
    BY DEF RunnerInv
  <2>1. status'[t] = "RUNNING" /\ topThread' = t /\ currentThreadID' = t
    BY DEF Resumed
  <2>2. QED
    BY <1>4, <1>6, <1>7, <2>1 DEF RunnerInv, Exiting, NotSaved
<1>10. ContextsInv'
  BY <1>4, <1>6 DEF ContextsInv, Exiting
<1>11. CallersInv'
  <2>1. cpu'.at \in InBarrier => cpu'.of \in BarrierClients /\ cpu'.on < barrierId
    BY <1>4, <1>7, <1>8 DEF PlacesInv, CallersInv
  <2>2. QED
    BY <1>4, <1>6, <2>1 DEF CallersInv, barrierState
<1>12. CreatedInv'
  <2> SUFFICES ASSUME Running' PROVE CreatedInv'
    BY DEF CreatedInv
  <2>1. topThread' <= numOfThreads' /\ currentThreadID' <= numOfThreads'
    BY DEF Resumed
  <2>2. ASSUME NEW u \in Tids, Unused(u) PROVE Unused(u)'
    BY <1>5, <2>2 DEF Unused
  <2>3. ASSUME NEW u \in Tids, Place(u)'.at = "creating"
        PROVE  Place(u).at = "creating"
    <3>1. Place(u)' = Saved(c)[u]
      BY <1>6, <1>7, <2>3 DEF Place
    <3>2. CASE u = topThread /\ status[topThread] # "EXITED"
      BY <1>1, <1>3, <2>3, <3>1, <3>2, SavedValue DEF Place, MayReturnTo
    <3>3. CASE ~(u = topThread /\ status[topThread] # "EXITED")
      BY <1>1, <2>3, <3>1, <3>3, SavedValue
         DEF Place, PlacesInv, RunnerInv, NotSaved
    <3>4. QED
      BY <3>2, <3>3
  <2>4. QED
    BY <2>1, <2>2, <2>3 DEF PlacesInv, CreatedInv
<1>13. ListedInv'
  <2>1. \A u \in Tids : buf[u].at # "unset" => buf'[u].at # "unset"
    BY <1>4, <1>6
  <2>2. \A b \in Barriers : Listed(b)' = Listed(b) /\ Listed(b) \subseteq Tids
    BY DEF Listed, barrierState, BTypeOK
  <2>3. QED
    BY <2>1, <2>2 DEF PlacesInv, ListedInv
<1>14. SamePhases
  <2> SUFFICES ASSUME NEW u \in BarrierClients PROVE Phase(u, 0)' = Phase(u, 0)
    BY DEF SamePhases
  <2>1. u \in Tids \ {0}
    BY BarrierAssumption DEF OneBarrier
  <2>2. CASE u = cpu.of
    <3>1. Place(u) = cpu /\ buf[u].at \in NotSaved
      BY <2>2 DEF Place, PlacesInv, RunnerInv
    <3>2. CASE u = topThread /\ status[topThread] # "EXITED"
      <4>1. Saved(c)[u] = c
        BY <1>1, <2>1, <3>2, SavedValue
      <4>2. c.at \notin NotSaved
        BY DEF Exec, CodePoints, NotSaved
      <4>3. Place(u)' = c \/ Place(u)' = cpu
        BY <1>6, <1>7, <1>8, <2>1, <2>2, <4>1, <4>2 DEF Place
      <4>4. Inside(u, 0)' <=> Inside(u, 0)
        BY <3>1, <4>3 DEF Inside, SameBarrier
      <4>5. QED
        BY <1>5, <2>1, <4>4 DEF Phase
    <3>3. CASE ~(u = topThread /\ status[topThread] # "EXITED")
      <4>1. u = topThread /\ status[u] = "EXITED"
        BY <2>1, <2>2, <3>3 DEF PlacesInv, RunnerInv
      <4>2. cpu.at \in Exiting
        BY <2>1, <2>2, <4>1 DEF PlacesInv, RunnerInv
      <4>3. Place(u)' = cpu \/ Place(u)' = buf[u]
        BY <1>5, <1>7, <1>8, <2>1, <2>2, <4>1 DEF Place
      <4>4. ~Inside(u, 0)
        BY <3>1, <4>2 DEF Inside, Exiting
      <4>5. ~Inside(u, 0)'
        BY <3>1, <4>2, <4>3 DEF Inside, Exiting, NotSaved
      <4>6. QED
        BY <4>4, <4>5 DEF Phase
    <3>4. QED
      BY <3>2, <3>3
  <2>3. CASE u # cpu.of
    <3>1. Place(u) = buf[u] /\ Saved(c)[u] = buf[u]
      BY <1>1, <1>3, <2>1, <2>3, SavedValue DEF Place
    <3>2. CASE u # t
      <4>1. Place(u)' = buf[u]
        BY <1>6, <1>7, <1>8, <2>1, <2>3, <3>1, <3>2 DEF Place
      <4>2. Inside(u, 0)' <=> Inside(u, 0)
        BY <3>1, <4>1 DEF Inside
      <4>3. QED
        BY <1>5, <2>1, <4>2 DEF Phase
    <3>3. CASE u = t /\ Running'
      <4>1. Place(u)' = buf[u]
        BY <1>7, <3>1, <3>3 DEF Place
      <4>2. Inside(u, 0)' <=> Inside(u, 0)
        BY <3>1, <4>1 DEF Inside
      <4>3. QED
        BY <1>5, <2>1, <4>2 DEF Phase
    <3>4. CASE u = t /\ ~Running'
      <4>1. buf[u].at \in NotSaved
        BY <1>8, <3>1, <3>4
      <4>2. Place(u)'.at = "dead"
        BY <1>6, <1>8, <2>3, <3>4 DEF Place
      <4>3. ~Inside(u, 0) /\ ~Inside(u, 0)'
        BY <3>1, <4>1, <4>2 DEF Inside, NotSaved
      <4>4. QED
        BY <4>3 DEF Phase
    <3>5. QED
      BY <3>2, <3>3, <3>4
  <2>4. QED
    BY <2>2, <2>3
<1>15. QED
  BY <1>9, <1>10, <1>11, <1>12, <1>13, <1>14 DEF PlacesInv

LEMMA ScheduleBarrier ==
    ASSUME OneBarrier, BTypeOK, PlacesInv, Running,
           NEW c \in Exec, MayReturnTo(c), SameBarrier(c), Schedule(c),
           UNCHANGED <<numOfThreads, barrierState>>
    PROVE  PlacesInv' /\ SamePhases
<1>1. TypeOK
  BY DEF BTypeOK
<1>2. CASE /\ process' = "spinning"
           /\ UNCHANGED <<status, buf, topThread, currentThreadID, cpu>>
  <2>1. ~Running'
    BY <1>2 DEF Running
  <2>2. RunnerInv' /\ CreatedInv'
    BY <2>1 DEF RunnerInv, CreatedInv
  <2>3. ContextsInv' /\ CallersInv'
    BY <1>2 DEF PlacesInv, ContextsInv, CallersInv, barrierState
  <2>4. ListedInv'
    BY <1>2 DEF PlacesInv, ListedInv, Listed, barrierState
  <2>5. SamePhases
    BY <1>2 DEF SamePhases, Phase, Inside, Place
  <2>6. QED
    BY <2>2, <2>3, <2>4, <2>5 DEF PlacesInv
<1>3. CASE \E t \in Tids : Resumed(c, t) /\ process' \in {"running", "stale"}
  BY <1>3, ResumedPlaces
<1>4. QED
  BY <1>1, <1>2, <1>3, ScheduleResult
----------------------------------------------------------------------------
(* pthread_create and pthread_exit. *)

(* A step that moves the executing thread on, outside the barrier, and     *)
(* leaves the table alone.                                                 *)
LEMMA QuietPlaces ==
    ASSUME OneBarrier, BTypeOK, PlacesInv, Running,
           UNCHANGED <<status, buf, topThread, currentThreadID, barrierState>>,
           cpu'.of = cpu.of, cpu.at \notin InBarrier,
           \/ cpu' = cpu
           \/ /\ cpu'.at \notin InBarrier \cup Exiting \cup {"fellThrough"}
              /\ cpu.at \notin Exiting
           \/ cpu'.at = "exited" /\ cpu.at = "exiting",
           CreatedInv'
    PROVE  PlacesInv' /\ SamePhases
<1> USE DEF InBarrier
<1>1. RunnerInv'
  BY DEF PlacesInv, RunnerInv, Running, Exiting
<1>2. ContextsInv' /\ CallersInv'
  BY DEF PlacesInv, ContextsInv, CallersInv, barrierState, Exiting
<1>3. ListedInv'
  BY DEF PlacesInv, ListedInv, Listed, barrierState
<1>4. SamePhases
  BY DEF SamePhases, Phase, Inside, Place, Exiting
<1>5. QED
  BY <1>1, <1>2, <1>3, <1>4 DEF PlacesInv

LEMMA CreateCountPlaces ==
    ASSUME OneBarrier, BTypeOK, PlacesInv, CreateCount, UNCHANGED barrierState
    PROVE  PlacesInv' /\ SamePhases
<1>1. TypeOK /\ cpu \in Exec
  BY DEF BTypeOK, TypeOK, Exec
<1>2. /\ Running /\ cpu.at = "user" /\ cpu.of = 0
      /\ numOfThreads' = numOfThreads + 1
      /\ cpu'.of = 0 /\ cpu'.at = "creating"
      /\ UNCHANGED <<status, buf, topThread, currentThreadID>>
  BY <1>1 DEF OneBarrier, OnlyMainCreates, CreateCount, At, Goto, Running, Exec
<1>3. CreatedInv'
  <2> SUFFICES ASSUME Running' PROVE CreatedInv'
    BY DEF CreatedInv
  <2>1. numOfThreads' \in Tids \ {0}
    BY <1>1, <1>2, ThreadsAssumption DEF CreateCount, Running, TypeOK, Tids
  <2>2. \A t \in Tids : t > numOfThreads => Unused(t)'
    BY <1>2 DEF PlacesInv, CreatedInv, Unused
  <2>3. numOfThreads' > numOfThreads
    BY <1>1, <1>2 DEF TypeOK
  <2>4. Unused(numOfThreads)'
    BY <1>1, <1>2, <2>1, <2>3 DEF PlacesInv, CreatedInv, Unused, TypeOK
  <2>5. \A t \in Tids : Place(t)'.at = "creating" => t = 0
    BY <1>2 DEF Place, PlacesInv, CreatedInv
  <2>6. QED
    BY <1>1, <1>2, <2>1, <2>2, <2>3, <2>4, <2>5
       DEF PlacesInv, CreatedInv, TypeOK, Tids
<1>4. QED
  BY <1>2, <1>3, QuietPlaces DEF InBarrier, Exiting

LEMMA QuietStepPlaces ==
    ASSUME OneBarrier, BTypeOK, PlacesInv, UNCHANGED barrierState,
           CreateNoMemory \/ ExitCount \/ ExitProcess
    PROVE  PlacesInv' /\ SamePhases
<1>1. TypeOK /\ cpu \in Exec
  BY DEF BTypeOK, TypeOK, Exec
<1>2. /\ Running
      /\ UNCHANGED <<status, buf, topThread, currentThreadID, numOfThreads>>
  BY DEF CreateNoMemory, ExitCount, ExitProcess, At, Running
<1>3. /\ cpu'.of = cpu.of
      /\ \/ cpu' = cpu /\ cpu.at \in {"exited", "fellThrough"}
         \/ cpu.at = "creating" /\ cpu'.at = "user"
         \/ cpu.at = "exiting" /\ cpu'.at = "exited"
  BY <1>1 DEF CreateNoMemory, ExitCount, ExitProcess, At, Goto, Exec
<1>4. CreatedInv'
  <2>1. \A t \in Tids : Place(t)'.at = "creating" => Place(t).at = "creating"
    BY <1>2, <1>3 DEF Place
  <2>2. QED
    BY <1>2, <2>1 DEF PlacesInv, CreatedInv, Unused, Running
<1>5. QED
  BY <1>2, <1>3, <1>4, QuietPlaces DEF InBarrier, Exiting

LEMMA CreateInitPlaces ==
    ASSUME OneBarrier, BTypeOK, PlacesInv, CreateInit, UNCHANGED barrierState
    PROVE  PlacesInv' /\ SamePhases
<1> USE DEF InBarrier
<1> DEFINE n == numOfThreads
<1>1. TypeOK /\ cpu \in Exec
  BY DEF BTypeOK, TypeOK, Exec
<1>2. /\ Running /\ cpu.at = "creating" /\ cpu.of \in Tids
      /\ cpu'.of = cpu.of /\ cpu'.at \in {"user", "starting"}
      /\ UNCHANGED <<topThread, currentThreadID, numOfThreads, process>>
  BY <1>1 DEF CreateInit, At, Goto, Running, Exec
<1>3. cpu.of = 0 /\ n \in Tids \ {0} /\ Unused(n)
  BY <1>2 DEF PlacesInv, CreatedInv, Place
<1>4. /\ buf' = [buf EXCEPT ![n] = Ctx(n, "user", 0)]
      /\ status' = [status EXCEPT ![n] = "READY"]
  BY DEF CreateInit
<1>5. /\ status'[n] = "READY" /\ buf'[n] = Ctx(n, "user", 0)
      /\ \A t \in Tids \ {n} : buf'[t] = buf[t] /\ status'[t] = status[t]
      /\ status'[0] = status[0]
  BY <1>1, <1>3, <1>4, ZeroTid DEF TypeOK
<1>6. RunnerInv'
  <2>1. \/ topThread = currentThreadID
        \/ status'[topThread] = "EXITED" /\ buf'[topThread].at = "dead"
    <3>1. CASE topThread = currentThreadID
      BY <3>1
    <3>2. CASE topThread # currentThreadID
      <4>1. /\ currentThreadID = 0
            /\ status[topThread] = "EXITED" /\ buf[topThread].at = "dead"
        BY <1>2, <3>2 DEF PlacesInv, RunnerInv
      <4>2. topThread # n /\ topThread # 0 /\ topThread \in Tids
        BY <1>1, <1>3, <3>2, <4>1 DEF Unused, TypeOK
      <4>3. QED
        BY <1>5, <4>1, <4>2
    <3>3. QED
      BY <3>1, <3>2
  <2>2. currentThreadID = 0 /\ buf[0].at \in NotSaved
    BY <1>2, <1>3 DEF PlacesInv, RunnerInv
  <2>3. status'[0] # "BLOCKED"
    BY <1>2, <1>3, <1>5 DEF PlacesInv, RunnerInv
  <2>4. QED
    BY <1>2, <1>3, <1>5, <2>1, <2>2, <2>3, ZeroTid DEF RunnerInv, Exiting
<1>7. ContextsInv' /\ CallersInv'
  BY <1>1, <1>2, <1>3, <1>5
     DEF PlacesInv, ContextsInv, CallersInv, Ctx, Exiting, barrierState
<1>8. CreatedInv'
  <2>1. \A t \in Tids : t > n => Unused(t)'
    BY <1>1, <1>2, <1>3, <1>5 DEF PlacesInv, CreatedInv, Unused, TypeOK, Tids
  <2>2. \A t \in Tids : Place(t)'.at # "creating"
    <3> SUFFICES ASSUME NEW t \in Tids PROVE Place(t)'.at # "creating"
      OBVIOUS
    <3>1. CASE t = 0
      BY <1>2, <1>3, <3>1 DEF Place
    <3>2. CASE t = n
      BY <1>2, <1>3, <1>5, <3>2 DEF Place, Ctx
    <3>3. CASE t # 0 /\ t # n
      BY <1>2, <1>3, <1>5, <3>3 DEF Place, PlacesInv, CreatedInv
    <3>4. QED
      BY <3>1, <3>2, <3>3
  <2>3. QED
    BY <1>2, <2>1, <2>2 DEF PlacesInv, CreatedInv
<1>9. ListedInv'
  <2>1. \A u \in Tids : buf[u].at # "unset" => buf'[u].at # "unset"
    BY <1>3, <1>5 DEF Ctx
  <2>2. \A b \in Barriers : Listed(b)' = Listed(b) /\ Listed(b) \subseteq Tids
    BY DEF Listed, barrierState, BTypeOK
  <2>3. QED
    BY <2>1, <2>2 DEF PlacesInv, ListedInv
<1>10. SamePhases
  <2> SUFFICES ASSUME NEW u \in BarrierClients PROVE Phase(u, 0)' = Phase(u, 0)
    BY DEF SamePhases
  <2>1. u \in Tids \ {0}
    BY BarrierAssumption DEF OneBarrier
  <2>2. Place(u) = buf[u] /\ Place(u)' = buf'[u]
    BY <1>2, <1>3, <2>1 DEF Place
  <2>3. CASE u = n
    BY <1>3, <1>5, <2>2, <2>3 DEF Phase, Inside, Unused, Ctx
  <2>4. CASE u # n
    BY <1>5, <2>1, <2>2, <2>4 DEF Phase, Inside
  <2>5. QED
    BY <2>3, <2>4
<1>11. QED
  BY <1>6, <1>7, <1>8, <1>9, <1>10 DEF PlacesInv

(* Only main's status changes, and main is no client. *)
LEMMA SchedulerInitPlaces ==
    ASSUME OneBarrier, BTypeOK, PlacesInv, SchedulerInit, UNCHANGED barrierState
    PROVE  PlacesInv' /\ SamePhases
<1> USE DEF InBarrier
<1>1. TypeOK /\ cpu \in Exec
  BY DEF BTypeOK, TypeOK, Exec
<1>2. /\ Running /\ cpu.at = "starting"
      /\ cpu'.of = cpu.of /\ cpu'.at = "user"
      /\ UNCHANGED <<buf, topThread, currentThreadID, numOfThreads, process>>
  BY <1>1 DEF SchedulerInit, At, Goto, Running, Exec
<1>3. /\ status'[0] = "READY"
      /\ \A t \in Tids \ {0} : status'[t] = status[t]
  BY <1>1, ZeroTid DEF SchedulerInit, TypeOK
<1>4. RunnerInv'
  <2>1. \/ topThread = currentThreadID
        \/ /\ currentThreadID = 0
           /\ status'[topThread] = "EXITED" /\ buf[topThread].at = "dead"
    BY <1>1, <1>2, <1>3 DEF PlacesInv, RunnerInv, TypeOK
  <2>2. cpu.of \in Tids
    BY <1>1 DEF Exec
  <2>3. QED
    BY <1>2, <1>3, <2>1, <2>2 DEF PlacesInv, RunnerInv, Running, Exiting
<1>5. ContextsInv' /\ CallersInv'
  BY <1>2 DEF PlacesInv, ContextsInv, CallersInv, barrierState, Exiting
<1>6. CreatedInv'
  <2>1. \A t \in Tids \ {0} : Unused(t) <=> Unused(t)'
    BY <1>2, <1>3 DEF Unused
  <2>2. \A t \in Tids : Place(t)'.at = "creating" => Place(t).at = "creating"
    BY <1>2 DEF Place
  <2>3. QED
    BY <1>1, <1>2, <2>1, <2>2 DEF PlacesInv, CreatedInv, Running, TypeOK
<1>7. ListedInv'
  BY <1>2 DEF PlacesInv, ListedInv, Listed, barrierState
<1>8. SamePhases
  <2> SUFFICES ASSUME NEW u \in BarrierClients PROVE Phase(u, 0)' = Phase(u, 0)
    BY DEF SamePhases
  <2>1. u \in Tids \ {0}
    BY BarrierAssumption DEF OneBarrier
  <2>2. QED
    BY <1>2, <1>3, <2>1 DEF Phase, Inside, Place
<1>9. QED
  BY <1>4, <1>5, <1>6, <1>7, <1>8 DEF PlacesInv

LEMMA ExitMarkPlaces ==
    ASSUME OneBarrier, BTypeOK, PlacesInv, ExitMark, UNCHANGED barrierState
    PROVE  PlacesInv' /\ SamePhases
<1> USE DEF InBarrier
<1>1. TypeOK /\ cpu \in Exec /\ cpu.of \in Tids
  BY DEF BTypeOK, TypeOK, Exec
<1>2. /\ Running /\ cpu.at = "user"
      /\ cpu'.of = cpu.of /\ cpu'.at = "exiting"
      /\ UNCHANGED <<buf, topThread, currentThreadID, numOfThreads, process>>
  BY DEF ExitMark, At, Running, Ctx
<1>3. cpu.of = currentThreadID
  BY <1>2 DEF PlacesInv, RunnerInv
<1>4. /\ status'[cpu.of] = "EXITED"
      /\ \A t \in Tids \ {cpu.of} : status'[t] = status[t]
  BY <1>1, <1>3 DEF ExitMark, TypeOK
<1>5. RunnerInv'
  <2>1. topThread \in Tids
    BY <1>1 DEF TypeOK
  <2>2. QED
    BY <1>2, <1>3, <1>4, <2>1 DEF PlacesInv, RunnerInv, Running, Exiting
<1>6. ContextsInv' /\ CallersInv'
  BY <1>2 DEF PlacesInv, ContextsInv, CallersInv, barrierState
<1>7. CreatedInv'
  <2>1. \A t \in Tids : Place(t)'.at = "creating" => Place(t).at = "creating"
    BY <1>2 DEF Place
  <2>2. \A t \in Tids : Unused(t) => Unused(t)'
    BY <1>2, <1>4 DEF Unused
  <2>3. QED
    BY <1>2, <2>1, <2>2 DEF PlacesInv, CreatedInv, Running
<1>8. ListedInv'
  BY <1>2 DEF PlacesInv, ListedInv, Listed, barrierState
<1>9. SamePhases
  <2> SUFFICES ASSUME NEW u \in BarrierClients PROVE Phase(u, 0)' = Phase(u, 0)
    BY DEF SamePhases
  <2>1. u \in Tids
    BY BarrierAssumption
  <2>2. QED
    BY <1>2, <1>4, <2>1 DEF Phase, Inside, Place
<1>10. QED
  BY <1>5, <1>6, <1>7, <1>8, <1>9 DEF PlacesInv

(* The jump to main around schedule(): the worker that jumps has exited,   *)
(* and main is not a client.                                               *)
LEMMA ExitToMainPlaces ==
    ASSUME OneBarrier, BTypeOK, PlacesInv, ExitToMain, UNCHANGED barrierState
    PROVE  PlacesInv' /\ SamePhases
<1> USE DEF InBarrier
<1>1. TypeOK /\ cpu \in Exec /\ cpu.of \in Tids /\ buf[0] \in Context
  BY ZeroTid DEF BTypeOK, TypeOK, Exec
<1>2. /\ Running /\ cpu.at = "exited" /\ status[0] # "EXITED"
      /\ currentThreadID' = 0
      /\ UNCHANGED <<topThread, numOfThreads>>
  BY DEF ExitToMain, At, Running
<1>3. cpu.of = currentThreadID /\ cpu.of # 0 /\ status[cpu.of] = "EXITED"
      /\ topThread = cpu.of /\ buf[cpu.of].at = "dead"
  BY <1>2 DEF PlacesInv, RunnerInv, Exiting
<1>4. /\ status'[0] = "RUNNING"
      /\ \A t \in Tids \ {0} : status'[t] = status[t]
  BY <1>1, ZeroTid DEF ExitToMain, TypeOK
<1>5. /\ buf'[0].at = "dead" /\ buf'[0].of = 0
      /\ \A t \in Tids \ {0} : buf'[t] = buf[t]
  <2>1. buf' = [buf EXCEPT ![0].at = "dead"]
    BY DEF ExitToMain, Longjmp
  <2>2. buf[0].of = 0
    BY ZeroTid DEF PlacesInv, ContextsInv
  <2>3. QED
    BY <1>1, <2>1, <2>2, ZeroTid DEF TypeOK, Context
<1>6. \/ cpu' = buf[0] /\ process' = process /\ buf[0].at \notin NotSaved
      \/ cpu' = cpu /\ ~Running' /\ buf[0].at \in NotSaved
  BY DEF ExitToMain, Longjmp, Running
<1>7. /\ buf[0].of = 0
      /\ buf[0].at \notin Exiting \cup {"fellThrough"}
      /\ buf[0].at \notin InBarrier
  BY ZeroTid DEF PlacesInv, ContextsInv, CallersInv, OneBarrier
<1>8. RunnerInv'
  BY <1>1, <1>2, <1>3, <1>4, <1>5, <1>6, <1>7 DEF RunnerInv, NotSaved
<1>9. ContextsInv' /\ CallersInv'
  BY <1>2, <1>5, <1>6, <1>7
     DEF PlacesInv, ContextsInv, CallersInv, Exiting, barrierState
<1>10. CreatedInv'
  <2> SUFFICES ASSUME Running' PROVE CreatedInv'
    BY DEF CreatedInv
  <2>1. 0 <= numOfThreads
    BY <1>1 DEF TypeOK
  <2>2. \A t \in Tids : t > numOfThreads => t # 0
    BY <1>1, <2>1 DEF TypeOK
  <2>3. \A t \in Tids \ {0} : Unused(t) => Unused(t)'
    BY <1>4, <1>5 DEF Unused
  <2>4. \A t \in Tids : Place(t)'.at = "creating" => Place(t).at = "creating"
    BY <1>3, <1>5, <1>6, <1>7 DEF Place
  <2>5. QED
    BY <1>2, <2>1, <2>2, <2>3, <2>4, ZeroTid DEF PlacesInv, CreatedInv
<1>11. ListedInv'
  <2>1. \A u \in Tids : buf[u].at # "unset" => buf'[u].at # "unset"
    BY <1>5
  <2>2. \A b \in Barriers : Listed(b)' = Listed(b) /\ Listed(b) \subseteq Tids
    BY DEF Listed, barrierState, BTypeOK
  <2>3. QED
    BY <2>1, <2>2 DEF PlacesInv, ListedInv
<1>12. SamePhases
  <2> SUFFICES ASSUME NEW u \in BarrierClients PROVE Phase(u, 0)' = Phase(u, 0)
    BY DEF SamePhases
  <2>1. u \in Tids \ {0}
    BY BarrierAssumption DEF OneBarrier
  <2>2. CASE u = cpu.of
    <3>1. Place(u)' = cpu \/ Place(u)' = buf[u]
      BY <1>5, <1>6, <1>7, <2>1, <2>2 DEF Place
    <3>2. QED
      BY <1>2, <1>3, <2>2, <3>1 DEF Phase, Inside, Place
  <2>3. CASE u # cpu.of
    BY <1>4, <1>5, <1>6, <1>7, <2>1, <2>3 DEF Phase, Inside, Place
  <2>4. QED
    BY <2>2, <2>3
<1>13. QED
  BY <1>8, <1>9, <1>10, <1>11, <1>12 DEF PlacesInv

LEMMA CorePlaces ==
    ASSUME OneBarrier, BTypeOK, PlacesInv, [Next]_coreVars, UNCHANGED barrierState
    PROVE  PlacesInv' /\ SamePhases
<1>1. TypeOK /\ cpu \in Exec
  BY DEF BTypeOK, TypeOK, Exec
<1>2. CASE UNCHANGED coreVars
  <2>1. PlacesInv'
    BY <1>2 DEF coreVars, barrierState, PlacesInv, RunnerInv, ContextsInv,
                CallersInv, CreatedInv, ListedInv, Running, Unused, Place,
                Listed
  <2>2. SamePhases
    BY <1>2 DEF coreVars, SamePhases, Phase, Inside, Place
  <2>3. QED
    BY <2>1, <2>2
<1>3. CASE Alarm
  <2>1. Running
    BY <1>3 DEF Alarm, Running
  <2>2. CASE is_first_call
    <3>1. /\ ~Running'
          /\ UNCHANGED <<status, buf, cpu>>
      BY <1>3, <2>2 DEF Alarm, Running
    <3>2. PlacesInv'
      BY <3>1 DEF barrierState, PlacesInv, RunnerInv, ContextsInv, CallersInv,
                  CreatedInv, ListedInv, Listed
    <3>3. SamePhases
      BY <3>1 DEF SamePhases, Phase, Inside, Place
    <3>4. QED
      BY <3>2, <3>3
  <2>3. CASE ~is_first_call
    <3>1. Schedule(cpu) /\ UNCHANGED numOfThreads
      BY <1>3, <2>3 DEF Alarm
    <3>2. MayReturnTo(cpu) /\ SameBarrier(cpu)
      BY <2>1 DEF MayReturnTo, SameBarrier, PlacesInv, RunnerInv
    <3>3. QED
      BY <1>1, <2>1, <3>1, <3>2, ScheduleBarrier
  <2>4. QED
    BY <2>2, <2>3
<1>4. CASE ExitSchedule
  <2>1. PICK c \in Exec : c = [cpu EXCEPT !.at = "fellThrough"]
    BY <1>1, CpuType DEF CodePoints, Exec
  <2>2. c.of = cpu.of /\ c.on = cpu.on /\ c.at = "fellThrough"
    BY <1>1, <2>1 DEF Exec
  <2>3. Running /\ cpu.at = "exited" /\ Schedule(c) /\ UNCHANGED numOfThreads
    BY <1>4, <2>1 DEF ExitSchedule, At, Running
  <2>4. status[cpu.of] = "EXITED"
    BY <2>3 DEF PlacesInv, RunnerInv, Exiting
  <2>5. MayReturnTo(c) /\ SameBarrier(c)
    BY <2>2, <2>3, <2>4 DEF MayReturnTo, SameBarrier, InBarrier
  <2>6. QED
    BY <2>3, <2>5, ScheduleBarrier
<1>5. QED
  BY <1>2, <1>3, <1>4, CreateCountPlaces, QuietStepPlaces, CreateInitPlaces,
     SchedulerInitPlaces,
     ExitMarkPlaces, ExitToMainPlaces DEF Next, CoreStep, Halted
----------------------------------------------------------------------------
(* The steps of pthread_barrier_wait: what they do to the places, and to   *)
(* the phases.                                                             *)

Moves(t, from, to) ==
    /\ t \in BarrierClients /\ Phase(t, 0) = from /\ Phase(t, 0)' = to
    /\ \A u \in BarrierClients \ {t} : Phase(u, 0)' = Phase(u, 0)

Releases(t) ==
    /\ t \in BarrierClients
    /\ Phase(t, 0) = "outside" /\ Phase(t, 0)' = "released"
    /\ \A u \in BarrierClients \ {t} :
        Phase(u, 0)' = IF Phase(u, 0) = "waiting" THEN "released" ELSE Phase(u, 0)

LEMMA OnlyZero == OneBarrier => Barriers = {0}
BY DEF OneBarrier, Barriers

(* Who makes a call is the thread the library thinks it is. *)
LEMMA BarrierCaller ==
    ASSUME OneBarrier, BTypeOK, PlacesInv, At("user"), cpu.of \in BarrierClients
    PROVE  /\ Running /\ cpu.of \in Tids \ {0}
           /\ topThread = cpu.of /\ currentThreadID = cpu.of
           /\ cpu.of <= numOfThreads
           /\ status[cpu.of] # "EXITED" /\ status[cpu.of] # "BLOCKED"
           /\ buf[cpu.of].at = "dead"
           /\ Phase(cpu.of, 0) = "outside"
<1>1. Running /\ cpu.at = "user"
  BY DEF At, Running
<1>2. cpu.of \in Tids \ {0}
  BY BarrierAssumption DEF OneBarrier
<1>3. Place(cpu.of) = cpu
  BY DEF Place
<1>4. Phase(cpu.of, 0) = "outside"
  BY <1>1, <1>3 DEF Phase, Inside
<1>5. QED
  BY <1>1, <1>2, <1>4 DEF PlacesInv, RunnerInv, CreatedInv, Exiting

LEMMA EnterPlaces ==
    ASSUME OneBarrier, BTypeOK, PlacesInv, BarrierEnter(0),
           NEW p \in {"barrierYield", "barrierCheck"},
           cpu' = Ctx(cpu.of, p, 0),
           status'[cpu.of] # "EXITED",
           status'[cpu.of] = "BLOCKED" => p = "barrierYield",
           \A u \in Tids : buf[u].at = "unset" => status'[u] = status[u],
           Listed(0)' \subseteq Listed(0) \cup {cpu.of}
    PROVE  PlacesInv'
<1> USE DEF InBarrier
<1>1. /\ Running /\ cpu.at = "user" /\ cpu.of \in BarrierClients
      /\ 0 < barrierId
      /\ UNCHANGED <<buf, topThread, currentThreadID, numOfThreads, process,
                     barrierId>>
  BY DEF BarrierEnter, At, Running
<1>2. /\ cpu.of \in Tids \ {0}
      /\ topThread = cpu.of /\ currentThreadID = cpu.of
      /\ cpu.of <= numOfThreads /\ buf[cpu.of].at = "dead"
  BY <1>1, BarrierCaller DEF At, Running
<1>3. cpu'.of = cpu.of /\ cpu'.at = p /\ cpu'.on = 0
  BY DEF Ctx
<1>4. RunnerInv'
  BY <1>1, <1>2, <1>3 DEF RunnerInv, Exiting, NotSaved
<1>5. ContextsInv' /\ CallersInv'
  BY <1>1, <1>3 DEF PlacesInv, ContextsInv, CallersInv
<1>6. CreatedInv'
  <2>1. \A t \in Tids : Place(t)'.at = "creating" => Place(t).at = "creating"
    BY <1>1, <1>3 DEF Place
  <2>2. \A t \in Tids : Unused(t) => Unused(t)'
    BY <1>1 DEF Unused
  <2>3. QED
    BY <1>1, <2>1, <2>2 DEF PlacesInv, CreatedInv, Running
<1>7. ListedInv'
  BY <1>1, <1>2, OnlyZero DEF PlacesInv, ListedInv
<1>8. QED
  BY <1>4, <1>5, <1>6, <1>7 DEF PlacesInv

(* What is in a list after Append. *)
LEMMA AppendedItem ==
    ASSUME NEW S, NEW l \in Seq(S), NEW x \in S
    PROVE  {Append(l, x)[i] : i \in DOMAIN Append(l, x)} = {l[i] : i \in DOMAIN l} \cup {x}
<1>1. /\ DOMAIN Append(l, x) = 1..(Len(l) + 1) /\ DOMAIN l = 1..Len(l)
      /\ Len(l) \in Nat
      /\ \A i \in 1..Len(l) : Append(l, x)[i] = l[i]
      /\ Append(l, x)[Len(l) + 1] = x
  OBVIOUS
<1>2. 1..(Len(l) + 1) = (1..Len(l)) \cup {Len(l) + 1}
  BY <1>1
<1>3. QED
  BY <1>1, <1>2

LEMMA BlockPlaces ==
    ASSUME OneBarrier, BTypeOK, PlacesInv, BarrierBlock(0)
    PROVE  /\ PlacesInv'
           /\ Moves(cpu.of, "outside", "waiting")
           /\ Listed(0)' = Listed(0) \cup {cpu.of}
<1>1. BarrierEnter(0) /\ At("user") /\ cpu.of \in BarrierClients
  BY DEF BarrierBlock, BarrierEnter
<1>2. /\ cpu.of \in Tids \ {0} /\ currentThreadID = cpu.of
      /\ buf[cpu.of].at = "dead" /\ Phase(cpu.of, 0) = "outside"
  BY <1>1, BarrierCaller
<1>3. /\ status'[cpu.of] = "BLOCKED"
      /\ \A u \in Tids \ {cpu.of} : status'[u] = status[u]
  BY <1>2 DEF BarrierBlock, BTypeOK, TypeOK
<1>4. barrierThreadLists'[0] = Append(barrierThreadLists[0], cpu.of)
      /\ barrierThreadLists[0] \in Seq(Tids)
  BY <1>2, OnlyZero DEF BarrierBlock, BTypeOK
<1>5. Listed(0)' = Listed(0) \cup {cpu.of}
  BY <1>2, <1>4, AppendedItem DEF Listed
<1>6. cpu' = Ctx(cpu.of, "barrierYield", 0) /\ UNCHANGED buf
  BY <1>1 DEF BarrierBlock, BarrierEnter
<1>7. PlacesInv'
  BY <1>1, <1>2, <1>3, <1>5, <1>6, EnterPlaces
<1>8. Moves(cpu.of, "outside", "waiting")
  <2>1. BarrierClients \subseteq Tids
    BY BarrierAssumption
  <2>2. cpu'.of = cpu.of /\ cpu'.at = "barrierYield" /\ cpu'.on = 0
    BY <1>6 DEF Ctx
  <2>3. Phase(cpu.of, 0)' = "waiting"
    BY <1>3, <2>2 DEF Phase, Inside, Place
  <2>4. \A u \in BarrierClients \ {cpu.of} : Phase(u, 0)' = Phase(u, 0)
    BY <1>3, <1>6, <2>1, <2>2 DEF Phase, Inside, Place
  <2>5. QED
    BY <1>1, <1>2, <2>3, <2>4 DEF Moves
<1>9. QED
  BY <1>5, <1>7, <1>8

LEMMA ReleasePlaces ==
    ASSUME OneBarrier, BTypeOK, PlacesInv, Waiters \subseteq Listed(0),
           BarrierRelease(0)
    PROVE  PlacesInv' /\ Releases(cpu.of)
<1>1. BarrierEnter(0) /\ At("user") /\ cpu.of \in BarrierClients
  BY DEF BarrierRelease, BarrierEnter
<1>2. /\ cpu.of \in Tids \ {0} /\ currentThreadID = cpu.of
      /\ status[cpu.of] # "EXITED" /\ status[cpu.of] # "BLOCKED"
      /\ Phase(cpu.of, 0) = "outside"
  BY <1>1, BarrierCaller
<1>3. \A u \in Tids : status'[u] = IF u \in Listed(0) THEN "READY" ELSE status[u]
  BY DEF BarrierRelease
<1>4. Listed(0)' = Listed(0)
  BY DEF BarrierRelease, Listed
<1>5. cpu' = Ctx(cpu.of, "barrierCheck", 0) /\ UNCHANGED buf
  BY <1>1 DEF BarrierRelease, BarrierEnter
<1>6. \A u \in Listed(0) : buf[u].at # "unset"
  BY OnlyZero DEF PlacesInv, ListedInv
<1>7. PlacesInv'
  BY <1>1, <1>2, <1>3, <1>4, <1>5, <1>6, EnterPlaces
<1>8. Releases(cpu.of)
  <2>1. BarrierClients \subseteq Tids
    BY BarrierAssumption
  <2>2. cpu'.of = cpu.of /\ cpu'.at = "barrierCheck" /\ cpu'.on = 0
    BY <1>5 DEF Ctx
  <2>3. Phase(cpu.of, 0)' = "released"
    BY <1>2, <1>3, <2>2 DEF Phase, Inside, Place
  <2>4. ASSUME NEW u \in BarrierClients \ {cpu.of}
        PROVE  Phase(u, 0)' = IF Phase(u, 0) = "waiting" THEN "released" ELSE Phase(u, 0)
    <3>1. Inside(u, 0)' <=> Inside(u, 0)
      BY <1>5, <2>2 DEF Inside, Place
    <3>2. Phase(u, 0) = "waiting" => u \in Listed(0)
      BY DEF Waiters, Phases
    <3>3. status'[u] = IF u \in Listed(0) THEN "READY" ELSE status[u]
      BY <1>3, <2>1
    <3>4. QED
      BY <3>1, <3>2, <3>3 DEF Phase
  <2>5. QED
    BY <1>1, <1>2, <2>3, <2>4 DEF Releases
<1>9. QED
  BY <1>7, <1>8

LEMMA YieldPlaces ==
    ASSUME OneBarrier, BTypeOK, PlacesInv, BarrierYield
    PROVE  PlacesInv' /\ SamePhases
<1> USE DEF InBarrier
<1>1. cpu \in Exec /\ TypeOK
  BY DEF BTypeOK, TypeOK, Exec
<1>2. PICK c \in Exec : c = [cpu EXCEPT !.at = "barrierCheck"]
  BY <1>1, CpuType DEF CodePoints, Exec
<1>3. c.of = cpu.of /\ c.on = cpu.on /\ c.at = "barrierCheck"
  BY <1>1, <1>2 DEF Exec
<1>4. /\ Running /\ cpu.at = "barrierYield" /\ Schedule(c)
      /\ UNCHANGED <<numOfThreads, barrierState>>
  BY <1>2 DEF BarrierYield, At, Running
<1>5. MayReturnTo(c) /\ SameBarrier(c)
  BY <1>3, <1>4 DEF MayReturnTo, SameBarrier, Exiting
<1>6. QED
  BY <1>4, <1>5, ScheduleBarrier

(* Lines 404-408, wherever the alarm parts them. *)
LEMMA CheckPlaces ==
    ASSUME OneBarrier, BTypeOK, PlacesInv, BarrierReturn \/ BarrierSerial \/ BarrierClear
    PROVE  /\ PlacesInv' /\ cpu.on = 0 /\ cpu.of \in BarrierClients
           /\ BarrierSerial => SamePhases
           /\ ~BarrierSerial => Moves(cpu.of, "released", "outside")
<1> USE DEF InBarrier
<1>1. cpu \in Exec /\ TypeOK /\ cpu.of \in Tids
  BY DEF BTypeOK, TypeOK, Exec
<1>2. /\ Running /\ cpu.at \in {"barrierCheck", "barrierClear"}
      /\ UNCHANGED <<status, buf, topThread, currentThreadID, numOfThreads,
                     process, barrierId, barrierThreadLists>>
  BY DEF BarrierReturn, BarrierSerial, BarrierClear, Return, At, Running, barrierState
<1>3. /\ cpu'.of = cpu.of /\ cpu'.on = cpu.on
      /\ BarrierSerial => cpu'.at = "barrierClear"
      /\ ~BarrierSerial => cpu'.at = "user"
  BY <1>1 DEF BarrierReturn, BarrierSerial, BarrierClear, Return, Goto, Exec
<1>4. cpu.of \in BarrierClients /\ cpu.on < barrierId
  BY <1>2 DEF PlacesInv, CallersInv
<1>5. cpu.on = 0 /\ barrierId = 1
  BY <1>1, <1>4 DEF OneBarrier, BTypeOK, Exec
<1>6. RunnerInv'
  BY <1>2, <1>3 DEF PlacesInv, RunnerInv, Running, Exiting
<1>7. ContextsInv' /\ CallersInv'
  BY <1>2, <1>3, <1>4 DEF PlacesInv, ContextsInv, CallersInv
<1>8. CreatedInv'
  <2>1. \A t \in Tids : Place(t)'.at = "creating" => Place(t).at = "creating"
    BY <1>2, <1>3 DEF Place
  <2>2. QED
    BY <1>2, <2>1 DEF PlacesInv, CreatedInv, Unused, Running
<1>9. ListedInv'
  BY <1>2 DEF PlacesInv, ListedInv, Listed
<1>10. status[cpu.of] # "BLOCKED" /\ Phase(cpu.of, 0) = "released"
  BY <1>2, <1>5 DEF PlacesInv, RunnerInv, Phase, Inside, Place
<1>11. BarrierSerial => SamePhases
  BY <1>2, <1>3 DEF SamePhases, Phase, Inside, Place
<1>12. ASSUME ~BarrierSerial
       PROVE  Moves(cpu.of, "released", "outside")
  <2>1. Phase(cpu.of, 0)' = "outside"
    BY <1>3, <1>12 DEF Phase, Inside, Place
  <2>2. \A u \in BarrierClients \ {cpu.of} : Phase(u, 0)' = Phase(u, 0)
    BY <1>2, <1>3 DEF Phase, Inside, Place
  <2>3. QED
    BY <1>4, <1>10, <2>1, <2>2 DEF Moves
<1>13. QED
  BY <1>4, <1>5, <1>6, <1>7, <1>8, <1>9, <1>11, <1>12 DEF PlacesInv

LEMMA BarrierInitPlaces ==
    ASSUME OneBarrier, BTypeOK, PlacesInv, BarrierInit
    PROVE  PlacesInv' /\ SamePhases
<1>1. /\ barrierId = 0 /\ barrierId' = 1
      /\ UNCHANGED coreVars
      /\ barrierThreadLists' = [barrierThreadLists EXCEPT ![0] = <<>>]
  <2>1. barrierId = 0
    BY DEF BarrierInit, OneBarrier, BTypeOK
  <2>2. QED
    BY <2>1 DEF BarrierInit
<1>2. Listed(0)' = {}
  <2>1. barrierThreadLists'[0] = <<>>
    BY <1>1, OnlyZero DEF BTypeOK
  <2>2. DOMAIN barrierThreadLists'[0] = {}
    BY <2>1
  <2>3. QED
    BY <2>2, Zenon DEF Listed
<1>3. ListedInv'
  BY <1>2, OnlyZero DEF ListedInv
<1>4. RunnerInv' /\ ContextsInv' /\ CreatedInv'
  BY <1>1 DEF PlacesInv, RunnerInv, ContextsInv, CreatedInv, coreVars,
              Running, Unused, Place
<1>5. cpu.on \in Nat /\ \A t \in Tids : buf[t].on \in Nat
  BY DEF BTypeOK, TypeOK, Context
<1>6. CallersInv'
  BY <1>1, <1>5 DEF PlacesInv, CallersInv, coreVars
<1>7. SamePhases
  BY <1>1 DEF SamePhases, Phase, Inside, Place, coreVars
<1>8. QED
  BY <1>3, <1>4, <1>6, <1>7 DEF PlacesInv
----------------------------------------------------------------------------
(* The books. *)

LEMMA PartiesFinite ==
    /\ IsFiniteSet(BarrierClients)
    /\ IsFiniteSet(Within) /\ Cardinality(Within) \in Nat
    /\ IsFiniteSet(Waiters) /\ Cardinality(Waiters) \in Nat
    /\ Waiters \subseteq Within
<1>1. IsFiniteSet(Tids)
  BY FS_Interval, ThreadsAssumption DEF Tids
<1>2. Within \subseteq BarrierClients /\ Waiters \subseteq Within
  BY DEF Within, Waiters
<1>3. QED
  BY <1>1, <1>2, BarrierAssumption, FS_Subset, FS_CardinalityType

LEMMA PhaseValues ==
    /\ \A t \in BarrierClients : Phases[t] = Phase(t, 0)
    /\ \A t \in BarrierClients : Phases'[t] = Phase(t, 0)'
    /\ DOMAIN Phases = BarrierClients /\ DOMAIN Phases' = BarrierClients
    /\ Phases = [t \in BarrierClients |-> Phases[t]]
    /\ Phases' = [t \in BarrierClients |-> Phases'[t]]
BY Zenon DEF Phases

LEMMA MovesPhases ==
    ASSUME NEW t, NEW from, NEW to, Moves(t, from, to)
    PROVE  /\ t \in BarrierClients /\ Phases[t] = from
           /\ Phases' = [Phases EXCEPT ![t] = to]
<1>1. /\ t \in BarrierClients /\ Phases[t] = from /\ Phases'[t] = to
      /\ \A u \in BarrierClients \ {t} : Phases'[u] = Phases[u]
  BY PhaseValues, Zenon DEF Moves
<1>2. QED
  BY <1>1, PhaseValues

LEMMA ReleasesPhases ==
    ASSUME NEW t, Releases(t)
    PROVE  /\ t \in BarrierClients /\ Phases[t] = "outside"
           /\ Phases' = [u \in BarrierClients |->
                            IF u = t \/ Phases[u] = "waiting" THEN "released"
                                                              ELSE Phases[u]]
<1>1. /\ t \in BarrierClients /\ Phases[t] = "outside" /\ Phases'[t] = "released"
      /\ \A u \in BarrierClients \ {t} :
            Phases'[u] = IF Phases[u] = "waiting" THEN "released" ELSE Phases[u]
  BY PhaseValues, Zenon DEF Releases
<1>2. QED
  BY <1>1, PhaseValues

LEMMA MovesSets ==
    ASSUME NEW t, NEW from, NEW to, Moves(t, from, to)
    PROVE  /\ Within' = IF to = "outside" THEN Within \ {t} ELSE Within \cup {t}
           /\ Waiters' = IF to = "waiting" THEN Waiters \cup {t} ELSE Waiters \ {t}
           /\ t \in Within <=> from # "outside"
           /\ t \in Waiters <=> from = "waiting"
<1>1. /\ t \in BarrierClients /\ Phases[t] = from /\ Phases'[t] = to
      /\ \A u \in BarrierClients \ {t} : Phases'[u] = Phases[u]
  BY PhaseValues, Zenon DEF Moves
<1>2. QED
  BY <1>1 DEF Within, Waiters

LEMMA SameSets ==
    ASSUME SamePhases
    PROVE  Phases' = Phases /\ Within' = Within /\ Waiters' = Waiters
<1>1. \A u \in BarrierClients : Phases'[u] = Phases[u]
  BY PhaseValues, Zenon DEF SamePhases
<1>2. QED
  BY <1>1, PhaseValues DEF Within, Waiters

LEMMA BooksKept ==
    ASSUME BooksInv, SamePhases, UNCHANGED barrierState
    PROVE  BooksInv'
<1>1. Within' = Within /\ Waiters' = Waiters
  BY SameSets
<1>2. /\ Listed(0)' = Listed(0)
      /\ UNCHANGED <<currentCount, left, arrived, barrierId>>
  BY DEF Listed, barrierState
<1>3. QED
  BY <1>1, <1>2 DEF BooksInv

LEMMA RoundComplete ==
    ASSUME NEW a \in Nat, NEW n \in Nat, NEW k \in Nat, NEW c \in Nat,
           a = n * k + c, c + 1 = n
    PROVE  a + 1 = n * (k + 1) + 0
OBVIOUS

LEMMA BlockBooks ==
    ASSUME OneBarrier, BTypeOK, PlacesInv, BooksInv, BarrierBlock(0)
    PROVE  BooksInv'
<1>1. /\ Moves(cpu.of, "outside", "waiting")
      /\ Listed(0)' = Listed(0) \cup {cpu.of}
  BY BlockPlaces
<1>2. /\ Within' = Within \cup {cpu.of} /\ cpu.of \notin Within
      /\ Waiters' = Waiters \cup {cpu.of} /\ cpu.of \notin Waiters
  BY <1>1, MovesSets
<1>3. /\ Cardinality(Within') = Cardinality(Within) + 1
      /\ Cardinality(Waiters') = Cardinality(Waiters) + 1
  BY <1>2, PartiesFinite, FS_AddElement
<1>4. BarrierEnter(0) /\ barrierId # 0
  BY DEF BarrierBlock, BarrierEnter
<1>5. /\ arrived'[0] = arrived[0] + 1 /\ left' = left /\ barrierId' = barrierId
  BY <1>4, EnterType, OnlyZero
<1>6. currentCount'[0] = currentCount[0] + 1 /\ currentCount[0] + 1 # COUNT
  BY OnlyZero DEF BarrierBlock, BTypeOK
<1>7. /\ currentCount[0] \in Nat /\ left[0] \in Nat /\ arrived[0] \in Nat
      /\ COUNT \in Nat /\ currentCount[0] < COUNT
  BY <1>4, OnlyZero, BarrierAssumption DEF BTypeOK, BooksInv
<1>8. PICK k \in 0..arrived[0] : arrived[0] = COUNT * k + currentCount[0]
  BY DEF BooksInv
<1>9. k \in 0..arrived'[0] /\ arrived'[0] = COUNT * k + currentCount'[0]
  <2> DEFINE m == COUNT * k
  <2>1. m \in Nat
    BY <1>7, <1>8
  <2>2. arrived[0] = m + currentCount[0]
    BY <1>8
  <2> HIDE DEF m
  <2>3. arrived'[0] = m + currentCount'[0]
    BY <1>5, <1>6, <1>7, <2>1, <2>2
  <2>4. QED
    BY <1>5, <1>7, <1>8, <2>3 DEF m
<1>10. left'[0] + Cardinality(Within') = arrived'[0]
  BY <1>3, <1>5, <1>7, PartiesFinite DEF BooksInv
<1>11. currentCount'[0] = Cardinality(Waiters') /\ currentCount'[0] < COUNT /\ COUNT # 0
  BY <1>3, <1>6, <1>7 DEF BooksInv
<1>12. Waiters' \subseteq Listed(0)'
  BY <1>1, <1>2 DEF BooksInv
<1>13. QED
  BY <1>4, <1>5, <1>9, <1>10, <1>11, <1>12 DEF BooksInv

LEMMA ReleaseBooks ==
    ASSUME OneBarrier, BTypeOK, PlacesInv, BooksInv, BarrierRelease(0)
    PROVE  BooksInv'
<1>1. Releases(cpu.of)
  <2>1. Waiters \subseteq Listed(0)
    BY DEF BooksInv
  <2>2. QED
    BY <2>1, ReleasePlaces
<1>2. Within' = Within \cup {cpu.of} /\ cpu.of \notin Within
  BY <1>1, ReleasesPhases DEF Within
<1>3. Waiters' = {}
  BY <1>1, ReleasesPhases DEF Waiters
<1>4. Cardinality(Within') = Cardinality(Within) + 1
  BY <1>2, PartiesFinite, FS_AddElement
<1>5. Cardinality(Waiters') = 0
  BY <1>3, FS_EmptySet, Zenon
<1>6. BarrierEnter(0) /\ barrierId # 0
  BY DEF BarrierRelease, BarrierEnter
<1>7. /\ arrived'[0] = arrived[0] + 1 /\ left' = left /\ barrierId' = barrierId
  BY <1>6, EnterType, OnlyZero
<1>8. currentCount'[0] = 0 /\ currentCount[0] + 1 = COUNT
  BY OnlyZero DEF BarrierRelease, BTypeOK
<1>9. /\ currentCount[0] \in Nat /\ left[0] \in Nat /\ arrived[0] \in Nat
      /\ COUNT \in Nat /\ currentCount[0] < COUNT
  BY <1>6, OnlyZero, BarrierAssumption DEF BTypeOK, BooksInv
<1>10. PICK k \in 0..arrived[0] : arrived[0] = COUNT * k + currentCount[0]
  BY DEF BooksInv
<1>11. /\ k + 1 \in 0..arrived'[0]
       /\ arrived'[0] = COUNT * (k + 1) + currentCount'[0]
  <2>1. arrived[0] + 1 = COUNT * (k + 1) + 0
    BY <1>8, <1>9, <1>10, RoundComplete
  <2>2. QED
    BY <1>7, <1>8, <1>9, <1>10, <2>1
<1>12. left'[0] + Cardinality(Within') = arrived'[0]
  BY <1>4, <1>7, <1>9, PartiesFinite DEF BooksInv
<1>13. currentCount'[0] = Cardinality(Waiters') /\ currentCount'[0] < COUNT /\ COUNT # 0
  BY <1>5, <1>8, <1>9
<1>14. Waiters' \subseteq Listed(0)'
  BY <1>3
<1>15. QED
  BY <1>6, <1>7, <1>11, <1>12, <1>13, <1>14 DEF BooksInv

LEMMA LeaveBooks ==
    ASSUME OneBarrier, BTypeOK, PlacesInv, BooksInv, BarrierReturn \/ BarrierClear
    PROVE  BooksInv'
<1>1. ~BarrierSerial
  <2>1. cpu \in Exec /\ cpu'.at = "user"
    BY DEF BTypeOK, TypeOK, Exec, BarrierReturn, BarrierClear, Return, Goto
  <2>2. BarrierSerial => cpu'.at = "barrierClear"
    BY <2>1 DEF BarrierSerial, Goto, Exec
  <2>3. QED
    BY <2>1, <2>2
<1>2. Moves(cpu.of, "released", "outside") /\ cpu.on = 0
  BY <1>1, CheckPlaces
<1>3. /\ Within' = Within \ {cpu.of} /\ cpu.of \in Within
      /\ Waiters' = Waiters \ {cpu.of} /\ cpu.of \notin Waiters
  BY <1>2, MovesSets
<1>4. Waiters' = Waiters
  BY <1>3
<1>5. Cardinality(Within') = Cardinality(Within) - 1
  BY <1>3, PartiesFinite, FS_RemoveElement
<1>6. /\ left' = [left EXCEPT ![0] = @ + 1]
      /\ UNCHANGED <<currentCount, barrierThreadLists, arrived, barrierId>>
  BY <1>2 DEF BarrierReturn, BarrierClear, Return
<1>7. left'[0] = left[0] + 1 /\ left[0] \in Nat
  BY <1>6, OnlyZero DEF BTypeOK
<1>8. left'[0] + Cardinality(Within') = left[0] + Cardinality(Within)
  BY <1>5, <1>7, PartiesFinite
<1>9. Listed(0)' = Listed(0)
  BY <1>6 DEF Listed
<1>10. QED
  BY <1>4, <1>6, <1>8, <1>9 DEF BooksInv

LEMMA InitBooks ==
    ASSUME OneBarrier, BTypeOK, PlacesInv, BooksInv, BarrierInit
    PROVE  BooksInv'
<1>1. Within' = Within /\ Waiters' = Waiters
  BY BarrierInitPlaces, SameSets
<1>2. barrierId = 0 /\ barrierId' # 0 /\ COUNT # 0
  BY DEF BarrierInit, OneBarrier, BTypeOK
<1>3. currentCount'[0] = 0 /\ UNCHANGED <<arrived, left>>
  BY <1>2, OnlyZero DEF BarrierInit, BTypeOK
<1>4. arrived[0] = 0 /\ currentCount[0] = 0
  BY <1>2 DEF BooksInv
<1>5. Cardinality(Within) = 0
  BY <1>4, OnlyZero, PartiesFinite DEF BooksInv, BTypeOK
<1>6. Waiters = {} /\ Cardinality(Waiters) = 0
  BY <1>4, <1>5, PartiesFinite, FS_EmptySet DEF BooksInv
<1>7. currentCount'[0] < COUNT
  BY <1>2, <1>3, BarrierAssumption
<1>8. QED
  BY <1>1, <1>2, <1>3, <1>4, <1>6, <1>7 DEF BooksInv
----------------------------------------------------------------------------
(* The invariant. *)

BarrierInv == BTypeOK /\ PlacesInv /\ BooksInv

LEMMA BarrierStepKeeps ==
    ASSUME OneBarrier PROVE BarrierInv /\ [BNext]_barrierVars => BarrierInv'
<1> SUFFICES ASSUME BarrierInv, [BNext]_barrierVars PROVE BarrierInv'
  OBVIOUS
<1>1. BTypeOK /\ PlacesInv /\ BooksInv
  BY DEF BarrierInv
<1>2. BTypeOK'
  BY <1>1, BarrierType
<1>3. CASE [Next]_coreVars /\ UNCHANGED barrierState
  BY <1>1, <1>2, <1>3, CorePlaces, BooksKept DEF BarrierInv
<1>4. CASE BarrierInit
  BY <1>1, <1>2, <1>4, BarrierInitPlaces, InitBooks DEF BarrierInv
<1>5. CASE BarrierBlock(0)
  BY <1>1, <1>2, <1>5, BlockPlaces, BlockBooks DEF BarrierInv
<1>6. CASE BarrierRelease(0)
  <2>1. Waiters \subseteq Listed(0)
    BY <1>1 DEF BooksInv
  <2>2. QED
    BY <1>1, <1>2, <1>6, <2>1, ReleasePlaces, ReleaseBooks DEF BarrierInv
<1>7. CASE BarrierYield
  <2>1. UNCHANGED barrierState
    BY <1>7 DEF BarrierYield
  <2>2. QED
    BY <1>1, <1>2, <1>7, <2>1, YieldPlaces, BooksKept DEF BarrierInv
<1>8. CASE BarrierReturn \/ BarrierClear
  BY <1>1, <1>2, <1>8, CheckPlaces, LeaveBooks DEF BarrierInv
<1>9. CASE BarrierSerial
  <2>1. UNCHANGED barrierState
    BY <1>9 DEF BarrierSerial
  <2>2. QED
    BY <1>1, <1>2, <1>9, <2>1, CheckPlaces, BooksKept DEF BarrierInv
<1>10. CASE UNCHANGED barrierVars
  BY <1>1, <1>2, <1>10, CorePlaces, BooksKept DEF BarrierInv, barrierVars
<1>11. QED
  BY <1>3, <1>4, <1>5, <1>6, <1>7, <1>8, <1>9, <1>10, OnlyZero
     DEF BNext, Next, BarrierCall, BarrierWait, BarrierStep

LEMMA InitBarrier == ASSUME OneBarrier PROVE BInit => BarrierInv
<1> SUFFICES ASSUME BInit PROVE BarrierInv
  OBVIOUS
<1> USE DEF InBarrier
<1>1. BTypeOK
  BY InitBarrierType
<1>2. \A t \in Tids : status[t] = "EXITED" /\ buf[t] = Ctx(t, "unset", 0)
  BY DEF BInit, Init
<1>3. /\ cpu = Ctx(0, "user", 0) /\ topThread = 0 /\ currentThreadID = 0
      /\ numOfThreads = 0 /\ barrierId = 0
  BY DEF BInit, Init, BarrierInitial
<1>4. cpu.of = 0 /\ cpu.at = "user"
  BY <1>3 DEF Ctx
<1>5. \A t \in Tids : buf[t].of = t /\ buf[t].at = "unset"
  <2>1. \A t \in Tids : Ctx(t, "unset", 0).of = t /\ Ctx(t, "unset", 0).at = "unset"
    BY DEF Ctx
  <2>2. QED
    BY <1>2, <2>1
<1>6. RunnerInv /\ ContextsInv /\ CallersInv
  BY <1>2, <1>3, <1>4, <1>5, ZeroTid
     DEF RunnerInv, ContextsInv, CallersInv, NotSaved, Exiting
<1>7. CreatedInv
  BY <1>2, <1>3, <1>4, <1>5 DEF CreatedInv, Unused, Place
<1>8. currentCount[0] = 0 /\ arrived[0] = 0 /\ left[0] = 0 /\ barrierThreadLists[0] = <<>>
  BY OnlyZero DEF BInit, BarrierInitial
<1>9. DOMAIN barrierThreadLists[0] = {}
  BY <1>8
<1>10. ListedInv
  BY <1>9, OnlyZero DEF ListedInv, Listed
<1>11. \A t \in BarrierClients : Phase(t, 0) = "outside"
  BY <1>4, <1>5, BarrierAssumption DEF Phase, Inside, Place
<1>12. Within = {} /\ Waiters = {}
  BY <1>11, PhaseValues DEF Within, Waiters
<1>13. Cardinality(Within) = 0 /\ Cardinality(Waiters) = 0
  BY <1>12, FS_EmptySet, Zenon
<1>14. BooksInv
  BY <1>3, <1>8, <1>12, <1>13, BarrierAssumption DEF BooksInv
<1>15. QED
  BY <1>1, <1>6, <1>7, <1>10, <1>14 DEF BarrierInv, PlacesInv

LEMMA BarrierInvariant == ASSUME OneBarrier PROVE BSpec => []BarrierInv
BY InitBarrier, BarrierStepKeeps, PTL DEF BSpec
----------------------------------------------------------------------------
(* What the barrier promises. *)

LEMMA Remainder ==
    ASSUME NEW n \in Nat \ {0}, NEW k \in Nat, NEW r \in 0..(n - 1)
    PROVE  (n * k + r) % n = r
OBVIOUS

(* However the alarms fall, and however often the barrier is used, nobody  *)
(* gets out of pthread_barrier_wait before the count of the round is met   *)
(* (lines 360-396): of one barrier, used by threads other than main.       *)
THEOREM NobodyLeavesEarly == ASSUME OneBarrier PROVE BSpec => []BarrierHolds
<1>1. BarrierInv => BarrierHolds
  <2> SUFFICES ASSUME BarrierInv, COUNT # 0
               PROVE  left[0] <= arrived[0] - (arrived[0] % COUNT)
    BY OnlyZero DEF BarrierHolds
  <2>1. /\ currentCount[0] \in Nat /\ left[0] \in Nat /\ arrived[0] \in Nat
        /\ COUNT \in Nat \ {0}
    BY OnlyZero, BarrierAssumption DEF BarrierInv, BTypeOK
  <2>2. currentCount[0] \in 0..(COUNT - 1)
    BY <2>1 DEF BarrierInv, BooksInv
  <2>3. PICK k \in 0..arrived[0] : arrived[0] = COUNT * k + currentCount[0]
    BY DEF BarrierInv, BooksInv
  <2>4. arrived[0] % COUNT = currentCount[0]
    BY <2>1, <2>2, <2>3, Remainder
  <2>5. Cardinality(Waiters) <= Cardinality(Within)
    BY PartiesFinite, FS_Subset
  <2>6. /\ left[0] + Cardinality(Within) = arrived[0]
        /\ currentCount[0] = Cardinality(Waiters)
    BY DEF BarrierInv, BooksInv
  <2>7. QED
    BY <2>1, <2>4, <2>5, <2>6, PartiesFinite
<1>2. QED
  BY <1>1, BarrierInvariant, PTL

LEMMA SameCardinality == \A S : Abstract!Cardinality(S) = Cardinality(S)
BY DEF Abstract!Cardinality, Cardinality

LEMMA AbstractWaiting == Abstract!InPhase("waiting") = Waiters
BY Zenon DEF Abstract!InPhase, Waiters, Phases

LEMMA BlockImplements ==
    ASSUME OneBarrier, BarrierInv, BarrierBlock(0)
    PROVE  Abstract!Wait(cpu.of)
<1>1. BTypeOK /\ PlacesInv /\ BooksInv
  BY DEF BarrierInv
<1>2. Moves(cpu.of, "outside", "waiting")
  BY <1>1, BlockPlaces
<1>3. Phases[cpu.of] = "outside" /\ Phases' = [Phases EXCEPT ![cpu.of] = "waiting"]
  BY <1>2, MovesPhases
<1>4. currentCount[0] + 1 # COUNT /\ barrierId # 0
  BY DEF BarrierBlock, BarrierEnter
<1>5. Cardinality(Waiters) + 1 < COUNT
  BY <1>1, <1>4, PartiesFinite, BarrierAssumption DEF BooksInv
<1>6. Abstract!Cardinality(Abstract!InPhase("waiting")) + 1 < COUNT
  BY <1>5, SameCardinality, AbstractWaiting
<1>7. QED
  BY <1>3, <1>6, Zenon DEF Abstract!Wait, Phases

LEMMA ReleaseImplements ==
    ASSUME OneBarrier, BarrierInv, BarrierRelease(0)
    PROVE  Abstract!Release(cpu.of)
<1>1. BTypeOK /\ PlacesInv /\ BooksInv
  BY DEF BarrierInv
<1>2. Releases(cpu.of)
  <2>1. Waiters \subseteq Listed(0)
    BY <1>1 DEF BooksInv
  <2>2. QED
    BY <1>1, <2>1, ReleasePlaces
<1>3. /\ Phases[cpu.of] = "outside"
      /\ Phases' = [u \in BarrierClients |->
                        IF u = cpu.of \/ Phases[u] = "waiting" THEN "released"
                                                               ELSE Phases[u]]
  BY <1>2, ReleasesPhases
<1>4. currentCount[0] + 1 = COUNT
  BY DEF BarrierRelease
<1>5. Cardinality(Waiters) + 1 = COUNT
  BY <1>1, <1>4 DEF BooksInv
<1>6. Abstract!Cardinality(Abstract!InPhase("waiting")) + 1 = COUNT
  BY <1>5, SameCardinality, AbstractWaiting
<1>7. QED
  BY <1>3, <1>6, Zenon DEF Abstract!Release, Phases

LEMMA LeaveImplements ==
    ASSUME OneBarrier, BarrierInv, BarrierReturn \/ BarrierClear
    PROVE  Abstract!Leave(cpu.of)
<1>1. BTypeOK /\ PlacesInv
  BY DEF BarrierInv
<1>2. ~BarrierSerial
  <2>1. cpu \in Exec /\ cpu'.at = "user"
    BY <1>1 DEF BTypeOK, TypeOK, Exec, BarrierReturn, BarrierClear, Return, Goto
  <2>2. BarrierSerial => cpu'.at = "barrierClear"
    BY <2>1 DEF BarrierSerial, Goto, Exec
  <2>3. QED
    BY <2>1, <2>2
<1>3. Moves(cpu.of, "released", "outside")
  BY <1>1, <1>2, CheckPlaces
<1>4. Phases[cpu.of] = "released" /\ Phases' = [Phases EXCEPT ![cpu.of] = "outside"]
  BY <1>3, MovesPhases
<1>5. QED
  BY <1>4, Zenon DEF Abstract!Leave, Phases

LEMMA StepImplements ==
    ASSUME OneBarrier
    PROVE  BarrierInv /\ [BNext]_barrierVars => Abstract!Next \/ UNCHANGED Phases
<1> SUFFICES ASSUME BarrierInv, [BNext]_barrierVars
             PROVE  Abstract!Next \/ UNCHANGED Phases
  OBVIOUS
<1>1. BTypeOK /\ PlacesInv /\ BooksInv
  BY DEF BarrierInv
<1>2. cpu.of \in BarrierClients /\ Abstract!Wait(cpu.of) => Abstract!Next
  BY Zenon DEF Abstract!Next
<1>3. cpu.of \in BarrierClients /\ Abstract!Release(cpu.of) => Abstract!Next
  BY Zenon DEF Abstract!Next
<1>4. cpu.of \in BarrierClients /\ Abstract!Leave(cpu.of) => Abstract!Next
  BY Zenon DEF Abstract!Next
<1>5. CASE [Next]_coreVars /\ UNCHANGED barrierState
  BY <1>1, <1>5, CorePlaces, SameSets
<1>6. CASE BarrierInit
  BY <1>1, <1>6, BarrierInitPlaces, SameSets
<1>7. CASE BarrierBlock(0)
  <2>1. cpu.of \in BarrierClients
    BY <1>7 DEF BarrierBlock, BarrierEnter
  <2>2. QED
    BY <1>2, <1>7, <2>1, BlockImplements
<1>8. CASE BarrierRelease(0)
  <2>1. cpu.of \in BarrierClients
    BY <1>8 DEF BarrierRelease, BarrierEnter
  <2>2. QED
    BY <1>3, <1>8, <2>1, ReleaseImplements
<1>9. CASE BarrierYield
  BY <1>1, <1>9, YieldPlaces, SameSets
<1>10. CASE BarrierReturn \/ BarrierClear
  <2>1. cpu.of \in BarrierClients
    BY <1>1, <1>10, CheckPlaces
  <2>2. QED
    BY <1>4, <1>10, <2>1, LeaveImplements
<1>11. CASE BarrierSerial
  BY <1>1, <1>11, CheckPlaces, SameSets
<1>12. CASE UNCHANGED barrierVars
  BY <1>1, <1>12, CorePlaces, SameSets DEF barrierVars
<1>13. QED
  BY <1>5, <1>6, <1>7, <1>8, <1>9, <1>10, <1>11, <1>12, OnlyZero
     DEF BNext, Next, BarrierCall, BarrierWait, BarrierStep

(* The barrier implements the abstract one, step by step, for every count  *)
(* and every number of threads: who arrives waits until the count is met,  *)
(* and then those of the round, and nobody else, are released together.    *)
THEOREM BarrierIsImplemented == ASSUME OneBarrier PROVE BSpec => ImplementsBarrier
<1>1. BInit => Abstract!Init
  <2> SUFFICES ASSUME BInit PROVE Abstract!Init
    OBVIOUS
  <2>1. /\ \A t \in BarrierClients : buf[t] = Ctx(t, "unset", 0)
        /\ cpu = Ctx(0, "user", 0)
    BY BarrierAssumption DEF BInit, Init
  <2>2. \A t \in BarrierClients : Place(t).at \in {"user", "unset"}
    <3>1. /\ Ctx(0, "user", 0).at = "user"
          /\ \A t \in BarrierClients : Ctx(t, "unset", 0).at = "unset"
      BY DEF Ctx
    <3>2. QED
      BY <2>1, <3>1 DEF Place
  <2>3. \A t \in BarrierClients : Phase(t, 0) = "outside"
    BY <2>2 DEF Phase, Inside
  <2>4. QED
    BY <2>3 DEF Abstract!Init
<1>2. BarrierInv /\ [BNext]_barrierVars => [Abstract!Next]_[t \in BarrierClients |-> Phase(t, 0)]
  BY StepImplements, Zenon DEF Phases
<1>3. QED
  BY <1>1, <1>2, BarrierInvariant, PTL DEF BSpec, ImplementsBarrier, Abstract!Spec
=============================================================================
