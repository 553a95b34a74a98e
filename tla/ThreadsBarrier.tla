--------------------------- MODULE ThreadsBarrier ---------------------------
(***************************************************************************)
(* The barriers of Challenge2/threads.c on top of its scheduler.           *)
(*                                                                         *)
(* A barrier is known by its __align, the index pthread_barrier_init gave  *)
(* it.  The first half of pthread_barrier_wait runs between lock() and     *)
(* unlock(), with the timer off, and is one action; the second half, which *)
(* decides who is the serial thread, runs with the timer on.               *)
(***************************************************************************)
EXTENDS Threads, Sequences

CONSTANTS
    BARRIER_LIMIT,  \* bound: calls of pthread_barrier_init
    COUNT,          \* the count those calls pass: barrierCounts[].maxCount
    WAIT_LIMIT,     \* bound: calls of pthread_barrier_wait on each barrier
    BarrierClients  \* the threads that call pthread_barrier_wait

ASSUME BarrierAssumption ==
    /\ BARRIER_LIMIT \in 0..MAX_THREADS
    /\ COUNT \in Nat
    /\ WAIT_LIMIT \in Nat
    /\ BarrierClients \subseteq Tids

VARIABLES
    barrierId,          \* pthread_barrier_init's static id
    currentCount,
    printSerialThread,
    barrierThreadLists,
    arrived,            \* history: calls of pthread_barrier_wait,
    left,               \* those that have returned,
    serials             \* and those that returned SERIAL_THREAD

barrierState == <<barrierId, currentCount, printSerialThread,
                  barrierThreadLists, arrived, left, serials>>
barrierVars  == <<coreVars, barrierState>>

Barriers == 0..(BARRIER_LIMIT - 1)

BarrierInitial ==
    /\ barrierId = 0
    /\ currentCount = [b \in Barriers |-> 0]
    /\ printSerialThread = [b \in Barriers |-> FALSE]
    /\ barrierThreadLists = [b \in Barriers |-> <<>>]
    /\ arrived = [b \in Barriers |-> 0]
    /\ left = [b \in Barriers |-> 0]
    /\ serials = [b \in Barriers |-> 0]
----------------------------------------------------------------------------
(* With count 0 the call returns EINVAL and changes nothing.  As for       *)
(* mutexes, only the thread that creates the others sets up barriers.      *)
BarrierInit ==
    /\ At("user")
    /\ cpu.of \in Creators
    /\ COUNT # 0
    /\ barrierId < BARRIER_LIMIT
    /\ currentCount' = [currentCount EXCEPT ![barrierId] = 0]
    /\ printSerialThread' = [printSerialThread EXCEPT ![barrierId] = TRUE]
    /\ barrierThreadLists' = [barrierThreadLists EXCEPT ![barrierId] = <<>>]
    /\ barrierId' = barrierId + 1
    /\ UNCHANGED <<coreVars, arrived, left, serials>>

(* A slip: line 356 clears the flag instead of setting it. *)
BarrierEnterCleared(b) ==
    /\ At("user")
    /\ cpu.of \in BarrierClients
    /\ b < barrierId
    /\ arrived[b] < WAIT_LIMIT
    /\ arrived' = [arrived EXCEPT ![b] = @ + 1]
    /\ printSerialThread' = [printSerialThread EXCEPT ![b] = FALSE]
    /\ alarm' = TRUE
    /\ UNCHANGED <<buf, topThread, currentThreadID, numOfThreads,
                   exitedThreads, is_first_call, process, barrierId, left,
                   serials>>

(* What both halves of the if of line 360 begin with. *)
BarrierEnter(b) ==
    /\ At("user")
    /\ cpu.of \in BarrierClients
    /\ b < barrierId
    /\ arrived[b] < WAIT_LIMIT
    /\ arrived' = [arrived EXCEPT ![b] = @ + 1]
    /\ printSerialThread' = [printSerialThread EXCEPT ![b] = TRUE]
    /\ alarm' = TRUE
    /\ UNCHANGED <<buf, topThread, currentThreadID, numOfThreads,
                   exitedThreads, is_first_call, process, barrierId, left,
                   serials>>

BarrierBlock(b) ==
    /\ BarrierEnter(b)
    /\ currentCount[b] + 1 # COUNT
    /\ currentCount' = [currentCount EXCEPT ![b] = @ + 1]
    /\ status' = [status EXCEPT ![currentThreadID] = "BLOCKED"]
    /\ barrierThreadLists' =
            [barrierThreadLists EXCEPT ![b] = Append(@, currentThreadID)]
    /\ cpu' = Ctx(cpu.of, "barrierYield", b)

Listed(b) == {barrierThreadLists[b][i] : i \in DOMAIN barrierThreadLists[b]}

(* A slip: the last to arrive goes on without resetting the count. *)
BarrierReleaseCounting(b) ==
    /\ BarrierEnter(b)
    /\ currentCount[b] + 1 = COUNT
    /\ status' = [t \in Tids |->
                    IF t \in Listed(b) THEN "READY" ELSE status[t]]
    /\ currentCount' = [currentCount EXCEPT ![b] = @ + 1]
    /\ cpu' = Ctx(cpu.of, "barrierCheck", b)
    /\ UNCHANGED barrierThreadLists

(* A slip: the walk along the list stops before its last node. *)
BarrierReleaseButLast(b) ==
    /\ BarrierEnter(b)
    /\ currentCount[b] + 1 = COUNT
    /\ currentCount' = [currentCount EXCEPT ![b] = 0]
    /\ LET list == barrierThreadLists[b]
       IN  status' = [t \in Tids |->
                        IF \E i \in 1..(Len(list) - 1) : list[i] = t
                        THEN "READY" ELSE status[t]]
    /\ cpu' = Ctx(cpu.of, "barrierCheck", b)
    /\ UNCHANGED barrierThreadLists

(* The last one in wakes all in the list, which is not emptied. *)
BarrierRelease(b) ==
    /\ BarrierEnter(b)
    /\ currentCount[b] + 1 = COUNT
    /\ currentCount' = [currentCount EXCEPT ![b] = 0]
    /\ status' = [t \in Tids |->
                    IF t \in Listed(b) THEN "READY" ELSE status[t]]
    /\ cpu' = Ctx(cpu.of, "barrierCheck", b)
    /\ UNCHANGED barrierThreadLists

BarrierWait(b) == BarrierBlock(b) \/ BarrierRelease(b)

BarrierYield ==
    /\ At("barrierYield")
    /\ Schedule([cpu EXCEPT !.at = "barrierCheck"])
    /\ UNCHANGED <<numOfThreads, exitedThreads, alarm, is_first_call,
                   barrierState>>

Return(b) ==
    /\ left' = [left EXCEPT ![b] = @ + 1]
    /\ Goto("user")
    /\ UNCHANGED <<status, buf, topThread, currentThreadID, numOfThreads,
                   exitedThreads, alarm, is_first_call, process, barrierId,
                   currentCount, barrierThreadLists, arrived>>

(* Line 404 finds the flag cleared. *)
BarrierReturn ==
    /\ At("barrierCheck")
    /\ ~printSerialThread[cpu.on]
    /\ Return(cpu.on)
    /\ UNCHANGED <<printSerialThread, serials>>

(* Line 404 finds it set; line 406, a preemption later maybe, clears it. *)
BarrierSerial ==
    /\ At("barrierCheck")
    /\ printSerialThread[cpu.on]
    /\ Goto("barrierClear")
    /\ UNCHANGED <<status, buf, topThread, currentThreadID, numOfThreads,
                   exitedThreads, alarm, is_first_call, process,
                   barrierState>>

BarrierClear ==
    /\ At("barrierClear")
    /\ printSerialThread' = [printSerialThread EXCEPT ![cpu.on] = FALSE]
    /\ serials' = [serials EXCEPT ![cpu.on] = @ + 1]
    /\ Return(cpu.on)

BarrierCall == \E b \in Barriers : BarrierWait(b)
BarrierStep == BarrierYield \/ BarrierReturn \/ BarrierSerial \/ BarrierClear
----------------------------------------------------------------------------
BInit == Init /\ BarrierInitial

BNext ==
    \/ (CreateCount \/ ExitMark \/ CoreStep \/ Alarm \/ Halted)
            /\ UNCHANGED barrierState
    \/ BarrierInit
    \/ BarrierCall
    \/ BarrierStep

BSpec == BInit /\ [][BNext]_barrierVars

(* pthread_barrier_wait restarts the timer: it expires or is restarted,    *)
(* and WAIT_LIMIT bounds the restarts.                                     *)
BFairSpec ==
    /\ BSpec
    /\ WF_barrierVars((Alarm /\ UNCHANGED barrierState) \/ BarrierCall)
    /\ \A t \in Tids :
        SF_barrierVars(/\ cpu.of = t
                       /\ \/ CoreStep /\ UNCHANGED barrierState
                          \/ BarrierStep)
----------------------------------------------------------------------------
(* Between two calls fewer threads are counted than a round takes: line    *)
(* 360 asks for equality, and a count that got past COUNT, or stayed at    *)
(* it, would let nobody out any more.                                      *)
BTypeOK ==
    /\ TypeOK
    /\ barrierId \in 0..BARRIER_LIMIT
    /\ barrierId > 0 => COUNT > 0
    /\ currentCount \in [Barriers -> Nat]
    /\ \A b \in 0..(barrierId - 1) : currentCount[b] < COUNT
    /\ printSerialThread \in [Barriers -> BOOLEAN]
    /\ barrierThreadLists \in [Barriers -> Seq(Tids)]
    /\ arrived \in [Barriers -> 0..WAIT_LIMIT]
    /\ left \in [Barriers -> Nat]
    /\ serials \in [Barriers -> Nat]

(* README: pthread_barrier_wait blocks all waiting threads until the count *)
(* is met.  However the alarms fall, no more calls have returned than have *)
(* been made in complete rounds.                                           *)
BarrierHolds ==
    COUNT # 0 => \A b \in Barriers : left[b] <= arrived[b] - (arrived[b] % COUNT)

(* A complete first round has its serial thread: the flag that line 356    *)
(* sets and 406 clears is not cleared by everyone before someone sees it.  *)
FirstRoundHasSerial ==
    \A b \in Barriers :
        COUNT # 0 /\ arrived[b] = COUNT /\ left[b] = COUNT => serials[b] > 0

(* The comment of line 404: SERIAL_THREAD is returned once per barrier     *)
(* exit.  The test of line 404 and the reset of line 406 can be parted by  *)
(* an alarm.                                                               *)
SerialOnce ==
    COUNT # 0 => \A b \in Barriers : serials[b] <= arrived[b] \div COUNT

(* When the count is met the threads of the round get out of the barrier.  *)
RoundLeaves ==
    \A b \in Barriers :
        COUNT # 0 /\ arrived[b] >= COUNT
            ~> left[b] >= COUNT \/ process # "running"

(* A barrier, as its clients see it: a blocked thread in the call waits,   *)
(* any other thread in the call has been released.                         *)
Inside(t, b) == /\ Place(t).at \in {"barrierYield", "barrierCheck", "barrierClear"}
                /\ Place(t).on = b
Phase(t, b) == IF ~Inside(t, b) THEN "outside"
               ELSE IF status[t] = "BLOCKED" THEN "waiting" ELSE "released"

Abstract == INSTANCE AbstractBarrier
    WITH Parties <- BarrierClients,
         N <- COUNT,
         phase <- [t \in BarrierClients |-> Phase(t, 0)]

(* Barrier 0 implements the abstract one:   the COUNT threads of a round   *)
(* are released together and by the last of them, and nothing else, no     *)
(* alarm and no exit, releases anybody.                                    *)
ImplementsBarrier == Abstract!Spec

=============================================================================
