---------------------------- MODULE ThreadsMutex ----------------------------
(***************************************************************************)
(* The mutexes of Challenge2/threads.c on top of its scheduler.            *)
(*                                                                         *)
(* A mutex is known by its __data.__count, the index pthread_mutex_init    *)
(* gave it.  The code between lock() and unlock() runs with the timer off  *)
(* and is one action; unlock() always arms the timer, for a full interval, *)
(* whether or not it was armed before and whether or not pthread_create    *)
(* has installed the handler.                                              *)
(*                                                                         *)
(* The program is taken to unlock only what it holds and not to lock what  *)
(* it holds; it may exit holding a mutex (ch3Tests/mutexTest.c does).      *)
(***************************************************************************)
EXTENDS Threads, Sequences

CONSTANT MUTEX_LIMIT    \* bound: calls of pthread_mutex_init

ASSUME MutexAssumption == MUTEX_LIMIT \in 0..MAX_THREADS

VARIABLES
    mutexId,            \* pthread_mutex_init's static id
    __lock,             \* 1: may be claimed, 0: claimed
    __owner,
    mutexThreadLists,   \* the waiting threads, first come first
    held                \* the mutexes a thread's lock calls have returned for

mutexState == <<mutexId, __lock, __owner, mutexThreadLists, held>>
mutexVars  == <<coreVars, mutexState>>

Mutexes == 0..(MUTEX_LIMIT - 1)
NoOwner == 149311

MutexInitial ==
    /\ mutexId = 0
    /\ __lock = [m \in Mutexes |-> 0]
    /\ __owner = [m \in Mutexes |-> 0]
    /\ mutexThreadLists = [m \in Mutexes |-> <<>>]
    /\ held = [t \in Tids |-> {}]

Queued(m) == {mutexThreadLists[m][i] : i \in DOMAIN mutexThreadLists[m]}
----------------------------------------------------------------------------
(* Only the threads that call pthread_create set up mutexes.  The static   *)
(* id is read and increased unprotected, so this is one action only where  *)
(* Creators has one member.                                                *)
MutexInit ==
    /\ At("user")
    /\ cpu.of \in Creators
    /\ mutexId < MUTEX_LIMIT
    /\ __lock' = [__lock EXCEPT ![mutexId] = 1]
    /\ mutexThreadLists' = [mutexThreadLists EXCEPT ![mutexId] = <<>>]
    /\ mutexId' = mutexId + 1
    /\ UNCHANGED <<coreVars, __owner, held>>

(* A slip: the lock is not marked as claimed. *)
MutexClaimOpen(m) ==
    /\ At("user")
    /\ m < mutexId
    /\ m \notin held[cpu.of]
    /\ __lock[m] = 1
    /\ __owner' = [__owner EXCEPT ![m] = currentThreadID]
    /\ held' = [held EXCEPT ![cpu.of] = @ \cup {m}]
    /\ alarm' = TRUE
    /\ UNCHANGED <<status, buf, topThread, currentThreadID, numOfThreads,
                   exitedThreads, is_first_call, cpu, process, mutexId,
                   __lock, mutexThreadLists>>

(* pthread_mutex_lock of a mutex nobody has claimed. *)
MutexClaim(m) ==
    /\ At("user")
    /\ m < mutexId
    /\ m \notin held[cpu.of]
    /\ __lock[m] = 1
    /\ __lock' = [__lock EXCEPT ![m] = 0]
    /\ __owner' = [__owner EXCEPT ![m] = currentThreadID]
    /\ held' = [held EXCEPT ![cpu.of] = @ \cup {m}]
    /\ alarm' = TRUE
    /\ UNCHANGED <<status, buf, topThread, currentThreadID, numOfThreads,
                   exitedThreads, is_first_call, cpu, process, mutexId,
                   mutexThreadLists>>

(* pthread_mutex_lock of a claimed one: block, queue up, and on the way to *)
(* schedule(14) with the timer running again.                              *)
MutexEnqueue(m) ==
    /\ At("user")
    /\ m < mutexId
    /\ m \notin held[cpu.of]
    /\ __lock[m] = 0
    /\ status' = [status EXCEPT ![currentThreadID] = "BLOCKED"]
    /\ mutexThreadLists' =
            [mutexThreadLists EXCEPT ![m] = Append(@, currentThreadID)]
    /\ cpu' = Ctx(cpu.of, "mutexYield", m)
    /\ alarm' = TRUE
    /\ UNCHANGED <<buf, topThread, currentThreadID, numOfThreads,
                   exitedThreads, is_first_call, process, mutexId, __lock,
                   __owner, held>>

MutexLock(m) == MutexClaim(m) \/ MutexEnqueue(m)

MutexYield ==
    /\ At("mutexYield")
    /\ Schedule([cpu EXCEPT !.at = "mutexReturn"])
    /\ UNCHANGED <<numOfThreads, exitedThreads, alarm, is_first_call,
                   mutexState>>

(* Being resumed is all it takes: the lock is not looked at again. *)
MutexReturn ==
    /\ At("mutexReturn")
    /\ held' = [held EXCEPT ![cpu.of] = @ \cup {cpu.on}]
    /\ Goto("user")
    /\ UNCHANGED <<status, buf, topThread, currentThreadID, numOfThreads,
                   exitedThreads, alarm, is_first_call, process, mutexId,
                   __lock, __owner, mutexThreadLists>>

(* Nobody waits: __lock stays 0, so nobody will claim the mutex again. *)
MutexRelease(m) ==
    /\ At("user")
    /\ m \in held[cpu.of]
    /\ mutexThreadLists[m] = <<>>
    /\ __lock' = [__lock EXCEPT ![m] = 0]
    /\ __owner' = [__owner EXCEPT ![m] = NoOwner]
    /\ held' = [held EXCEPT ![cpu.of] = @ \ {m}]
    /\ alarm' = TRUE
    /\ UNCHANGED <<status, buf, topThread, currentThreadID, numOfThreads,
                   exitedThreads, is_first_call, cpu, process, mutexId,
                   mutexThreadLists>>

(* A slip: the woken waiter stays at the head of the list. *)
MutexHandOverKept(m) ==
    /\ At("user")
    /\ m \in held[cpu.of]
    /\ mutexThreadLists[m] # <<>>
    /\ status' = [status EXCEPT ![Head(mutexThreadLists[m])] = "READY"]
    /\ held' = [held EXCEPT ![cpu.of] = @ \ {m}]
    /\ alarm' = TRUE
    /\ UNCHANGED <<buf, topThread, currentThreadID, numOfThreads,
                   exitedThreads, is_first_call, cpu, process, mutexId,
                   __lock, __owner, mutexThreadLists>>

(* A slip: the lock is opened as well as handed to the first waiter. *)
MutexHandOverOpen(m) ==
    /\ At("user")
    /\ m \in held[cpu.of]
    /\ mutexThreadLists[m] # <<>>
    /\ status' = [status EXCEPT ![Head(mutexThreadLists[m])] = "READY"]
    /\ mutexThreadLists' = [mutexThreadLists EXCEPT ![m] = Tail(@)]
    /\ __lock' = [__lock EXCEPT ![m] = 1]
    /\ held' = [held EXCEPT ![cpu.of] = @ \ {m}]
    /\ alarm' = TRUE
    /\ UNCHANGED <<buf, topThread, currentThreadID, numOfThreads,
                   exitedThreads, is_first_call, cpu, process, mutexId,
                   __owner>>

(* A slip: the last waiter is woken instead of the first. *)
MutexHandOverLast(m) ==
    LET waiters == mutexThreadLists[m]
    IN  /\ At("user")
        /\ m \in held[cpu.of]
        /\ waiters # <<>>
        /\ status' = [status EXCEPT ![waiters[Len(waiters)]] = "READY"]
        /\ mutexThreadLists' = [mutexThreadLists EXCEPT
                                    ![m] = SubSeq(@, 1, Len(@) - 1)]
        /\ held' = [held EXCEPT ![cpu.of] = @ \ {m}]
        /\ alarm' = TRUE
        /\ UNCHANGED <<buf, topThread, currentThreadID, numOfThreads,
                       exitedThreads, is_first_call, cpu, process, mutexId,
                       __lock, __owner>>

(* The first waiter is woken and has the lock; __owner is not updated. *)
MutexHandOver(m) ==
    /\ At("user")
    /\ m \in held[cpu.of]
    /\ mutexThreadLists[m] # <<>>
    /\ status' = [status EXCEPT ![Head(mutexThreadLists[m])] = "READY"]
    /\ mutexThreadLists' = [mutexThreadLists EXCEPT ![m] = Tail(@)]
    /\ held' = [held EXCEPT ![cpu.of] = @ \ {m}]
    /\ alarm' = TRUE
    /\ UNCHANGED <<buf, topThread, currentThreadID, numOfThreads,
                   exitedThreads, is_first_call, cpu, process, mutexId,
                   __lock, __owner>>

MutexUnlock(m) == MutexRelease(m) \/ MutexHandOver(m)

(* The program's calls, and the rest of a call once begun. *)
MutexCall == \E m \in Mutexes : MutexLock(m) \/ MutexUnlock(m)
MutexStep == MutexYield \/ MutexReturn
----------------------------------------------------------------------------
MInit == Init /\ MutexInitial

MNext ==
    \/ (CreateCount \/ ExitMark \/ CoreStep \/ Alarm \/ Halted)
            /\ UNCHANGED mutexState
    \/ MutexInit
    \/ MutexCall
    \/ MutexStep

MSpec == MInit /\ [][MNext]_mutexVars

(* A call of lock() and unlock() starts the 50 ms interval anew, so all    *)
(* that the timer guarantees is: it expires or is restarted.  A thread     *)
(* that keeps getting the processor gets on with its library call, and     *)
(* one that holds a mutex and keeps getting it unlocks.                    *)
MFairSpec ==
    /\ MSpec
    /\ WF_mutexVars((Alarm /\ UNCHANGED mutexState) \/ MutexCall)
    /\ \A t \in Tids :
        /\ SF_mutexVars(/\ cpu.of = t
                        /\ \/ CoreStep /\ UNCHANGED mutexState
                           \/ MutexStep)
        /\ \A m \in Mutexes : SF_mutexVars(cpu.of = t /\ MutexUnlock(m))
----------------------------------------------------------------------------
MTypeOK ==
    /\ TypeOK
    /\ mutexId \in 0..MUTEX_LIMIT
    /\ __lock \in [Mutexes -> {0, 1}]
    /\ __owner \in [Mutexes -> Tids \cup {NoOwner}]
    /\ mutexThreadLists \in [Mutexes -> Seq(Tids)]
    /\ held \in [Tids -> SUBSET Mutexes]

(* t is inside pthread_mutex_lock(m), past the test of the lock. *)
WaitPoints == {"mutexYield", "mutexReturn"}
Waiting(t, m) == Place(t).at \in WaitPoints /\ Place(t).on = m

(* t has m or has been handed it: nothing more stands between t and the    *)
(* critical section than being scheduled.                                  *)
Granted(t, m) ==
    /\ status[t] # "EXITED" \/ is_first_call
    /\ m \in held[t] \/ (Waiting(t, m) /\ status[t] # "BLOCKED")

(* README: mutexes protect critical data regions.  No two threads that     *)
(* have not exited are in a critical section of the same mutex, though the *)
(* hand-over of lines 290-301 never touches __lock and the woken thread    *)
(* never looks at it.                                                      *)
MutualExclusion ==
    \A t, u \in Tids, m \in Mutexes :
        t # u /\ Granted(t, m) /\ Granted(u, m) => process # "running"

(* Nobody overtakes: while threads queue for a mutex it cannot be claimed  *)
(* by a newcomer (lines 229, 238-263 against 283).                         *)
NoBarging ==
    \A m \in Mutexes : mutexThreadLists[m] # <<>> => __lock[m] = 0

(* What mutual exclusion rests on, in the parts its proof needs.           *)

(* Blocked and still executing: between unlock() and schedule(14), of a    *)
(* mutex or, in the library as a whole, of a barrier.                      *)
BlockedInv ==
    Running /\ status[cpu.of] = "BLOCKED"
        => cpu.at \in {"mutexYield", "barrierYield"}

(* Nobody waits for or holds a mutex before it is set up, and no thread    *)
(* does before it has run.                                                 *)
UnbornInv ==
    Running =>
        /\ \A m \in Mutexes : m >= mutexId =>
                mutexThreadLists[m] = <<>> /\ \A t \in Tids : m \notin held[t]
        /\ \A t \in Tids : Place(t).at \in WaitPoints => Place(t).on < mutexId
        /\ \A t \in Tids \ {0} : buf[t].at = "unset" => held[t] = {}
        /\ cpu.at = "starting" => \A t \in Tids \ {0} :
                held[t] = {} /\ Place(t).at \notin WaitPoints

(* A mutex that somebody has, or waits for, is closed to newcomers.        *)
ClosedInv ==
    Running =>
        \A m \in Mutexes :
            \/ mutexThreadLists[m] # <<>>
            \/ \E t \in Tids : Waiting(t, m) \/ m \in held[t]
            => __lock[m] = 0

(* Main after the jump of line 494: it may still be queued for the mutex   *)
(* it was waiting for, which it now takes itself to have; and the next     *)
(* alarm, with topThread left behind, loses its context for good.          *)
MainForced(m) ==
    /\ m \in held[0] \/ Granted(0, m)
    /\ \A u \in Tids \ {0} : ~Granted(u, m)

MainLost == cpu.of # 0 /\ buf[0].at \in NotSaved /\ status[0] # "EXITED"

(* A thread is queued at most once for a mutex, and it is blocked waiting  *)
(* for it; or it is main after the jump.                                   *)
QueueInv ==
    Running =>
        \A m \in Mutexes : \A i \in DOMAIN mutexThreadLists[m] :
            LET t == mutexThreadLists[m][i]
            IN  /\ \A j \in DOMAIN mutexThreadLists[m] :
                        mutexThreadLists[m][j] = t => i = j
                /\ \/ Waiting(t, m) /\ status[t] = "BLOCKED"
                   \/ t = 0 /\ ~is_first_call /\ MainLost
                   \/ t = 0 /\ ~is_first_call /\ i = 1 /\ MainForced(m)

MutexInv ==
    /\ CoreInv
    /\ BlockedInv
    /\ UnbornInv
    /\ ClosedInv
    /\ QueueInv
    /\ MutualExclusion

(* A blocked worker is in exactly one list, once, so exactly one unlock    *)
(* wakes it; a thread in two places would be woken while it waits for      *)
(* another mutex.  Main may be in two: the jump of line 494 leaves it      *)
(* queued while it goes on.                                                *)
BlockedQueuedOnce ==
    process = "running" =>
        \A t \in Tids \ {0} : status[t] = "BLOCKED" =>
            Cardinality({p \in Mutexes \X (1..MAX_THREADS) :
                            /\ p[2] \in DOMAIN mutexThreadLists[p[1]]
                            /\ mutexThreadLists[p[1]][p[2]] = t}) = 1

(* No lost wake-up: while threads queue, some thread has the mutex and     *)
(* will unlock it, or exited with it; unless an earlier unlock that found  *)
(* nobody waiting left the lock closed for good (__owner = NoOwner).       *)
NoLostWakeup ==
    process = "running" =>
        \A m \in Mutexes :
            mutexThreadLists[m] # <<>> /\ __owner[m] # NoOwner =>
                \E t \in Tids : Granted(t, m) \/ m \in held[t]

(* A queued thread gets the mutex, first come first served, unless its     *)
(* holder exits with it or an earlier uncontended unlock left it closed.   *)
QueuedGetsMutex ==
    \A t \in Tids, m \in Mutexes :
        t \in Queued(m) /\ __owner[m] # NoOwner ~>
            \/ m \in held[t]
            \/ process # "running"
            \/ \E u \in Tids : m \in held[u] /\ status[u] = "EXITED"

(* README: a thread runs for 50 ms, then the next available one runs.      *)
(* Every lock or unlock restarts the 50 ms, yet no thread can hold on to   *)
(* the processor that way: it can lock a mutex again only after another    *)
(* thread has handed it over (line 283 closes it otherwise).               *)
MutexRoundRobin ==
    \A t \in Tids :
        status[t] = "READY" ~> currentThreadID = t \/ process # "running"

(* What the comments of lines 199 and 285 say: __lock tells whether the    *)
(* mutex has been claimed, and after an unlock that finds nobody waiting   *)
(* it has no owner.  Line 283 stores 0, which is "claimed".                *)
FreeWhenUnowned ==
    \A m \in Mutexes : __owner[m] = NoOwner => __lock[m] = 1

(* What the README says of a mutex that is initialised, locked and         *)
(* unlocked: nothing about having created a thread before.  unlock() arms  *)
(* the timer while SIGALRM still has its default action.                   *)
NotKilled == process # "killed"

=============================================================================
