------------------------------ MODULE Threads ------------------------------
(***************************************************************************)
(* The core of Challenge2/threads.c: pthread_create, pthread_exit and the  *)
(* round-robin scheduler that a periodic SIGALRM runs.                     *)
(*                                                                         *)
(* One processor executes one context at a time.  A context is where a     *)
(* thread is inside the library ("user" is the program's own code); setjmp *)
(* stores the executing context in tcbList[topThread].buf, longjmp brings  *)
(* a stored one back.  The alarm may fire between any two actions, so an   *)
(* action is the code between two points at which a preemption matters.    *)
(* schedule() itself is one action.                                        *)
(***************************************************************************)
EXTENDS Integers, FiniteSets

CONSTANTS
    MAX_THREADS,    \* entries of tcbList; entry 0 is the main thread
    CREATE_LIMIT,   \* bound: calls of pthread_create the program makes
    Creators        \* the threads whose code calls pthread_create

ASSUME ThreadsAssumption ==
    /\ MAX_THREADS \in Nat \ {0}
    /\ CREATE_LIMIT \in 0..MAX_THREADS
    /\ Creators \subseteq 0..(MAX_THREADS - 1)

VARIABLES
    status,             \* tcbList[t].status
    buf,                \* tcbList[t].buf
    topThread,          \* schedule()'s static index
    currentThreadID,
    numOfThreads,
    exitedThreads,
    alarm,              \* is the ualarm timer armed?
    is_first_call,      \* also: the SIGALRM handler is not installed yet
    cpu,                \* the executing context
    process             \* "running", or how the process came to a halt

coreVars == <<status, buf, topThread, currentThreadID, numOfThreads,
              exitedThreads, alarm, is_first_call, cpu, process>>

Tids     == 0..(MAX_THREADS - 1)
Status   == {"EXITED", "RUNNING", "READY", "BLOCKED"}
Stopped  == {"EXITED", "BLOCKED"}       \* what the scheduler's scan skips
NotSaved == {"unset", "dead"}           \* no setjmp yet; resumed since the last
CodePoints ==
    {"user", "creating", "starting", "exiting", "exited", "fellThrough",
     "mutexYield", "mutexReturn",
     "barrierYield", "barrierCheck", "barrierClear"}

(* A halted process: exit(0); SIGALRM's default action; the scheduler's    *)
(* scan finding nobody; a longjmp to a context that has returned; an       *)
(* access behind the end of tcbList.                                       *)
Halts == {"exited", "killed", "spinning", "stale", "overrun"}

Context == [of : Tids, at : CodePoints \cup NotSaved, on : Nat]
Ctx(t, at, on) == [of |-> t, at |-> at, on |-> on]

(* tcbList is zeroed memory, and TS_EXITED is 0: every entry, main's too,  *)
(* reads "EXITED" until pthread_create or scheduler_init fills it in.      *)
Init ==
    /\ status = [t \in Tids |-> "EXITED"]
    /\ buf = [t \in Tids |-> Ctx(t, "unset", 0)]
    /\ topThread = 0
    /\ currentThreadID = 0
    /\ numOfThreads = 0
    /\ exitedThreads = 0
    /\ alarm = FALSE
    /\ is_first_call = TRUE
    /\ cpu = Ctx(0, "user", 0)
    /\ process = "running"

(* Where thread t is: executing, or in the context it will resume. *)
Place(t) == IF cpu.of = t THEN cpu ELSE buf[t]

At(point) == process = "running" /\ cpu.at = point
Goto(point) == cpu' = [cpu EXCEPT !.at = point]
----------------------------------------------------------------------------
(* The scheduler. *)

(* A slip: the test of line 95 with || for && (ch3Tests/mutexThread.c had  *)
(* it) lets every entry through.                                           *)
DemotedAlways == [status EXCEPT ![topThread] = "READY"]

Demoted == IF status[topThread] \in Stopped
           THEN status
           ELSE [status EXCEPT ![topThread] = "READY"]

Runnable == {t \in 0..numOfThreads : Demoted[t] \notin Stopped}

(* A slip: the scan starts over at entry 0 each time. *)
StepsFromMain(t) == t

(* Increments of topThread, wrapping after numOfThreads, that lead to t. *)
Steps(t) == IF t > topThread THEN t - topThread
                             ELSE t - topThread + numOfThreads + 1

IsNext(t) == t \in Runnable /\ \A u \in Runnable : Steps(t) <= Steps(u)

(* longjmp(tcbList[t].buf).  The frame a buf describes is gone once it has *)
(* been resumed: going there again is undefined.                           *)
Longjmp(saved, t) ==
    /\ cpu' = IF saved[t].at \in NotSaved THEN cpu ELSE saved[t]
    /\ process' = IF saved[t].at \in NotSaved THEN "stale" ELSE process
    /\ buf' = [saved EXCEPT ![t].at = "dead"]

Saved(ctx) == IF status[topThread] = "EXITED"
              THEN buf
              ELSE [buf EXCEPT ![topThread] = ctx]

(* schedule() called where ctx is the context to come back to. *)
Schedule(ctx) ==
    \/ /\ Runnable = {}
       /\ process' = "spinning"
       /\ UNCHANGED <<status, buf, topThread, currentThreadID, cpu>>
    \/ \E t \in Tids :
        /\ IsNext(t)
        /\ status' = [Demoted EXCEPT ![t] = "RUNNING"]
        /\ topThread' = t
        /\ currentThreadID' = t
        /\ Longjmp(Saved(ctx), t)

(* SIGALRM is delivered while the executing context is anywhere. *)
Alarm ==
    /\ process = "running"
    /\ alarm
    /\ \/ /\ is_first_call
          /\ process' = "killed"
          /\ UNCHANGED <<status, buf, topThread, currentThreadID, cpu>>
       \/ /\ ~is_first_call
          /\ Schedule(cpu)
    /\ UNCHANGED <<numOfThreads, exitedThreads, alarm, is_first_call>>
----------------------------------------------------------------------------
(* pthread_create. *)

(* A slip: the entry is made READY before its buf is filled in. *)
CreateCountReady ==
    /\ At("user")
    /\ cpu.of \in Creators
    /\ numOfThreads < CREATE_LIMIT
    /\ numOfThreads' = numOfThreads + 1
    /\ status' = [status EXCEPT ![numOfThreads'] = "READY"]
    /\ Goto("creating")
    /\ UNCHANGED <<buf, topThread, currentThreadID, exitedThreads, alarm,
                   is_first_call, process>>

(* The count goes up before anything else is known; index MAX_THREADS      *)
(* passes the check of line 421 and lies behind the end of tcbList.        *)
CreateCount ==
    /\ At("user")
    /\ cpu.of \in Creators
    /\ numOfThreads < CREATE_LIMIT
    /\ numOfThreads' = numOfThreads + 1
    /\ process' = IF numOfThreads' < MAX_THREADS THEN process ELSE "overrun"
    /\ Goto("creating")
    /\ UNCHANGED <<status, buf, topThread, currentThreadID, exitedThreads,
                   alarm, is_first_call>>

(* malloc of the stack fails: the count stays up. *)
CreateNoMemory ==
    /\ At("creating")
    /\ Goto("user")
    /\ UNCHANGED <<status, buf, topThread, currentThreadID, numOfThreads,
                   exitedThreads, alarm, is_first_call, process>>

(* The entry is filled in; the first call goes on to scheduler_init, which *)
(* installs the handler and arms the timer, *)
CreateInit ==
    /\ At("creating")
    /\ buf' = [buf EXCEPT ![numOfThreads] = Ctx(numOfThreads, "user", 0)]
    /\ status' = [status EXCEPT ![numOfThreads] = "READY"]
    /\ alarm' = (alarm \/ is_first_call)
    /\ is_first_call' = FALSE
    /\ Goto(IF is_first_call THEN "starting" ELSE "user")
    /\ UNCHANGED <<topThread, currentThreadID, numOfThreads, exitedThreads,
                   process>>

(* and last fills in main's entry.  An alarm before that (one armed by an  *)
(* earlier unlock(), too) takes main for exited and does not save it.      *)
SchedulerInit ==
    /\ At("starting")
    /\ status' = [status EXCEPT ![0] = "READY"]
    /\ Goto("user")
    /\ UNCHANGED <<buf, topThread, currentThreadID, numOfThreads,
                   exitedThreads, alarm, is_first_call, process>>
----------------------------------------------------------------------------
(* pthread_exit; cpu.on is its local variable currentThread. *)

ExitMark ==
    /\ At("user")
    /\ status' = [status EXCEPT ![currentThreadID] = "EXITED"]
    /\ cpu' = Ctx(cpu.of, "exiting", currentThreadID)
    /\ UNCHANGED <<buf, topThread, currentThreadID, numOfThreads,
                   exitedThreads, alarm, is_first_call, process>>

(* A slip: main's own exit is counted too. *)
ExitCountMain ==
    /\ At("exiting")
    /\ exitedThreads' = exitedThreads + 1
    /\ Goto("exited")
    /\ UNCHANGED <<status, buf, topThread, currentThreadID, numOfThreads,
                   alarm, is_first_call, process>>

ExitCount ==
    /\ At("exiting")
    /\ exitedThreads' = exitedThreads + (IF cpu.on = 0 THEN 0 ELSE 1)
    /\ Goto("exited")
    /\ UNCHANGED <<status, buf, topThread, currentThreadID, numOfThreads,
                   alarm, is_first_call, process>>

(* Other threads are left: schedule(0), which only comes back, and then    *)
(* falls through to exit(0), if the entry is no longer "EXITED".           *)
ExitSchedule ==
    /\ At("exited")
    /\ exitedThreads # numOfThreads
    /\ Schedule([cpu EXCEPT !.at = "fellThrough"])
    /\ UNCHANGED <<numOfThreads, exitedThreads, alarm, is_first_call>>

(* A slip: currentThreadID still names the worker that exited. *)
ExitToMainOnly ==
    /\ At("exited")
    /\ exitedThreads = numOfThreads
    /\ status[0] # "EXITED"
    /\ status' = [status EXCEPT ![0] = "RUNNING"]
    /\ Longjmp(buf, 0)
    /\ UNCHANGED <<topThread, currentThreadID, numOfThreads, exitedThreads,
                   alarm, is_first_call>>

(* Only main is left: jump to it, whatever its status, around schedule(). *)
ExitToMain ==
    /\ At("exited")
    /\ exitedThreads = numOfThreads
    /\ status[0] # "EXITED"
    /\ currentThreadID' = 0
    /\ status' = [status EXCEPT ![0] = "RUNNING"]
    /\ Longjmp(buf, 0)
    /\ UNCHANGED <<topThread, numOfThreads, exitedThreads, alarm,
                   is_first_call>>

ExitProcess ==
    /\ \/ /\ At("exited")
          /\ exitedThreads = numOfThreads
          /\ status[0] = "EXITED"
       \/ At("fellThrough")
    /\ process' = "exited"
    /\ UNCHANGED <<status, buf, topThread, currentThreadID, numOfThreads,
                   exitedThreads, alarm, is_first_call, cpu>>
----------------------------------------------------------------------------
(* What the executing context does next of its own accord. *)
CoreStep ==
    \/ CreateNoMemory
    \/ CreateInit
    \/ SchedulerInit
    \/ ExitCount
    \/ ExitSchedule
    \/ ExitToMain
    \/ ExitProcess

Halted == process # "running" /\ UNCHANGED coreVars

Next ==
    \/ CreateCount
    \/ ExitMark
    \/ CoreStep
    \/ Alarm
    \/ Halted

Spec == Init /\ [][Next]_coreVars

(* The timer keeps firing; a thread that is given the processor again and  *)
(* again gets on with the library call it is in (a quantum is 50 ms).      *)
FairSpec ==
    /\ Spec
    /\ WF_coreVars(Alarm)
    /\ \A t \in Tids : SF_coreVars(cpu.of = t /\ CoreStep)
----------------------------------------------------------------------------
TypeOK ==
    /\ status \in [Tids -> Status]
    /\ buf \in [Tids -> Context]
    /\ topThread \in Tids
    /\ currentThreadID \in Tids
    /\ numOfThreads \in 0..MAX_THREADS
    /\ exitedThreads \in Nat
    /\ alarm \in BOOLEAN
    /\ is_first_call \in BOOLEAN
    /\ cpu \in [of : Tids, at : CodePoints, on : Nat]
    /\ process \in {"running"} \cup Halts

----------------------------------------------------------------------------
(* The bookkeeping that every other property rests on, in the parts its    *)
(* proof needs.  It is inductive when only main creates threads.           *)

Running == process = "running"
Exiting == {"exiting", "exited"}

(* Before the first pthread_create only main's entry has ever been used.   *)
FirstInv ==
    is_first_call =>
        /\ cpu.of = 0 /\ currentThreadID = 0 /\ topThread = 0
        /\ exitedThreads = 0
        /\ status[0] \in Stopped
        /\ status[0] = "BLOCKED" => cpu.at \notin {"user", "creating"}
        /\ \A t \in Tids \ {0} : status[t] = "EXITED"
        /\ \A t \in Tids : buf[t].at = "unset"

(* The executing thread is the one currentThreadID names, and the entry    *)
(* the next schedule() saves it in is its own: except that after the jump  *)
(* to main of lines 490-494 topThread still names an exited worker.        *)
ExecutingInv ==
    Running =>
        /\ cpu.of = currentThreadID
        /\ \/ topThread = currentThreadID
           \/ /\ currentThreadID = 0
              /\ status[topThread] = "EXITED" /\ buf[topThread].at = "dead"
        /\ buf[cpu.of].at \in NotSaved
        /\ cpu.of # 0 => buf[cpu.of].at = "dead"
        /\ cpu.at # "fellThrough"
        /\ cpu.at = "exiting" => cpu.on = cpu.of
        /\ cpu.at \in Exiting => status[cpu.of] = "EXITED"
        /\ cpu.at = "starting" =>
            /\ cpu.of = 0 /\ ~is_first_call
            /\ status[0] = "EXITED" /\ buf[0].at = "unset"
        /\ status[cpu.of] = "EXITED" =>
            is_first_call \/ cpu.at \in Exiting \cup {"starting"}

(* A saved context is its own thread's, and that thread has not exited;    *)
(* main is not saved on its way through scheduler_init.                    *)
SavedInv ==
    \A t \in Tids :
        /\ buf[t].of = t
        /\ buf[t].at \notin NotSaved =>
            /\ status[t] # "EXITED"
            /\ buf[t].at \notin Exiting \cup {"fellThrough", "starting"}

(* Entries above numOfThreads, and the one pthread_create is about to fill *)
(* in, are unused; only main is ever inside pthread_create.                *)
Unused(t) == status[t] = "EXITED" /\ buf[t].at = "unset"

CreatedInv ==
    Running =>
        /\ topThread <= numOfThreads /\ currentThreadID <= numOfThreads
        /\ \A t \in Tids : t > numOfThreads => Unused(t)
        /\ \A t \in Tids : Place(t).at = "creating" =>
            t = 0 /\ numOfThreads \in Tids \ {0} /\ Unused(numOfThreads)

(* No interleaving of preemptions with pthread_create and pthread_exit     *)
(* loses a worker: one that has not exited and is not executing has a      *)
(* context in its tcbList entry to be resumed from (lines 122, 449-456).   *)
NoContextLost ==
    Running =>
        \A t \in 1..numOfThreads :
            t \in Tids /\ status[t] # "EXITED" /\ t # cpu.of
                => buf[t].at \notin NotSaved

(* exitedThreads never counts a thread that is not finished (a finished    *)
(* one may go uncounted).                                                  *)
Finished ==
    {t \in Tids \ {0} : /\ status[t] = "EXITED" /\ buf[t].at = "dead"
                        /\ ~(cpu.of = t /\ cpu.at = "exiting")}

CountedInv == Running => exitedThreads <= Cardinality(Finished)

CoreInv ==
    /\ FirstInv
    /\ ExecutingInv
    /\ SavedInv
    /\ CreatedInv
    /\ NoContextLost
    /\ CountedInv

(* A thread that has run and exited is never given back to the scheduler   *)
(* (lines 95 and 111, 133 against 474).                                    *)
ExitIsFinal ==
    [][\A t \in Tids : status[t] = "EXITED" /\ buf[t].at = "dead"
                            => status'[t] = "EXITED"]_coreVars

(* exit(0) is reached only when nobody is left: no created thread, nor     *)
(* main once it is in tcbList (MainReturns), is cut short by the exit of   *)
(* another (lines 483-497).                                                *)
NobodyCutShort ==
    process = "exited" =>
        \A t \in Tids : t <= numOfThreads => status[t] = "EXITED"

(* Round robin: a thread that is ready is given the processor, whatever    *)
(* the others do (lines 102-117, 124-139).                                 *)
RoundRobin ==
    \A t \in Tids :
        status[t] = "READY" ~> currentThreadID = t \/ process # "running"

(* What line 421 says: at the maximum number of threads pthread_create     *)
(* returns an error.  The code lets index MAX_THREADS through.             *)
NoOverrun == process # "overrun"

(* What test_busy_threads.c says of main and its workers: all reach their  *)
(* count.  The jump to main of line 494 uses up main's only saved context  *)
(* and leaves topThread behind, so the next alarm resumes a dead frame.    *)
NoStaleResume == process # "stale"

(* The first pthread_create returns to main.  An alarm between lines 154   *)
(* and 169 finds main "EXITED", does not save it, and nobody resumes it.   *)
MainReturns ==
    At("starting") ~> (cpu.of = 0 /\ cpu.at = "user") \/ process # "running"

(* What the README says: once all threads are finished the program exits.  *)
(* A thread preempted between line 474 and line 480 is never counted.      *)
AllFinished ==
    /\ ~is_first_call
    /\ \A t \in 0..numOfThreads : status[t] = "EXITED"
    /\ \A t \in 1..numOfThreads : buf[t].at = "dead"

AllExitedTerminates == AllFinished ~> process = "exited"

=============================================================================
