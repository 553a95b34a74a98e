------------------------- MODULE ThreadsMutexProofs -------------------------
(***************************************************************************)
(* Proofs that the mutexes of module ThreadsMutex exclude, and, in the     *)
(* second part, that they lose no wake-up, for every number of threads and *)
(* mutexes and wherever the alarms fall.                                   *)
(***************************************************************************)
EXTENDS ThreadsMutex, ThreadsProofs, SequenceTheorems

MState == /\ mutexId \in 0..MUTEX_LIMIT
          /\ __lock \in [Mutexes -> {0, 1}]
          /\ __owner \in [Mutexes -> Tids \cup {NoOwner}]
          /\ mutexThreadLists \in [Mutexes -> Seq(Tids)]
          /\ held \in [Tids -> SUBSET Mutexes]

(* The invariant without the scheduler's part. *)
MutexPart ==
    /\ BlockedInv
    /\ UnbornInv
    /\ ClosedInv
    /\ QueueInv
    /\ MutualExclusion

MInv == TypeOK /\ MState /\ CoreInv /\ MutexPart

(* A process that has halted has nothing left to keep. *)
LEMMA HaltedPart ==
    ASSUME ~Running' PROVE MutexPart'
BY DEF MutexPart, BlockedInv, UnbornInv, ClosedInv, QueueInv,
       MutualExclusion, Running

LEMMA Exclusion ==
    ASSUME Running, MutualExclusion, NEW t \in Tids, NEW u \in Tids,
           NEW m \in Mutexes, Granted(t, m), Granted(u, m)
    PROVE  t = u
BY DEF MutualExclusion, Running
----------------------------------------------------------------------------
(* Steps of the scheduler's own. *)

(* What a thread waits for when it comes back to context c is what it      *)
(* waits for now.                                                          *)
SameWait(c) ==
    /\ c.at \in WaitPoints <=> cpu.at \in WaitPoints
    /\ c.on = cpu.on

(* What a step of schedule() that resumes thread t leaves as it was: only  *)
(* main, on the first alarm after the jump to it, leaves without being     *)
(* saved, and then no longer waits for what it waited for.                 *)
ForcedOut(u) == u = 0 /\ cpu.of = 0 /\ topThread # 0

LEMMA ResumedMutex ==
    ASSUME MInv, Running, NEW c \in Exec, MayReturnTo(c), SameWait(c),
           NEW t \in Tids, Resumed(c, t), process' \in {"running", "stale"},
           Running', UNCHANGED <<is_first_call, mutexState>>
    PROVE  /\ ~is_first_call /\ status[t] # "EXITED" /\ status[t] # "BLOCKED"
           /\ cpu' = Saved(c)[t] /\ Saved(c)[t].at \notin NotSaved
           /\ cpu'.of = t /\ buf'[t].at = "dead" /\ status'[t] = "RUNNING"
           /\ \A u \in Tids :
                /\ status[u] = "EXITED" <=> status'[u] = "EXITED"
                /\ status[u] = "BLOCKED" <=> status'[u] = "BLOCKED"
                /\ Place(u)'.at \in WaitPoints =>
                        Place(u).at \in WaitPoints /\ Place(u)'.on = Place(u).on
           /\ ForcedOut(0) => t # 0 /\ buf'[0].at \in NotSaved
           /\ \A u \in Tids, m \in Mutexes :
                /\ Waiting(u, m)' => Waiting(u, m)
                /\ Waiting(u, m) /\ ~ForcedOut(u) => Waiting(u, m)'
                /\ Granted(u, m)' => Granted(u, m)
                /\ Granted(u, m) /\ ~ForcedOut(u) => Granted(u, m)'
<1> USE DEF ForcedOut
<1>1. ~is_first_call /\ status[t] # "EXITED" /\ status[t] # "BLOCKED"
  BY DEF MInv, CoreInv, FirstInv, Resumed, Stopped
<1>2. ASSUME status[topThread] # "EXITED"
      PROVE  topThread = cpu.of /\ currentThreadID = cpu.of
  BY <1>2 DEF MInv, CoreInv, ExecutingInv
<1>3. /\ cpu' = Saved(c)[t] /\ Saved(c)[t].at \notin NotSaved
      /\ cpu'.of = t /\ buf'[t].at = "dead"
      /\ status'[t] = "RUNNING"
  BY <1>2, SavedValue
     DEF Resumed, Running, MInv, CoreInv, SavedInv, MayReturnTo
<1>4. \A u \in Tids : Place(u)' = Saved(c)[u]
  BY <1>3 DEF Place, Resumed
<1>5. \A u \in Tids :
          /\ status[u] = "EXITED" <=> status'[u] = "EXITED"
          /\ status[u] = "BLOCKED" <=> status'[u] = "BLOCKED"
  BY <1>1 DEF Resumed, Stopped
<1>6. ASSUME NEW u \in Tids
      PROVE  /\ Place(u)'.at \in WaitPoints =>
                  Place(u).at \in WaitPoints /\ Place(u)'.on = Place(u).on
             /\ Place(u).at \in WaitPoints /\ ~ForcedOut(u) =>
                  Place(u)'.at \in WaitPoints /\ Place(u)'.on = Place(u).on
  <2>1. CASE u = topThread /\ status[topThread] # "EXITED"
    BY <1>2, <1>4, <2>1, SavedValue DEF Place, SameWait, MInv
  <2>2. CASE ~(u = topThread /\ status[topThread] # "EXITED")
    <3>1. Place(u)' = buf[u]
      BY <1>4, <2>2, SavedValue DEF MInv
    <3>2. CASE u # cpu.of
      BY <3>1, <3>2 DEF Place
    <3>3. CASE u = cpu.of
      <4>1. Place(u)'.at \notin WaitPoints
        BY <3>1, <3>3 DEF MInv, CoreInv, ExecutingInv, NotSaved, WaitPoints
      <4>2. Place(u) = cpu
        BY <3>3 DEF Place
      <4>3. ForcedOut(u) \/ status[cpu.of] = "EXITED"
        BY <2>2, <3>3 DEF MInv, CoreInv, ExecutingInv
      <4>4. status[cpu.of] = "EXITED" => cpu.at \notin WaitPoints
        BY <1>1 DEF MInv, CoreInv, ExecutingInv, Exiting, WaitPoints
      <4>5. QED
        BY <4>1, <4>2, <4>3, <4>4
    <3>4. QED
      BY <3>2, <3>3
  <2>3. QED
    BY <2>1, <2>2
<1>7. ASSUME ForcedOut(0)
      PROVE  t # 0 /\ buf'[0].at \in NotSaved
  <2>1. Saved(c)[0] = buf[0] /\ buf[0].at \in NotSaved
    BY <1>7, ZeroTid, SavedValue DEF MInv, CoreInv, ExecutingInv
  <2>2. t # 0
    BY <1>3, <2>1
  <2>3. buf'[0] = buf[0]
    BY <2>1, <2>2, ZeroTid DEF Resumed
  <2>4. QED
    BY <2>1, <2>2, <2>3
<1>8. \A u \in Tids, m \in Mutexes :
          /\ Waiting(u, m)' => Waiting(u, m)
          /\ Waiting(u, m) /\ ~ForcedOut(u) => Waiting(u, m)'
          /\ Granted(u, m)' => Granted(u, m)
          /\ Granted(u, m) /\ ~ForcedOut(u) => Granted(u, m)'
  BY <1>1, <1>5, <1>6 DEF Waiting, Granted, mutexState
<1>9. QED
  BY <1>1, <1>3, <1>5, <1>6, <1>7, <1>8

LEMMA ScheduleMutex ==
    ASSUME MInv, Running, NEW c \in Exec, MayReturnTo(c), SameWait(c),
           Schedule(c), UNCHANGED <<is_first_call, mutexState>>
    PROVE  MutexPart'
<1>1. CASE process' = "spinning"
  BY <1>1, HaltedPart DEF Running
<1>2. ASSUME process' \in {"running", "stale"},
             NEW t \in Tids, Resumed(c, t), Running'
      PROVE  MutexPart'
  <2> USE DEF ForcedOut
  <2>1. ~is_first_call /\ status[t] # "EXITED" /\ status[t] # "BLOCKED"
    BY <1>2, ResumedMutex
  <2>2. ASSUME status[topThread] # "EXITED"
        PROVE  topThread = cpu.of /\ currentThreadID = cpu.of
    BY <2>2 DEF MInv, CoreInv, ExecutingInv
  <2>3. /\ cpu' = Saved(c)[t] /\ Saved(c)[t].at \notin NotSaved
        /\ cpu'.of = t /\ buf'[t].at = "dead"
        /\ status'[t] = "RUNNING"
    BY <1>2, ResumedMutex
  <2>5. \A u \in Tids :
            /\ status[u] = "EXITED" <=> status'[u] = "EXITED"
            /\ status[u] = "BLOCKED" <=> status'[u] = "BLOCKED"
    BY <1>2, ResumedMutex
  <2>6. \A u \in Tids : Place(u)'.at \in WaitPoints =>
                    Place(u).at \in WaitPoints /\ Place(u)'.on = Place(u).on
    BY <1>2, ResumedMutex
  <2>7. ForcedOut(0) => t # 0 /\ buf'[0].at \in NotSaved
    BY <1>2, ResumedMutex
  <2>8. \A u \in Tids, m \in Mutexes :
            /\ Waiting(u, m)' => Waiting(u, m)
            /\ Waiting(u, m) /\ ~ForcedOut(u) => Waiting(u, m)'
            /\ Granted(u, m)' => Granted(u, m)
            /\ Granted(u, m) /\ ~ForcedOut(u) => Granted(u, m)'
    BY <1>2, ResumedMutex
  <2>9. MainLost => MainLost'
    <3> SUFFICES ASSUME MainLost PROVE MainLost'
      OBVIOUS
    <3>1. Saved(c)[0] = buf[0]
      BY <2>2, ZeroTid, SavedValue DEF MainLost, MInv
    <3>2. t # 0
      BY <2>3, <3>1 DEF MainLost
    <3>3. buf'[0] = buf[0]
      BY <1>2, <3>1, <3>2, ZeroTid DEF Resumed
    <3>4. QED
      BY <2>3, <2>5, <3>2, <3>3, ZeroTid DEF MainLost
  <2>10. ForcedOut(0) /\ status[0] # "EXITED" => MainLost'
    BY <2>3, <2>5, <2>7, ZeroTid DEF MainLost
  <2>11. \A m \in Mutexes : MainForced(m) => MainForced(m)' \/ MainLost'
    <3> SUFFICES ASSUME NEW m \in Mutexes, MainForced(m)
                 PROVE  MainForced(m)' \/ MainLost'
      OBVIOUS
    <3>1. \A u \in Tids \ {0} : ~Granted(u, m)'
      BY <2>8 DEF MainForced
    <3>2. CASE m \in held[0] \/ ~ForcedOut(0)
      BY <2>8, <3>1, <3>2, ZeroTid DEF MainForced, mutexState
    <3>3. CASE Granted(0, m) /\ ForcedOut(0)
      BY <2>1, <2>10, <3>3 DEF Granted
    <3>4. QED
      BY <3>2, <3>3 DEF MainForced
  <2>12. BlockedInv'
    BY <2>3 DEF BlockedInv
  <2>13. UnbornInv'
    <3>1. \A u \in Tids : Place(u)'.at \in WaitPoints => Place(u)'.on < mutexId
      BY <2>6 DEF MInv, MutexPart, UnbornInv
    <3>2. ASSUME NEW u \in Tids \ {0}, buf'[u].at = "unset"
          PROVE  held[u] = {}
      <4>1. u # t /\ buf'[u] = Saved(c)[u]
        BY <1>2, <2>3, <3>2 DEF Resumed
      <4>2. buf[u].at = "unset"
        BY <3>2, <4>1, SavedValue DEF MInv, Exec, CodePoints
      <4>3. QED
        BY <4>2 DEF MInv, MutexPart, UnbornInv
    <3>3. c.at = "starting" => status[cpu.of] = "EXITED"
      BY DEF MInv, CoreInv, ExecutingInv, MayReturnTo
    <3>4. cpu'.at # "starting"
      BY <2>1, <2>2, <2>3, <3>3, SavedValue DEF MInv, CoreInv, SavedInv
    <3>5. QED
      BY <3>1, <3>2, <3>4 DEF MInv, MutexPart, UnbornInv, mutexState
  <2>14. ClosedInv'
    BY <2>8 DEF MInv, MutexPart, ClosedInv, mutexState
  <2>15. QueueInv'
    <3> SUFFICES ASSUME NEW m \in Mutexes, NEW i \in DOMAIN mutexThreadLists[m],
                        NEW u \in Tids, u = mutexThreadLists[m][i]
                 PROVE  \/ Waiting(u, m)' /\ status'[u] = "BLOCKED"
                        \/ u = 0 /\ ~is_first_call /\ MainLost'
                        \/ u = 0 /\ ~is_first_call /\ i = 1 /\ MainForced(m)'
      BY DEF MInv, MState, MutexPart, QueueInv, mutexState
    <3>2. CASE Waiting(u, m) /\ status[u] = "BLOCKED"
      BY <2>1, <2>5, <2>8, <2>10, <3>2
    <3>3. CASE u = 0 /\ MainLost
      BY <2>1, <2>9, <3>3
    <3>4. CASE u = 0 /\ i = 1 /\ MainForced(m)
      BY <2>1, <2>11, <3>4
    <3>5. QED
      BY <3>2, <3>3, <3>4 DEF MInv, MutexPart, QueueInv
  <2>16. MutualExclusion'
    BY <2>8 DEF MInv, MutexPart, MutualExclusion, Running
  <2>17. QED
    BY <2>12, <2>13, <2>14, <2>15, <2>16 DEF MutexPart
<1>3. QED
  BY <1>1, <1>2, HaltedPart, ScheduleResult DEF MInv

(* Steps inside pthread_create and pthread_exit that change no status and  *)
(* no context but the executing one.                                       *)
LEMMA QuietStep ==
    ASSUME MInv, Running,
           UNCHANGED <<status, buf, is_first_call, mutexState>>,
           cpu'.of = cpu.of, cpu.at \notin WaitPoints \cup {"barrierYield"},
           cpu'.at \notin WaitPoints \cup {"starting"}
    PROVE  MutexPart'
<1>1. \A u \in Tids : Place(u)'.at \in WaitPoints \/ Place(u).at \in WaitPoints
                        => Place(u)' = Place(u)
  BY DEF Place
<1>2. \A u \in Tids, m \in Mutexes :
        (Waiting(u, m)' <=> Waiting(u, m)) /\ (Granted(u, m)' <=> Granted(u, m))
  BY <1>1 DEF Waiting, Granted, mutexState
<1>3. \A m \in Mutexes : (MainForced(m)' <=> MainForced(m)) /\ (MainLost' <=> MainLost)
  BY <1>2, ZeroTid DEF MainForced, MainLost, mutexState
<1>4. BlockedInv'
  BY DEF MInv, MutexPart, BlockedInv, WaitPoints
<1>5. UnbornInv'
  BY <1>1 DEF MInv, MutexPart, UnbornInv, mutexState
<1>6. ClosedInv'
  BY <1>2 DEF MInv, MutexPart, ClosedInv, mutexState
<1>7. QueueInv'
  <2> SUFFICES ASSUME NEW m \in Mutexes, NEW i \in DOMAIN mutexThreadLists[m],
                      NEW u \in Tids, u = mutexThreadLists[m][i]
               PROVE  \/ Waiting(u, m)' /\ status'[u] = "BLOCKED"
                      \/ u = 0 /\ ~is_first_call /\ MainLost'
                      \/ u = 0 /\ ~is_first_call /\ i = 1 /\ MainForced(m)'
    BY DEF MInv, MState, MutexPart, QueueInv, mutexState
  <2>1. QED
    BY <1>2, <1>3 DEF MInv, MutexPart, QueueInv
<1>8. MutualExclusion'
  BY <1>2 DEF MInv, MutexPart, MutualExclusion, Running
<1>9. QED
  BY <1>4, <1>5, <1>6, <1>7, <1>8 DEF MutexPart

LEMMA ExitMarkMutex ==
    ASSUME MInv, ExitMark, UNCHANGED mutexState
    PROVE  MutexPart'
<1> DEFINE me == currentThreadID
<1>1. /\ Running /\ cpu.at = "user" /\ me = cpu.of /\ me \in Tids
      /\ cpu'.of = me /\ cpu'.at = "exiting"
      /\ status'[me] = "EXITED"
      /\ \A t \in Tids \ {me} : status'[t] = status[t]
      /\ UNCHANGED <<buf, is_first_call, process>>
  BY DEF ExitMark, At, Ctx, Running, MInv, TypeOK, CoreInv, ExecutingInv
<1>2. \A u \in Tids : Place(u)'.at \in WaitPoints \/ Place(u).at \in WaitPoints
                        => Place(u)' = Place(u) /\ u # me
  BY <1>1 DEF Place, WaitPoints
<1>3. \A u \in Tids, m \in Mutexes :
        /\ Waiting(u, m)' <=> Waiting(u, m)
        /\ Waiting(u, m) => u # me
        /\ Granted(u, m)' => Granted(u, m)
        /\ u # me => (Granted(u, m)' <=> Granted(u, m))
        /\ Granted(me, m) => m \in held[me]
  BY <1>1, <1>2 DEF Waiting, Granted, mutexState
<1>4. /\ \A m \in Mutexes : MainForced(m) => MainForced(m)'
      /\ MainLost => MainLost'
  BY <1>1, <1>3, ZeroTid DEF MainForced, MainLost, mutexState
<1>5. BlockedInv'
  BY <1>1 DEF BlockedInv
<1>6. UnbornInv'
  BY <1>1, <1>2 DEF MInv, MutexPart, UnbornInv, mutexState
<1>7. ClosedInv'
  BY <1>1, <1>3 DEF MInv, MutexPart, ClosedInv, mutexState
<1>8. QueueInv'
  <2> SUFFICES ASSUME NEW m \in Mutexes, NEW i \in DOMAIN mutexThreadLists[m],
                      NEW u \in Tids, u = mutexThreadLists[m][i]
               PROVE  \/ Waiting(u, m)' /\ status'[u] = "BLOCKED"
                      \/ u = 0 /\ ~is_first_call /\ MainLost'
                      \/ u = 0 /\ ~is_first_call /\ i = 1 /\ MainForced(m)'
    BY <1>1 DEF MInv, MState, MutexPart, QueueInv, mutexState
  <2>1. QED
    BY <1>1, <1>3, <1>4 DEF MInv, MutexPart, QueueInv
<1>9. MutualExclusion'
  BY <1>1, <1>3 DEF MInv, MutexPart, MutualExclusion, Running
<1>10. QED
  BY <1>5, <1>6, <1>7, <1>8, <1>9 DEF MutexPart

LEMMA CreateInitMutex ==
    ASSUME MInv, CreateInit, UNCHANGED mutexState
    PROVE  MutexPart'
<1> DEFINE n == numOfThreads
<1>1. /\ Running /\ cpu.at = "creating" /\ cpu.of \in Tids
      /\ cpu'.of = cpu.of /\ cpu'.at \in {"user", "starting"}
      /\ ~is_first_call' /\ UNCHANGED process
  BY DEF CreateInit, At, Goto, Running, MInv, TypeOK
<1>2. cpu.of = 0 /\ n \in Tids \ {0} /\ Unused(n)
  BY <1>1 DEF MInv, CoreInv, CreatedInv, Place
<1>3. /\ buf' = [buf EXCEPT ![n] = Ctx(n, "user", 0)]
      /\ status' = [status EXCEPT ![n] = "READY"]
  BY DEF CreateInit
<1>4. /\ status'[n] = "READY" /\ buf'[n] = Ctx(n, "user", 0)
      /\ \A t \in Tids \ {n} : buf'[t] = buf[t] /\ status'[t] = status[t]
      /\ status'[0] = status[0]
  BY <1>2, <1>3, ZeroTid DEF MInv, TypeOK
<1>5. held[n] = {}
  BY <1>1, <1>2 DEF MInv, MutexPart, UnbornInv, Unused
<1>6. \A u \in Tids : Place(u)'.at \in WaitPoints \/ Place(u).at \in WaitPoints
                        => Place(u)' = Place(u) /\ u # n /\ u # 0
  BY <1>1, <1>2, <1>4 DEF Place, WaitPoints, Unused, Ctx
<1>7. \A u \in Tids, m \in Mutexes :
        /\ Waiting(u, m)' <=> Waiting(u, m)
        /\ Waiting(u, m) => u # n /\ u # 0
        /\ Granted(u, m)' => Granted(u, m)
        /\ ~is_first_call => (Granted(u, m)' <=> Granted(u, m))
  BY <1>1, <1>2, <1>4, <1>5, <1>6 DEF Waiting, Granted, mutexState, Unused
<1>8. ~is_first_call => /\ \A m \in Mutexes : MainForced(m) => MainForced(m)'
                        /\ MainLost => MainLost'
  BY <1>1, <1>2, <1>4, <1>7, ZeroTid DEF MainForced, MainLost, mutexState
<1>9. BlockedInv'
  BY <1>1, <1>2, <1>4 DEF MInv, MutexPart, BlockedInv
<1>10. UnbornInv'
  <2>1. ASSUME NEW u \in Tids, u = n
        PROVE  held[u] = {} /\ Place(u)'.at = "user"
    BY <1>1, <1>2, <1>4, <1>5, <2>1 DEF Place, Ctx
  <2>2. ASSUME cpu'.at = "starting", NEW u \in Tids \ {0, n}
        PROVE  held[u] = {} /\ Place(u)'.at = "unset"
    <3>1. is_first_call
      BY <2>2 DEF CreateInit, Goto, MInv, TypeOK
    <3>2. buf[u].at = "unset"
      BY <2>2, <3>1 DEF MInv, CoreInv, FirstInv
    <3>3. held[u] = {}
      BY <1>1, <2>2, <3>2 DEF MInv, MutexPart, UnbornInv
    <3>4. Place(u)' = buf'[u] /\ buf'[u] = buf[u]
      BY <1>1, <1>2, <1>4, <2>2 DEF Place
    <3>5. QED
      BY <3>2, <3>3, <3>4
  <2>3. cpu'.at = "starting" => \A u \in Tids \ {0} :
            held[u] = {} /\ Place(u)'.at \notin WaitPoints
    BY <2>1, <2>2 DEF WaitPoints
  <2>4. QED
    BY <1>1, <1>2, <1>4, <1>6, <2>3
       DEF MInv, MutexPart, UnbornInv, mutexState, Ctx
<1>11. ClosedInv'
  BY <1>1, <1>7 DEF MInv, MutexPart, ClosedInv, mutexState
<1>12. QueueInv'
  <2> SUFFICES ASSUME NEW m \in Mutexes, NEW i \in DOMAIN mutexThreadLists[m],
                      NEW u \in Tids, u = mutexThreadLists[m][i]
               PROVE  \/ Waiting(u, m)' /\ status'[u] = "BLOCKED"
                      \/ u = 0 /\ ~is_first_call' /\ MainLost'
                      \/ u = 0 /\ ~is_first_call' /\ i = 1 /\ MainForced(m)'
    BY <1>1 DEF MInv, MState, MutexPart, QueueInv, mutexState
  <2>1. QED
    BY <1>1, <1>4, <1>7, <1>8 DEF MInv, MutexPart, QueueInv
<1>13. MutualExclusion'
  BY <1>1, <1>7 DEF MInv, MutexPart, MutualExclusion, Running
<1>14. QED
  BY <1>9, <1>10, <1>11, <1>12, <1>13 DEF MutexPart

(* Main joins the others while no worker has run yet. *)
LEMMA SchedulerInitMutex ==
    ASSUME MInv, SchedulerInit, UNCHANGED mutexState
    PROVE  MutexPart'
<1>1. /\ Running /\ cpu.at = "starting" /\ cpu.of = 0 /\ ~is_first_call
      /\ cpu'.of = 0 /\ cpu'.at = "user" /\ status[0] = "EXITED"
      /\ UNCHANGED <<buf, is_first_call, process>>
  BY DEF SchedulerInit, At, Goto, Running, MInv, TypeOK, CoreInv, ExecutingInv
<1>2. /\ status'[0] = "READY"
      /\ \A t \in Tids \ {0} : status'[t] = status[t]
  BY ZeroTid DEF SchedulerInit, MInv, TypeOK
<1>3. \A u \in Tids :
        /\ Place(u).at \notin WaitPoints /\ Place(u)'.at \notin WaitPoints
        /\ u # 0 => held[u] = {} /\ Place(u)' = Place(u)
  <2>1. \A u \in Tids \ {0} : held[u] = {} /\ Place(u).at \notin WaitPoints
    BY <1>1 DEF MInv, MutexPart, UnbornInv
  <2>2. QED
    BY <1>1, <2>1 DEF Place, WaitPoints
<1>4. \A u \in Tids, m \in Mutexes :
        /\ ~Waiting(u, m) /\ ~Waiting(u, m)'
        /\ u # 0 => ~Granted(u, m) /\ ~Granted(u, m)'
        /\ Granted(u, m) => m \in held[u]
  BY <1>1, <1>3 DEF Waiting, Granted, mutexState
<1>5. BlockedInv'
  BY <1>1, <1>2 DEF BlockedInv
<1>6. UnbornInv'
  BY <1>1, <1>3 DEF MInv, MutexPart, UnbornInv, mutexState
<1>7. ClosedInv'
  BY <1>1, <1>4 DEF MInv, MutexPart, ClosedInv, mutexState
<1>8. QueueInv'
  <2> SUFFICES ASSUME NEW m \in Mutexes, NEW i \in DOMAIN mutexThreadLists[m],
                      NEW u \in Tids, u = mutexThreadLists[m][i]
               PROVE  u = 0 /\ i = 1 /\ MainForced(m)'
    BY <1>1 DEF MInv, MState, MutexPart, QueueInv, mutexState
  <2>1. u = 0 /\ i = 1 /\ MainForced(m)
    BY <1>1, <1>4 DEF MInv, MutexPart, QueueInv, MainLost
  <2>2. QED
    BY <1>1, <1>4, <2>1, ZeroTid DEF MainForced, mutexState
<1>9. MutualExclusion'
  BY <1>4 DEF MutualExclusion
<1>10. QED
  BY <1>5, <1>6, <1>7, <1>8, <1>9 DEF MutexPart

(* The jump to main finds every worker exited: nobody else is in a         *)
(* critical section or in a list, so main may take itself to have the      *)
(* mutex it was blocked on.                                                *)
LEMMA ExitToMainMutex ==
    ASSUME MInv, ExitToMain, UNCHANGED mutexState
    PROVE  MutexPart'
<1> SUFFICES ASSUME Running' PROVE MutexPart'
  BY HaltedPart
<1>1. /\ Running /\ cpu.at = "exited" /\ status[0] # "EXITED"
      /\ status[cpu.of] = "EXITED" /\ cpu.of \in Tids
      /\ exitedThreads = numOfThreads
      /\ status'[0] = "RUNNING"
      /\ \A t \in Tids \ {0} : status'[t] = status[t]
      /\ UNCHANGED is_first_call
  BY ZeroTid DEF ExitToMain, At, Running, MInv, TypeOK, CoreInv, ExecutingInv, Exiting
<1>2. cpu.of # 0 /\ ~is_first_call /\ buf[cpu.of].at \in NotSaved
  BY <1>1 DEF MInv, CoreInv, FirstInv, ExecutingInv
<1>3. /\ cpu' = buf[0] /\ cpu'.of = 0 /\ buf[0].at \notin NotSaved
      /\ \A t \in Tids \ {0} : buf'[t] = buf[t]
      /\ cpu'.at # "starting"
  BY ZeroTid DEF ExitToMain, Longjmp, MInv, TypeOK, CoreInv, SavedInv, Running
<1>4. \A t \in Tids \ {0} : status[t] = "EXITED"
  BY <1>1, CountsAgree DEF MInv
<1>5. \A u \in Tids : Place(u)'.at \in WaitPoints \/ Place(u).at \in WaitPoints
                        => Place(u)' = Place(u)
  BY <1>1, <1>2, <1>3 DEF Place, WaitPoints, NotSaved
<1>6. \A u \in Tids, m \in Mutexes :
        /\ Waiting(u, m)' <=> Waiting(u, m)
        /\ u # 0 => ~Granted(u, m)'
  BY <1>1, <1>2, <1>4, <1>5 DEF Waiting, Granted
<1>7. ~MainLost
  BY <1>3 DEF MainLost
<1>8. BlockedInv'
  BY <1>1, <1>3 DEF BlockedInv
<1>9. UnbornInv'
  BY <1>1, <1>3, <1>5 DEF MInv, MutexPart, UnbornInv, mutexState
<1>10. ClosedInv'
  BY <1>1, <1>6 DEF MInv, MutexPart, ClosedInv, mutexState
<1>11. QueueInv'
  <2> SUFFICES ASSUME NEW m \in Mutexes, NEW i \in DOMAIN mutexThreadLists[m],
                      NEW u \in Tids, u = mutexThreadLists[m][i]
               PROVE  u = 0 /\ i = 1 /\ MainForced(m)'
    BY <1>1, <1>2 DEF MInv, MState, MutexPart, QueueInv, mutexState
  <2>1. \A j \in DOMAIN mutexThreadLists[m] : mutexThreadLists[m][j] = 0
    BY <1>1, <1>4 DEF MInv, MState, MutexPart, QueueInv
  <2>2. u = 0
    BY <2>1
  <2>3. i = 1
    <3>1. 1 \in DOMAIN mutexThreadLists[m]
      BY DEF MInv, MState
    <3>2. QED
      BY <1>1, <2>1, <3>1 DEF MInv, MutexPart, QueueInv
  <2>4. m \in held[0] \/ Waiting(0, m)
    <3>1. Waiting(u, m) \/ MainLost \/ MainForced(m)
      BY <1>1 DEF MInv, MutexPart, QueueInv
    <3>2. QED
      BY <1>7, <2>2, <3>1 DEF MainForced, Granted
  <2>5. MainForced(m)'
    BY <1>1, <1>6, <2>4, ZeroTid DEF MainForced, Granted, mutexState
  <2>6. QED
    BY <2>2, <2>3, <2>5
<1>12. MutualExclusion'
  BY <1>6 DEF MutualExclusion
<1>13. QED
  BY <1>8, <1>9, <1>10, <1>11, <1>12 DEF MutexPart

LEMMA CoreMutex ==
    ASSUME MInv, UNCHANGED mutexState,
           CreateCount \/ ExitMark \/ CoreStep \/ Alarm \/ UNCHANGED coreVars
    PROVE  MutexPart'
<1>1. CASE CreateCount \/ CreateNoMemory \/ ExitCount
  <2>1. /\ Running /\ cpu.at \notin WaitPoints \cup {"barrierYield"}
        /\ cpu'.of = cpu.of /\ cpu'.at \notin WaitPoints \cup {"starting"}
        /\ UNCHANGED <<status, buf, is_first_call>>
    BY <1>1 DEF CreateCount, CreateNoMemory, ExitCount, At, Goto, Running,
                WaitPoints, MInv, TypeOK
  <2>2. QED
    BY <2>1, QuietStep DEF mutexState
<1>2. CASE ExitSchedule
  <2> DEFINE c == [cpu EXCEPT !.at = "fellThrough"]
  <2>1. /\ Running /\ cpu.at = "exited" /\ Schedule(c) /\ UNCHANGED is_first_call
    BY <1>2 DEF ExitSchedule, At, Running
  <2>2. c \in Exec
    BY CpuType DEF Exec, CodePoints, MInv
  <2>3. MayReturnTo(c) /\ SameWait(c)
    BY <2>1 DEF MayReturnTo, SameWait, WaitPoints, MInv, CoreInv, ExecutingInv,
                Exiting, TypeOK
  <2>4. QED
    BY <2>1, <2>2, <2>3, ScheduleMutex DEF mutexState
<1>3. CASE Alarm
  <2>1. CASE is_first_call
    BY <1>3, <2>1, HaltedPart DEF Alarm, Running
  <2>2. CASE ~is_first_call
    <3>1. /\ Running /\ Schedule(cpu) /\ cpu \in Exec /\ UNCHANGED is_first_call
      BY <1>3, <2>2 DEF Alarm, Running, MInv, TypeOK, Exec
    <3>2. MayReturnTo(cpu) /\ SameWait(cpu)
      BY <2>2, <3>1 DEF MayReturnTo, SameWait, MInv, CoreInv, ExecutingInv
    <3>3. QED
      BY <3>1, <3>2, ScheduleMutex DEF mutexState
  <2>3. QED
    BY <2>1, <2>2
<1>4. CASE ExitProcess
  BY <1>4, HaltedPart DEF ExitProcess, Running
<1>5. CASE UNCHANGED coreVars
  BY <1>5 DEF coreVars, mutexState, MInv, MutexPart, BlockedInv, UnbornInv,
     ClosedInv, QueueInv, MutualExclusion, Running, Granted, Waiting, Place,
     MainForced, MainLost
<1>6. QED
  BY <1>1, <1>2, <1>3, <1>4, <1>5, ExitMarkMutex, CreateInitMutex,
     SchedulerInitMutex,
     ExitToMainMutex DEF CoreStep
----------------------------------------------------------------------------
(* The mutex operations.  They change the status of at most one thread,    *)
(* between READY, RUNNING and BLOCKED, and where the executing one is.     *)
LEMMA MutexOpCore ==
    ASSUME TypeOK, CoreInv, Running,
           UNCHANGED <<buf, topThread, currentThreadID, numOfThreads,
                       exitedThreads, is_first_call>>,
           cpu'.of = cpu.of,
           cpu.at \notin Exiting \cup {"creating", "starting"},
           cpu'.at \notin Exiting \cup {"creating", "starting", "fellThrough"},
           \A t \in Tids : t # 0 \/ ~is_first_call =>
                (status'[t] = "EXITED" <=> status[t] = "EXITED"),
           is_first_call => status'[0] \in Stopped,
           is_first_call /\ status'[0] = "BLOCKED" => cpu'.at # "user"
    PROVE  CoreInv'
<1>1. FirstInv'
  BY DEF CoreInv, FirstInv
<1>2. ExecutingInv'
  <2> SUFFICES ASSUME Running' PROVE ExecutingInv'
    BY DEF ExecutingInv
  <2>1. topThread # currentThreadID => ~is_first_call
    BY DEF CoreInv, FirstInv
  <2>2. QED
    BY <2>1 DEF CoreInv, ExecutingInv, TypeOK, Exiting
<1>3. SavedInv'
  BY DEF CoreInv, SavedInv, FirstInv, NotSaved
<1>4. CreatedInv'
  <2>1. \A t \in Tids \ {0} : Unused(t) => Unused(t)'
    BY DEF Unused
  <2>2. \A t \in Tids : Place(t)'.at = "creating" => Place(t).at = "creating"
    BY DEF Place
  <2>3. numOfThreads >= 0
    BY DEF TypeOK
  <2>4. QED
    BY <2>1, <2>2, <2>3, ZeroTid DEF CoreInv, CreatedInv, TypeOK, Tids
<1>5. NoContextLost'
  BY DEF CoreInv, NoContextLost, TypeOK
<1>6. CountedInv'
  <2>1. Finished \subseteq Finished'
    BY DEF Finished, Exiting
  <2>2. QED
    BY <2>1, CountedKept DEF CoreInv
<1>7. QED
  BY <1>1, <1>2, <1>3, <1>4, <1>5, <1>6 DEF CoreInv

(* Where a program that makes a mutex call stands. *)
LEMMA Caller ==
    ASSUME MInv, At("user")
    PROVE  /\ Running /\ cpu.of = currentThreadID /\ cpu.of \in Tids
           /\ Place(cpu.of) = cpu
           /\ cpu.at \notin WaitPoints \cup Exiting
                    \cup {"creating", "starting", "fellThrough"}
           /\ status[cpu.of] # "BLOCKED"
           /\ status[cpu.of] # "EXITED" \/ is_first_call
           /\ cpu.of = 0 => ~MainLost
           /\ cpu.of # 0 => buf[cpu.of].at = "dead"
           /\ is_first_call => cpu.of = 0 /\ status[0] \in Stopped
BY DEF At, Running, MInv, TypeOK, CoreInv, ExecutingInv, FirstInv, MutexPart,
       BlockedInv, WaitPoints, Exiting, Place, MainLost

LEMMA MutexInitStep ==
    ASSUME MInv, MutexInit
    PROVE  CoreInv' /\ MutexPart'
<1>1. /\ Running /\ mutexId \in Mutexes
      /\ __lock' = [__lock EXCEPT ![mutexId] = 1]
      /\ mutexThreadLists' = [mutexThreadLists EXCEPT ![mutexId] = <<>>]
      /\ mutexId' = mutexId + 1
      /\ UNCHANGED <<coreVars, held>>
  BY MutexAssumption, ThreadsAssumption
     DEF MutexInit, At, Running, MInv, MState, Mutexes
<1>2. CoreInv'
  BY <1>1 DEF coreVars, MInv, CoreInv, FirstInv, ExecutingInv, SavedInv, CreatedInv,
              NoContextLost, CountedInv, Running, Place, Unused, Finished
<1>3. mutexThreadLists[mutexId] = <<>>
  BY <1>1 DEF MInv, MState, MutexPart, UnbornInv, Mutexes
<1>4. mutexThreadLists' = mutexThreadLists
  BY <1>1, <1>3 DEF MInv, MState
<1>5. \A u \in Tids : ~Waiting(u, mutexId) /\ mutexId \notin held[u]
  BY <1>1 DEF MInv, MState, MutexPart, UnbornInv, Waiting, Mutexes
<1>6. UnbornInv'
  <2>1. \A u \in Tids : Place(u)' = Place(u) /\ Place(u).on \in Nat
    BY <1>1 DEF coreVars, Place, MInv, TypeOK, Context
  <2>2. \A u \in Tids : Place(u).at \in WaitPoints => Place(u).on < mutexId
    BY <1>1 DEF MInv, MutexPart, UnbornInv
  <2>3. \A k \in Mutexes : k >= mutexId + 1 => k >= mutexId
    BY DEF MInv, MState, Mutexes
  <2>4. \A u \in Tids : Place(u)'.at \in WaitPoints => Place(u)'.on < mutexId + 1
    BY <2>1, <2>2 DEF MInv, MState
  <2>5. cpu.at = "starting" => \A t \in Tids \ {0} :
            held[t] = {} /\ Place(t)'.at \notin WaitPoints
    BY <1>1, <2>1 DEF MInv, MutexPart, UnbornInv
  <2>6. QED
    BY <1>1, <1>4, <2>3, <2>4, <2>5 DEF coreVars, MInv, MutexPart, UnbornInv
<1>7. ClosedInv'
  BY <1>1, <1>3, <1>4, <1>5 DEF coreVars, MInv, MState, MutexPart, ClosedInv,
                               Waiting, Place, Running
<1>8. BlockedInv' /\ QueueInv' /\ MutualExclusion'
  BY <1>1, <1>4 DEF coreVars, MInv, MutexPart, BlockedInv, QueueInv,
                    MutualExclusion, MainForced, MainLost, Granted, Waiting,
                    Place, Running
<1>9. QED
  BY <1>2, <1>6, <1>7, <1>8 DEF MutexPart

LEMMA MutexClaimStep ==
    ASSUME MInv, NEW m \in Mutexes, MutexClaim(m)
    PROVE  CoreInv' /\ MutexPart'
<1> DEFINE me == cpu.of
<1>1. /\ At("user") /\ m < mutexId /\ __lock[m] = 1
      /\ __lock' = [__lock EXCEPT ![m] = 0]
      /\ held' = [held EXCEPT ![me] = @ \cup {m}]
      /\ UNCHANGED <<status, buf, topThread, currentThreadID, numOfThreads,
                     exitedThreads, is_first_call, cpu, process, mutexId,
                     mutexThreadLists>>
  BY DEF MutexClaim
<1>2. CoreInv'
  BY <1>1, Caller, MutexOpCore DEF MInv
<1>3. /\ mutexThreadLists[m] = <<>>
      /\ \A u \in Tids : ~Waiting(u, m) /\ m \notin held[u]
  BY <1>1, Caller DEF MInv, MutexPart, ClosedInv
<1>4. /\ __lock'[m] = 0 /\ \A k \in Mutexes \ {m} : __lock'[k] = __lock[k]
      /\ held'[me] = held[me] \cup {m}
      /\ \A u \in Tids \ {me} : held'[u] = held[u]
  BY <1>1, Caller DEF MInv, MState
<1>5. \A u \in Tids, k \in Mutexes :
        /\ Waiting(u, k)' <=> Waiting(u, k)
        /\ u # me \/ k # m => (Granted(u, k)' <=> Granted(u, k))
        /\ ~Granted(u, m)
  BY <1>1, <1>3, <1>4 DEF Waiting, Granted, Place
<1>6. (MainLost' <=> MainLost) /\ \A k \in Mutexes \ {m} : MainForced(k) => MainForced(k)'
  BY <1>1, <1>4, <1>5, ZeroTid DEF MainForced, MainLost
<1>7. BlockedInv'
  BY <1>1 DEF MInv, MutexPart, BlockedInv, Running
<1>8. UnbornInv'
  BY <1>1, <1>4, Caller DEF MInv, MState, MutexPart, UnbornInv, Place, Mutexes
<1>9. ClosedInv'
  BY <1>1, <1>4, <1>5, Caller DEF MInv, MutexPart, ClosedInv
<1>10. QueueInv'
  <2> SUFFICES ASSUME NEW k \in Mutexes, NEW i \in DOMAIN mutexThreadLists[k],
                      NEW u \in Tids, u = mutexThreadLists[k][i]
               PROVE  \/ Waiting(u, k)' /\ status'[u] = "BLOCKED"
                      \/ u = 0 /\ ~is_first_call /\ MainLost'
                      \/ u = 0 /\ ~is_first_call /\ i = 1 /\ MainForced(k)'
    BY <1>1, Caller DEF MInv, MState, MutexPart, QueueInv
  <2>1. k # m
    BY <1>3
  <2>2. QED
    BY <1>1, <1>5, <1>6, <2>1, Caller DEF MInv, MutexPart, QueueInv
<1>11. MutualExclusion'
  BY <1>1, <1>5, Caller DEF MInv, MutexPart, MutualExclusion, Running
<1>12. QED
  BY <1>2, <1>7, <1>8, <1>9, <1>10, <1>11 DEF MutexPart

LEMMA MutexReleaseStep ==
    ASSUME MInv, NEW m \in Mutexes, MutexRelease(m)
    PROVE  CoreInv' /\ MutexPart'
<1> DEFINE me == cpu.of
<1>1. /\ At("user") /\ mutexThreadLists[m] = <<>>
      /\ __lock' = [__lock EXCEPT ![m] = 0]
      /\ held' = [held EXCEPT ![me] = @ \ {m}]
      /\ UNCHANGED <<status, buf, topThread, currentThreadID, numOfThreads,
                     exitedThreads, is_first_call, cpu, process, mutexId,
                     mutexThreadLists>>
  BY DEF MutexRelease
<1>2. CoreInv'
  BY <1>1, Caller, MutexOpCore DEF MInv
<1>3. /\ __lock'[m] = 0 /\ \A k \in Mutexes \ {m} : __lock'[k] = __lock[k]
      /\ held'[me] = held[me] \ {m}
      /\ \A u \in Tids \ {me} : held'[u] = held[u]
  BY <1>1, Caller DEF MInv, MState
<1>4. \A u \in Tids, k \in Mutexes :
        /\ Waiting(u, k)' <=> Waiting(u, k)
        /\ Granted(u, k)' => Granted(u, k)
        /\ k # m => (Granted(u, k)' <=> Granted(u, k))
  BY <1>1, <1>3 DEF Waiting, Granted, Place
<1>5. (MainLost' <=> MainLost) /\ \A k \in Mutexes \ {m} : MainForced(k) => MainForced(k)'
  BY <1>1, <1>3, <1>4, ZeroTid DEF MainForced, MainLost
<1>6. BlockedInv'
  BY <1>1 DEF MInv, MutexPart, BlockedInv, Running
<1>7. UnbornInv'
  BY <1>1, <1>3, Caller DEF MInv, MState, MutexPart, UnbornInv, Place, Mutexes
<1>8. ClosedInv'
  BY <1>1, <1>3, <1>4, Caller DEF MInv, MutexPart, ClosedInv
<1>9. QueueInv'
  <2> SUFFICES ASSUME NEW k \in Mutexes, NEW i \in DOMAIN mutexThreadLists[k],
                      NEW u \in Tids, u = mutexThreadLists[k][i]
               PROVE  \/ Waiting(u, k)' /\ status'[u] = "BLOCKED"
                      \/ u = 0 /\ ~is_first_call /\ MainLost'
                      \/ u = 0 /\ ~is_first_call /\ i = 1 /\ MainForced(k)'
    BY <1>1, Caller DEF MInv, MState, MutexPart, QueueInv
  <2>1. k # m
    BY <1>1
  <2>2. QED
    BY <1>1, <1>4, <1>5, <2>1, Caller DEF MInv, MutexPart, QueueInv
<1>10. MutualExclusion'
  BY <1>1, <1>4, Caller DEF MInv, MutexPart, MutualExclusion, Running
<1>11. QED
  BY <1>2, <1>6, <1>7, <1>8, <1>9, <1>10 DEF MutexPart
LEMMA MutexReturnStep ==
    ASSUME MInv, MutexReturn
    PROVE  CoreInv' /\ MutexPart'
<1> DEFINE me == cpu.of
           m  == cpu.on
<1>1. /\ Running /\ cpu.at = "mutexReturn" /\ me \in Tids /\ Place(me) = cpu
      /\ cpu' = [cpu EXCEPT !.at = "user"]
      /\ held' = [held EXCEPT ![me] = @ \cup {m}]
      /\ UNCHANGED <<status, buf, topThread, currentThreadID, numOfThreads,
                     exitedThreads, is_first_call, process, mutexId,
                     __lock, mutexThreadLists>>
  BY DEF MutexReturn, At, Goto, Running, MInv, TypeOK, Place
<1>2. cpu'.of = me /\ cpu'.at = "user"
  BY <1>1 DEF MInv, TypeOK
<1>3. CoreInv'
  <2>1. is_first_call => status'[0] \in Stopped /\ status'[0] # "BLOCKED"
    BY <1>1 DEF MInv, CoreInv, FirstInv, MutexPart, BlockedInv
  <2>2. QED
    BY <1>1, <1>2, <2>1, MutexOpCore DEF MInv, Exiting
<1>4. m \in Mutexes /\ m < mutexId
  <2>1. m < mutexId
    BY <1>1 DEF MInv, MutexPart, UnbornInv, WaitPoints
  <2>2. m \in Nat /\ mutexId \in 0..MUTEX_LIMIT /\ MUTEX_LIMIT \in Int
    BY MutexAssumption, ThreadsAssumption DEF MInv, MState, TypeOK
  <2>3. QED
    BY <2>1, <2>2 DEF Mutexes
<1>5. Waiting(me, m) /\ Granted(me, m) /\ (is_first_call \/ status[me] # "EXITED")
  BY <1>1 DEF MInv, MutexPart, BlockedInv, CoreInv, ExecutingInv, Exiting,
              Waiting, Granted, WaitPoints
<1>6. /\ held'[me] = held[me] \cup {m}
      /\ \A u \in Tids \ {me} : held'[u] = held[u]
  BY <1>1 DEF MInv, MState
<1>7. \A u \in Tids : /\ u # me => Place(u)' = Place(u)
                      /\ Place(me)'.at \notin WaitPoints
  BY <1>1, <1>2 DEF Place, WaitPoints
<1>8. \A u \in Tids, k \in Mutexes :
        /\ Waiting(u, k)' => Waiting(u, k)
        /\ Waiting(u, k) => Waiting(u, k)' \/ (u = me /\ k = m)
        /\ Granted(u, k)' <=> Granted(u, k)
  BY <1>1, <1>5, <1>6, <1>7 DEF Waiting, Granted
<1>9. /\ MainLost' <=> MainLost
      /\ \A k \in Mutexes : MainForced(k) => MainForced(k)'
  BY <1>1, <1>2, <1>6, <1>8, ZeroTid DEF MainForced, MainLost
<1>10. BlockedInv'
  BY <1>1, <1>2 DEF MInv, MutexPart, BlockedInv
<1>11. UnbornInv'
  <2>1. me # 0 => buf[me].at # "unset"
    BY <1>1 DEF MInv, CoreInv, ExecutingInv
  <2>2. \A u \in Tids : Place(u)'.at \in WaitPoints => Place(u)'.on < mutexId
    BY <1>1, <1>7 DEF MInv, MutexPart, UnbornInv
  <2>3. \A k \in Mutexes : k >= mutexId => k # m
    BY <1>4 DEF MInv, MState, Mutexes
  <2>4. QED
    BY <1>1, <1>6, <2>1, <2>2, <2>3 DEF MInv, MutexPart, UnbornInv
<1>12. ClosedInv'
  BY <1>1, <1>5, <1>6, <1>8 DEF MInv, MutexPart, ClosedInv
<1>13. QueueInv'
  <2> SUFFICES ASSUME NEW k \in Mutexes, NEW i \in DOMAIN mutexThreadLists[k],
                      NEW u \in Tids, u = mutexThreadLists[k][i]
               PROVE  \/ Waiting(u, k)' /\ status'[u] = "BLOCKED"
                      \/ u = 0 /\ ~is_first_call /\ MainLost'
                      \/ u = 0 /\ ~is_first_call /\ i = 1 /\ MainForced(k)'
    BY <1>1 DEF MInv, MState, MutexPart, QueueInv
  <2>1. status[me] # "BLOCKED"
    BY <1>1 DEF MInv, MutexPart, BlockedInv
  <2>2. QED
    BY <1>1, <1>8, <1>9, <2>1 DEF MInv, MutexPart, QueueInv
<1>14. MutualExclusion'
  BY <1>1, <1>8 DEF MInv, MutexPart, MutualExclusion, Running
<1>15. QED
  BY <1>3, <1>10, <1>11, <1>12, <1>13, <1>14 DEF MutexPart

LEMMA MutexYieldStep ==
    ASSUME MInv, MutexYield
    PROVE  CoreInv' /\ MutexPart'
<1> DEFINE c == [cpu EXCEPT !.at = "mutexReturn"]
<1>1. /\ Running /\ cpu.at = "mutexYield" /\ Schedule(c)
      /\ UNCHANGED <<numOfThreads, exitedThreads, is_first_call, mutexState>>
  BY DEF MutexYield, At, Running
<1>2. c \in Exec
  BY CpuType DEF Exec, CodePoints, MInv
<1>3. MayReturnTo(c) /\ SameWait(c)
  BY <1>1 DEF MayReturnTo, SameWait, WaitPoints, MInv, CoreInv, ExecutingInv,
              Exiting, TypeOK
<1>4. QED
  BY <1>1, <1>2, <1>3, ScheduleCore, ScheduleMutex DEF MInv, mutexState

LEMMA MutexEnqueueStep ==
    ASSUME MInv, NEW m \in Mutexes, MutexEnqueue(m)
    PROVE  CoreInv' /\ MutexPart'
<1> DEFINE me == cpu.of
           list == mutexThreadLists[m]
<1>1. /\ At("user") /\ m < mutexId /\ m \notin held[me] /\ __lock[m] = 0
      /\ status' = [status EXCEPT ![me] = "BLOCKED"]
      /\ mutexThreadLists' = [mutexThreadLists EXCEPT ![m] = Append(@, me)]
      /\ cpu' = Ctx(me, "mutexYield", m)
      /\ UNCHANGED <<buf, topThread, currentThreadID, numOfThreads,
                     exitedThreads, is_first_call, process, mutexId, __lock, held>>
  BY Caller DEF MutexEnqueue
<1>2. cpu'.of = me /\ cpu'.at = "mutexYield" /\ cpu'.on = m
  BY <1>1 DEF Ctx
<1>3. status'[me] = "BLOCKED" /\ \A u \in Tids \ {me} : status'[u] = status[u]
  BY <1>1, Caller DEF MInv, TypeOK
<1>4. CoreInv'
  BY <1>1, <1>2, <1>3, Caller, MutexOpCore DEF MInv, Stopped, Exiting
<1>5. /\ \A k \in Mutexes \ {m} : mutexThreadLists'[k] = mutexThreadLists[k]
      /\ list \in Seq(Tids) /\ DOMAIN list = 1..Len(list) /\ Len(list) \in Nat
      /\ mutexThreadLists'[m] = Append(list, me)
      /\ DOMAIN mutexThreadLists'[m] = 1..(Len(list) + 1)
      /\ \A i \in DOMAIN list : mutexThreadLists'[m][i] = list[i]
      /\ mutexThreadLists'[m][Len(list) + 1] = me
  <2>1. /\ \A k \in Mutexes \ {m} : mutexThreadLists'[k] = mutexThreadLists[k]
        /\ list \in Seq(Tids)
        /\ mutexThreadLists'[m] = Append(list, me)
    BY <1>1 DEF MInv, MState
  <2>2. QED
    BY <1>1, <2>1, Caller, AppendProperties, LenProperties
<1>6. \A u \in Tids : u # me => Place(u)' = Place(u)
  BY <1>1, <1>2 DEF Place
<1>7. \A u \in Tids : u = me => Place(u)' = cpu'
  BY <1>2 DEF Place
<1>8. \A u \in Tids, k \in Mutexes :
        /\ u = me => ~Waiting(u, k) /\ (Waiting(u, k)' <=> k = m)
        /\ u # me => (Waiting(u, k)' <=> Waiting(u, k))
        /\ Granted(u, k)' <=> Granted(u, k)
  BY <1>1, <1>2, <1>3, <1>6, <1>7, Caller DEF Waiting, Granted, WaitPoints
<1>9. /\ MainLost => MainLost'
      /\ \A k \in Mutexes : MainForced(k) => MainForced(k)'
  BY <1>1, <1>2, <1>3, <1>8, ZeroTid, Caller DEF MainForced, MainLost
<1>10. \A i \in DOMAIN list : list[i] # me
  <2> SUFFICES ASSUME NEW i \in DOMAIN list, list[i] = me PROVE FALSE
    OBVIOUS
  <2>1. Waiting(me, m) \/ (me = 0 /\ MainLost) \/ (me = 0 /\ MainForced(m))
    BY Caller, <1>1 DEF MInv, MutexPart, QueueInv
  <2>2. QED
    BY <1>1, <1>8, <2>1, Caller DEF MainForced, Granted
<1>11. BlockedInv'
  BY <1>2 DEF BlockedInv
<1>12. UnbornInv'
  <2>1. \A u \in Tids : Place(u)'.at \in WaitPoints => Place(u)'.on < mutexId
    BY <1>1, <1>2, <1>6, <1>7, Caller DEF MInv, MutexPart, UnbornInv
  <2>2. \A k \in Mutexes : k >= mutexId => k # m
    BY <1>1 DEF MInv, MState, Mutexes
  <2>3. QED
    BY <1>1, <1>2, <1>5, <2>1, <2>2, Caller DEF MInv, MutexPart, UnbornInv
<1>13. ClosedInv'
  <2> SUFFICES ASSUME NEW k \in Mutexes, k # m,
                      \/ mutexThreadLists'[k] # <<>>
                      \/ \E t \in Tids : Waiting(t, k)' \/ k \in held'[t]
               PROVE  __lock'[k] = 0
    BY <1>1 DEF ClosedInv
  <2>1. \/ mutexThreadLists[k] # <<>>
        \/ \E t \in Tids : Waiting(t, k) \/ k \in held[t]
    BY <1>1, <1>5, <1>8
  <2>2. QED
    BY <1>1, <2>1, Caller DEF MInv, MutexPart, ClosedInv
<1>14. QueueInv'
  <2>1. ASSUME NEW k \in Mutexes, NEW i \in DOMAIN mutexThreadLists'[k],
               NEW u \in Tids, u = mutexThreadLists'[k][i]
        PROVE  /\ \A j \in DOMAIN mutexThreadLists'[k] :
                    mutexThreadLists'[k][j] = u => i = j
               /\ \/ Waiting(u, k)' /\ status'[u] = "BLOCKED"
                  \/ u = 0 /\ ~is_first_call /\ MainLost'
                  \/ u = 0 /\ ~is_first_call /\ i = 1 /\ MainForced(k)'
    <3>1. CASE k # m \/ i \in DOMAIN list
      <4>1. /\ i \in DOMAIN mutexThreadLists[k] /\ u = mutexThreadLists[k][i]
            /\ k = m => u # me
        BY <1>5, <1>10, <2>1, <3>1
      <4>2. /\ \A j \in DOMAIN mutexThreadLists[k] :
                    mutexThreadLists[k][j] = u => i = j
            /\ \/ Waiting(u, k) /\ status[u] = "BLOCKED"
               \/ u = 0 /\ ~is_first_call /\ MainLost
               \/ u = 0 /\ ~is_first_call /\ i = 1 /\ MainForced(k)
        BY <4>1, Caller, <1>1 DEF MInv, MutexPart, QueueInv
      <4>3. \A j \in DOMAIN mutexThreadLists'[k] :
                    mutexThreadLists'[k][j] = u => i = j
        BY <1>5, <4>1, <4>2
      <4>4. QED
        BY <1>3, <1>8, <1>9, <4>2, <4>3
    <3>2. CASE k = m /\ i = Len(list) + 1
      <4>1. u = me /\ status'[u] = "BLOCKED" /\ Waiting(u, k)'
        BY <1>3, <1>5, <1>8, <2>1, <3>2
      <4>2. \A j \in DOMAIN mutexThreadLists'[m] :
                    mutexThreadLists'[m][j] = me => j = Len(list) + 1
        BY <1>5, <1>10
      <4>3. QED
        BY <3>2, <4>1, <4>2
    <3>3. QED
      BY <1>5, <3>1, <3>2
  <2>2. \A k \in Mutexes : \A i \in DOMAIN mutexThreadLists'[k] :
            mutexThreadLists'[k][i] \in Tids
    BY <1>5, Caller, <1>1 DEF MInv, MState
  <2>3. QED
    BY <1>1, <2>1, <2>2 DEF QueueInv
<1>15. MutualExclusion'
  BY <1>1, <1>8, Caller DEF MInv, MutexPart, MutualExclusion, Running
<1>16. QED
  BY <1>4, <1>11, <1>12, <1>13, <1>14, <1>15 DEF MutexPart
(* The thread at the head of the list: blocked in lock(m), or main after   *)
(* the jump to it, which then has been lost or is the caller itself.       *)
LEMMA FirstInLine ==
    ASSUME MInv, NEW m \in Mutexes, At("user"), m \in held[cpu.of],
           mutexThreadLists[m] # <<>>
    PROVE  LET h == Head(mutexThreadLists[m])
           IN  /\ h \in Tids /\ ~is_first_call /\ status[h] # "EXITED"
               /\ Granted(cpu.of, m)
               /\ \/ Waiting(h, m) /\ status[h] = "BLOCKED" /\ h # cpu.of
                  \/ h = 0 /\ \A k \in Mutexes : ~Waiting(h, k)
<1> DEFINE me == cpu.of
           h  == Head(mutexThreadLists[m])
<1>1. /\ h = mutexThreadLists[m][1] /\ h \in Tids
      /\ 1 \in DOMAIN mutexThreadLists[m]
  BY HeadTailProperties DEF MInv, MState
<1>2. Granted(me, m)
  BY Caller DEF Granted
<1>3. \A k \in Mutexes : ~Waiting(me, k)
  BY Caller DEF Waiting
<1>4. \/ Waiting(h, m) /\ status[h] = "BLOCKED"
      \/ h = 0 /\ ~is_first_call /\ MainLost
      \/ h = 0 /\ ~is_first_call /\ MainForced(m)
  BY <1>1, Caller DEF MInv, MutexPart, QueueInv
<1>5. CASE Waiting(h, m) /\ status[h] = "BLOCKED"
  <2>1. h # me
    BY <1>3, <1>5
  <2>2. ~is_first_call
    BY <1>1, <1>5, <2>1, Caller DEF MInv, CoreInv, FirstInv
  <2>3. QED
    BY <1>1, <1>2, <1>5, <2>1, <2>2
<1>6. CASE h = 0 /\ ~is_first_call /\ MainLost
  BY <1>1, <1>2, <1>6 DEF MainLost, Waiting, Place, NotSaved, WaitPoints
<1>7. CASE h = 0 /\ ~is_first_call /\ MainForced(m)
  <2>1. me = 0
    BY <1>2, <1>7, Caller DEF MainForced
  <2>2. QED
    BY <1>1, <1>2, <1>3, <1>7, <2>1 DEF Granted
<1>8. QED
  BY <1>4, <1>5, <1>6, <1>7

LEMMA MutexHandOverStep ==
    ASSUME MInv, NEW m \in Mutexes, MutexHandOver(m)
    PROVE  CoreInv' /\ MutexPart'
<1> DEFINE me   == cpu.of
           list == mutexThreadLists[m]
           h    == Head(list)
<1>1. /\ At("user") /\ m \in held[me] /\ list # <<>>
      /\ status' = [status EXCEPT ![h] = "READY"]
      /\ mutexThreadLists' = [mutexThreadLists EXCEPT ![m] = Tail(@)]
      /\ held' = [held EXCEPT ![me] = @ \ {m}]
      /\ UNCHANGED <<buf, topThread, currentThreadID, numOfThreads,
                     exitedThreads, is_first_call, cpu, process, mutexId, __lock>>
  BY DEF MutexHandOver
<1>2. /\ h \in Tids /\ ~is_first_call /\ status[h] # "EXITED" /\ Granted(me, m)
      /\ \/ Waiting(h, m) /\ status[h] = "BLOCKED" /\ h # me
         \/ h = 0 /\ \A k \in Mutexes : ~Waiting(h, k)
  BY <1>1, FirstInLine
<1>3. status'[h] = "READY" /\ \A u \in Tids \ {h} : status'[u] = status[u]
  BY <1>1, <1>2 DEF MInv, TypeOK
<1>4. CoreInv'
  BY <1>1, <1>2, <1>3, Caller, MutexOpCore DEF MInv
<1>5. /\ \A k \in Mutexes \ {m} : mutexThreadLists'[k] = mutexThreadLists[k]
      /\ list \in Seq(Tids) /\ DOMAIN list = 1..Len(list) /\ Len(list) \in Nat
      /\ h = list[1] /\ 1 \in DOMAIN list
      /\ DOMAIN mutexThreadLists'[m] = 1..(Len(list) - 1)
      /\ \A i \in DOMAIN mutexThreadLists'[m] :
            i + 1 \in DOMAIN list /\ mutexThreadLists'[m][i] = list[i + 1]
  <2>1. /\ \A k \in Mutexes \ {m} : mutexThreadLists'[k] = mutexThreadLists[k]
        /\ list \in Seq(Tids)
        /\ mutexThreadLists'[m] = Tail(list)
    BY <1>1 DEF MInv, MState
  <2>2. /\ Tail(list) \in Seq(Tids) /\ Len(Tail(list)) = Len(list) - 1
        /\ \A i \in 1..Len(Tail(list)) : Tail(list)[i] = list[i + 1]
    BY <1>1, <2>1, HeadTailProperties
  <2>3. Len(list) \in Nat \ {0} /\ h = list[1]
    BY <1>1, <2>1, EmptySeq
  <2>4. QED
    BY <2>1, <2>2, <2>3, LenProperties
<1>6. /\ held'[me] = held[me] \ {m}
      /\ \A u \in Tids \ {me} : held'[u] = held[u]
  BY <1>1, Caller DEF MInv, MState
<1>7. \A u \in Tids, k \in Mutexes : Waiting(u, k)' <=> Waiting(u, k)
  BY <1>1 DEF Waiting, Place
<1>8. \A k \in Mutexes : Waiting(h, k) => k = m
  BY <1>2 DEF Waiting
<1>9. \A u \in Tids, k \in Mutexes : k # m => (Granted(u, k)' <=> Granted(u, k))
  BY <1>1, <1>2, <1>3, <1>6, <1>7, <1>8 DEF Granted
<1>10. \A u \in Tids : Granted(u, m)' => u = h
  <2> SUFFICES ASSUME NEW u \in Tids, Granted(u, m)', u # h PROVE FALSE
    OBVIOUS
  <2>1. u # me
    <3>1. ~Waiting(me, m) /\ me \in Tids
      BY <1>1, Caller DEF Waiting
    <3>2. ~Waiting(me, m)' /\ m \notin held'[me]
      BY <1>1, <1>6, <3>1 DEF Waiting, Place
    <3>3. QED
      BY <1>1, <3>2 DEF Granted, Waiting, Place
  <2>2. Granted(u, m)
    BY <1>1, <1>3, <1>6, <1>7, <2>1 DEF Granted
  <2>3. QED
    BY <1>1, <1>2, <2>1, <2>2, Caller, Exclusion DEF MInv, MutexPart
<1>11. /\ MainLost => MainLost'
       /\ \A k \in Mutexes \ {m} : MainForced(k) => MainForced(k)'
  BY <1>1, <1>2, <1>3, <1>6, <1>9, ZeroTid DEF MainForced, MainLost
<1>12. BlockedInv'
  BY <1>1, <1>3, Caller DEF BlockedInv
<1>13. UnbornInv'
  BY <1>1, <1>5, <1>6, <1>7, Caller
     DEF MInv, MState, MutexPart, UnbornInv, Place, Mutexes
<1>14. ClosedInv'
  <2>1. __lock[m] = 0
    BY <1>1, Caller DEF MInv, MutexPart, ClosedInv
  <2>2. QED
    BY <1>1, <1>5, <1>6, <1>7, <2>1, Caller DEF MInv, MutexPart, ClosedInv
<1>15. QueueInv'
  <2>1. ASSUME NEW k \in Mutexes, NEW i \in DOMAIN mutexThreadLists'[k],
               NEW u \in Tids, u = mutexThreadLists'[k][i]
        PROVE  /\ \A j \in DOMAIN mutexThreadLists'[k] :
                    mutexThreadLists'[k][j] = u => i = j
               /\ \/ Waiting(u, k)' /\ status'[u] = "BLOCKED"
                  \/ u = 0 /\ ~is_first_call /\ MainLost'
                  \/ u = 0 /\ ~is_first_call /\ i = 1 /\ MainForced(k)'
    <3>1. CASE k # m
      <4>1. /\ \A j \in DOMAIN mutexThreadLists[k] :
                    mutexThreadLists[k][j] = u => i = j
            /\ \/ Waiting(u, k) /\ status[u] = "BLOCKED"
               \/ u = 0 /\ ~is_first_call /\ MainLost
               \/ u = 0 /\ ~is_first_call /\ i = 1 /\ MainForced(k)
        BY <1>1, <1>5, <2>1, <3>1, Caller DEF MInv, MutexPart, QueueInv
      <4>2. Waiting(u, k) => u # h
        BY <1>8, <3>1
      <4>3. QED
        BY <1>3, <1>5, <1>7, <1>11, <3>1, <4>1, <4>2
    <3>2. CASE k = m
      <4>1. i + 1 \in DOMAIN list /\ u = list[i + 1] /\ i + 1 # 1 /\ i \in Int
        BY <1>5, <2>1, <3>2
      <4>2. /\ \A j \in DOMAIN list : list[j] = u => i + 1 = j
            /\ \/ Waiting(u, m) /\ status[u] = "BLOCKED"
               \/ u = 0 /\ ~is_first_call /\ MainLost
        BY <1>1, <4>1, Caller DEF MInv, MutexPart, QueueInv
      <4>3. u # h
        BY <1>5, <4>1, <4>2
      <4>4. \A j \in DOMAIN mutexThreadLists'[m] :
                    mutexThreadLists'[m][j] = u => i = j
        BY <1>5, <4>1, <4>2
      <4>5. QED
        BY <1>3, <1>7, <1>11, <3>2, <4>2, <4>3, <4>4
    <3>3. QED
      BY <3>1, <3>2
  <2>2. \A k \in Mutexes : \A i \in DOMAIN mutexThreadLists'[k] :
            mutexThreadLists'[k][i] \in Tids
    BY <1>5, Caller, <1>1 DEF MInv, MState
  <2>3. QED
    BY <1>1, <2>1, <2>2 DEF QueueInv
<1>16. MutualExclusion'
  BY <1>1, <1>9, <1>10, Caller DEF MInv, MutexPart, MutualExclusion, Running
<1>17. QED
  BY <1>4, <1>12, <1>13, <1>14, <1>15, <1>16 DEF MutexPart
----------------------------------------------------------------------------
(* A thread inside pthread_mutex_lock waits for a mutex, and not for any   *)
(* number, and what is resumed is what was saved.                          *)
WaitsInv ==
    /\ cpu.at \in WaitPoints => cpu.on < MUTEX_LIMIT
    /\ \A t \in Tids : buf[t].at \in WaitPoints => buf[t].on < MUTEX_LIMIT

LEMMA ReturnsFromMutex ==
    /\ TypeOK /\ WaitsInv => (At("mutexReturn") => cpu.on \in Mutexes)
    /\ MInv => (At("mutexReturn") => cpu.on \in Mutexes)
<1>1. TypeOK /\ WaitsInv => (At("mutexReturn") => cpu.on \in Mutexes)
  <2> SUFFICES ASSUME TypeOK, WaitsInv, At("mutexReturn") PROVE cpu.on \in Mutexes
    OBVIOUS
  <2>1. cpu.on \in Nat /\ cpu.on < MUTEX_LIMIT /\ MUTEX_LIMIT \in Int
    BY MutexAssumption, ThreadsAssumption DEF TypeOK, WaitsInv, At, WaitPoints
  <2>2. QED
    BY <2>1 DEF Mutexes
<1>2. MInv => (At("mutexReturn") => cpu.on \in Mutexes)
  <2> SUFFICES ASSUME MInv, At("mutexReturn") PROVE cpu.on \in Mutexes
    OBVIOUS
  <2>1. cpu.on < mutexId
    BY DEF At, Running, MInv, TypeOK, MutexPart, UnbornInv, Place, WaitPoints
  <2>2. /\ cpu.on \in Nat /\ mutexId \in 0..MUTEX_LIMIT /\ MUTEX_LIMIT \in Int
    BY MutexAssumption, ThreadsAssumption DEF MInv, MState, TypeOK
  <2>3. QED
    BY <2>1, <2>2 DEF Mutexes
<1>3. QED
  BY <1>1, <1>2

LEMMA ScheduleWaits ==
    ASSUME TypeOK, WaitsInv, NEW c \in Exec, Schedule(c),
           c.at \in WaitPoints => c.on < MUTEX_LIMIT
    PROVE  WaitsInv'
<1>1. WaitPoints \subseteq CodePoints
  BY DEF WaitPoints, CodePoints
<1>2. /\ cpu'.at \in WaitPoints => cpu'.on < MUTEX_LIMIT
      /\ \A t \in Tids : buf'[t].at \in WaitPoints => buf'[t].on < MUTEX_LIMIT
  BY <1>1, ScheduleContexts DEF WaitsInv
<1>3. QED
  BY <1>2 DEF WaitsInv

LEMMA CoreWaits ==
    ASSUME TypeOK, WaitsInv,
           CreateCount \/ ExitMark \/ CoreStep \/ Alarm \/ UNCHANGED coreVars
    PROVE  WaitsInv'
<1>1. cpu \in Exec
  BY DEF TypeOK, Exec
<1>2. CASE CreateCount \/ CreateNoMemory \/ ExitMark \/ ExitCount
  <2>1. cpu'.at \in {"creating", "user", "exiting", "exited"} /\ buf' = buf
    BY <1>1, <1>2 DEF CreateCount, CreateNoMemory, ExitMark, ExitCount, Goto, Ctx, Exec
  <2>2. QED
    BY <2>1 DEF WaitsInv, WaitPoints
<1>3. CASE CreateInit
  <2>1. cpu'.at \in {"user", "starting"} /\ buf' = [buf EXCEPT ![numOfThreads] = Ctx(numOfThreads, "user", 0)]
    BY <1>1, <1>3 DEF CreateInit, Goto, Exec
  <2>2. \A t \in Tids : buf'[t] = buf[t] \/ buf'[t].at = "user"
    BY <2>1 DEF TypeOK, Ctx
  <2>3. QED
    BY <2>1, <2>2 DEF WaitsInv, WaitPoints
<1>4. CASE ExitSchedule
  <2>1. PICK c \in Exec : c = [cpu EXCEPT !.at = "fellThrough"]
    BY CpuType DEF CodePoints, Exec
  <2>2. c.at = "fellThrough" /\ Schedule(c)
    BY <1>1, <1>4, <2>1 DEF ExitSchedule, Exec
  <2>3. QED
    BY <2>2, ScheduleWaits DEF WaitPoints
<1>5. CASE ExitToMain
  <2>1. Longjmp(buf, 0)
    BY <1>5 DEF ExitToMain
  <2>2. \A t \in Tids : buf'[t] = buf[t] \/ buf'[t].at = "dead"
    BY <2>1, ZeroTid DEF Longjmp, TypeOK, Context
  <2>3. cpu' \in {cpu, buf[0]}
    BY <2>1 DEF Longjmp
  <2>4. QED
    BY <2>2, <2>3, ZeroTid DEF WaitsInv, WaitPoints
<1>6. CASE Alarm
  <2>1. CASE UNCHANGED <<buf, cpu>>
    BY <2>1 DEF WaitsInv
  <2>2. CASE Schedule(cpu)
    BY <1>1, <2>2, ScheduleWaits DEF WaitsInv
  <2>3. QED
    BY <1>6, <2>1, <2>2 DEF Alarm
<1>7. CASE ExitProcess \/ UNCHANGED coreVars
  BY <1>7 DEF ExitProcess, coreVars, WaitsInv
<1>8. CASE SchedulerInit
  BY <1>1, <1>8 DEF SchedulerInit, Goto, Exec, WaitsInv, WaitPoints
<1>9. QED
  BY <1>2, <1>3, <1>4, <1>5, <1>6, <1>7, <1>8 DEF CoreStep

LEMMA WaitsStep ==
    ASSUME MTypeOK, WaitsInv, [MNext]_mutexVars
    PROVE  WaitsInv'
<1>1. TypeOK /\ cpu \in Exec
  BY DEF MTypeOK, TypeOK, Exec
<1>2. CASE [CreateCount \/ ExitMark \/ CoreStep \/ Alarm \/ Halted]_coreVars
  BY <1>1, <1>2, CoreWaits DEF Halted
<1>3. CASE MutexInit
  BY <1>3 DEF MutexInit, coreVars, WaitsInv
<1>4. ASSUME NEW m \in Mutexes, MutexLock(m) \/ MutexUnlock(m)
      PROVE  WaitsInv'
  <2>1. CASE MutexEnqueue(m)
    <3>1. cpu'.on = m /\ buf' = buf
      BY <2>1 DEF MutexEnqueue, Ctx
    <3>2. m < MUTEX_LIMIT
      BY MutexAssumption, ThreadsAssumption DEF Mutexes
    <3>3. QED
      BY <3>1, <3>2 DEF WaitsInv
  <2>2. CASE MutexClaim(m) \/ MutexUnlock(m)
    BY <2>2 DEF MutexClaim, MutexUnlock, MutexRelease, MutexHandOver, WaitsInv
  <2>3. QED
    BY <1>4, <2>1, <2>2 DEF MutexLock
<1>5. CASE MutexYield
  <2>1. PICK c \in Exec : c = [cpu EXCEPT !.at = "mutexReturn"]
    BY <1>1, CpuType DEF CodePoints, Exec
  <2>2. Schedule(c) /\ c.on = cpu.on /\ cpu.at \in WaitPoints
    BY <1>1, <1>5, <2>1 DEF MutexYield, At, Exec, WaitPoints
  <2>3. QED
    BY <1>1, <2>2, ScheduleWaits DEF WaitsInv
<1>6. CASE MutexReturn
  <2>1. cpu'.at = "user" /\ buf' = buf
    BY <1>1, <1>6 DEF MutexReturn, Goto, Exec
  <2>2. QED
    BY <2>1 DEF WaitsInv, WaitPoints
<1>7. QED
  BY <1>2, <1>3, <1>4, <1>5, <1>6 DEF MNext, MutexCall, MutexStep, mutexVars

LEMMA InitWaits == Init => WaitsInv
<1> SUFFICES ASSUME Init PROVE WaitsInv
  OBVIOUS
<1>1. cpu.at = "user" /\ \A t \in Tids : buf[t].at = "unset"
  BY DEF Init, Ctx
<1>2. QED
  BY <1>1 DEF WaitsInv, WaitPoints

LEMMA MutexTypeStep ==
    ASSUME MTypeOK, At("mutexReturn") => cpu.on \in Mutexes, [MNext]_mutexVars
    PROVE  MTypeOK'
<1>1. CASE MutexYield \/ ([Next]_coreVars /\ UNCHANGED mutexState)
  <2>1. UNCHANGED mutexState
    BY <1>1 DEF MutexYield
  <2>2. TypeOK'
    <3>1. CASE MutexYield
      <4> DEFINE c == [cpu EXCEPT !.at = "mutexReturn"]
      <4>1. Schedule(c) /\ UNCHANGED <<numOfThreads, exitedThreads, alarm, is_first_call>>
        BY <3>1 DEF MutexYield
      <4>2. c \in [of : Tids, at : CodePoints, on : Nat]
        BY CpuType DEF CodePoints, MTypeOK
      <4>3. QED
        BY <4>1, <4>2, ScheduleType DEF MTypeOK, TypeOK
    <3>2. QED
      BY <1>1, <3>1, TypeStep DEF MTypeOK
  <2>3. QED
    BY <2>1, <2>2 DEF MTypeOK, mutexState
<1>2. CASE MutexInit
  <2>1. MState'
    <3>1. mutexId \in Mutexes /\ mutexId' \in 0..MUTEX_LIMIT
      BY <1>2, MutexAssumption, ThreadsAssumption
         DEF MutexInit, MTypeOK, Mutexes
    <3>2. <<>> \in Seq(Tids)
      OBVIOUS
    <3>3. QED
      BY <1>2, <3>1, <3>2 DEF MutexInit, MTypeOK, MState
  <2>2. QED
    BY <1>2, <2>1 DEF MutexInit, MTypeOK, MState, TypeOK, coreVars
<1>3. ASSUME NEW m \in Mutexes, MutexClaim(m) \/ MutexRelease(m)
      PROVE  MTypeOK'
  <2>1. TypeOK'
    BY <1>3 DEF MutexClaim, MutexRelease, MTypeOK, TypeOK
  <2>2. /\ __lock' = [__lock EXCEPT ![m] = 0]
        /\ \E x \in Tids \cup {NoOwner} : __owner' = [__owner EXCEPT ![m] = x]
        /\ \E x \in SUBSET Mutexes : held' = [held EXCEPT ![cpu.of] = x]
        /\ UNCHANGED <<mutexId, mutexThreadLists>>
    <3>1. held[cpu.of] \cup {m} \in SUBSET Mutexes /\ held[cpu.of] \ {m} \in SUBSET Mutexes
      BY DEF MTypeOK, TypeOK
    <3>2. CASE MutexClaim(m)
      BY <3>1, <3>2 DEF MutexClaim, MTypeOK, TypeOK
    <3>3. CASE MutexRelease(m)
      BY <3>1, <3>3 DEF MutexRelease
    <3>4. QED
      BY <1>3, <3>2, <3>3
  <2>3. QED
    BY <2>1, <2>2 DEF MTypeOK
<1>4. ASSUME NEW m \in Mutexes, MutexEnqueue(m)
      PROVE  MTypeOK'
  <2>1. /\ status' = [status EXCEPT ![currentThreadID] = "BLOCKED"]
        /\ cpu' = Ctx(cpu.of, "mutexYield", m)
        /\ mutexThreadLists' = [mutexThreadLists EXCEPT ![m] = Append(@, currentThreadID)]
        /\ alarm' = TRUE
        /\ UNCHANGED <<buf, topThread, currentThreadID, numOfThreads, exitedThreads,
                       is_first_call, process, mutexId, __lock, __owner, held>>
    BY <1>4 DEF MutexEnqueue
  <2>2. status' \in [Tids -> Status]
    BY <2>1 DEF MTypeOK, TypeOK, Status
  <2>3. cpu' \in [of : Tids, at : CodePoints, on : Nat]
    BY <2>1 DEF MTypeOK, TypeOK, Ctx, CodePoints, Mutexes
  <2>4. Append(mutexThreadLists[m], currentThreadID) \in Seq(Tids)
    BY AppendProperties DEF MTypeOK, TypeOK
  <2>5. mutexThreadLists' \in [Mutexes -> Seq(Tids)]
    BY <2>1, <2>4 DEF MTypeOK
  <2>6. QED
    BY <2>1, <2>2, <2>3, <2>5 DEF MTypeOK, TypeOK
<1>5. ASSUME NEW m \in Mutexes, MutexHandOver(m)
      PROVE  MTypeOK'
  <2>1. /\ Tail(mutexThreadLists[m]) \in Seq(Tids)
        /\ Head(mutexThreadLists[m]) \in Tids
    BY <1>5, HeadTailProperties DEF MutexHandOver, MTypeOK
  <2>2. QED
    BY <1>5, <2>1 DEF MutexHandOver, MTypeOK, TypeOK, Status
<1>6. CASE MutexReturn
  <2>1. cpu' \in [of : Tids, at : CodePoints, on : Nat]
    BY <1>6, CpuType DEF MutexReturn, Goto, MTypeOK, CodePoints
  <2>2. cpu.on \in Mutexes
    BY <1>6 DEF MutexReturn
  <2>3. held' \in [Tids -> SUBSET Mutexes]
    BY <1>6, <2>2 DEF MutexReturn, MTypeOK
  <2>4. QED
    BY <1>6, <2>1, <2>3 DEF MutexReturn, MTypeOK, TypeOK
<1>7. CASE UNCHANGED mutexVars
  BY <1>7 DEF mutexVars, coreVars, mutexState, MTypeOK, TypeOK
<1>8. QED
  BY <1>1, <1>2, <1>3, <1>4, <1>5, <1>6, <1>7
     DEF MNext, Next, MutexCall, MutexLock, MutexUnlock, MutexStep

LEMMA InitMutex == MInit => MTypeOK /\ MInv
<1> SUFFICES ASSUME MInit PROVE MTypeOK /\ MInv
  OBVIOUS
<1>1. TypeOK /\ CoreInv
  BY InitCore DEF MInit
<1>2. MState
  <2>1. 0 \in 0..MUTEX_LIMIT
    BY MutexAssumption, ThreadsAssumption
  <2>2. <<>> \in Seq(Tids)
    OBVIOUS
  <2>3. QED
    BY <2>1, <2>2, ZeroTid DEF MInit, MutexInitial, MState
<1>3. /\ \A u \in Tids : Place(u).at \notin WaitPoints /\ held[u] = {}
      /\ \A m \in Mutexes : mutexThreadLists[m] = <<>>
  BY ZeroTid DEF MInit, MutexInitial, Init, Place, WaitPoints, Ctx
<1>4. UnbornInv /\ ClosedInv /\ MutualExclusion
  BY <1>3 DEF UnbornInv, ClosedInv, MutualExclusion, Waiting, Granted
<1>5. QueueInv
  BY <1>3 DEF QueueInv
<1>6. BlockedInv
  BY ZeroTid DEF MInit, Init, BlockedInv, Ctx
<1>7. QED
  BY <1>1, <1>2, <1>4, <1>5, <1>6 DEF MInv, MutexPart, MState, MTypeOK

LEMMA MutexInvStep ==
    ASSUME OnlyMainCreates, MTypeOK, MInv, [MNext]_mutexVars
    PROVE  MTypeOK' /\ MInv'
<1>1. MTypeOK' /\ MState'
  BY MutexTypeStep, ReturnsFromMutex DEF MTypeOK, MState
<1>2. CASE [CreateCount \/ ExitMark \/ CoreStep \/ Alarm \/ Halted]_coreVars
            /\ UNCHANGED mutexState
  BY <1>1, <1>2, CoreStepInv, CoreMutex DEF Halted, MInv, MTypeOK
<1>3. CASE MutexInit
  BY <1>1, <1>3, MutexInitStep DEF MInv, MTypeOK
<1>4. ASSUME NEW m \in Mutexes, MutexLock(m) \/ MutexUnlock(m)
      PROVE  CoreInv' /\ MutexPart'
  BY <1>4, MutexClaimStep, MutexEnqueueStep, MutexReleaseStep,
     MutexHandOverStep DEF MutexLock, MutexUnlock
<1>5. CASE MutexCall
  BY <1>1, <1>4, <1>5 DEF MutexCall, MInv, MTypeOK
<1>6. CASE MutexStep
  BY <1>1, <1>6, MutexYieldStep, MutexReturnStep DEF MutexStep, MInv, MTypeOK
<1>7. QED
  BY <1>2, <1>3, <1>5, <1>6 DEF MNext, mutexVars

(* The invariant of the mutexes: closed while anyone has or wants one, the *)
(* lists hold blocked threads only, once each, and nobody shares one.      *)
THEOREM MutexInvariant ==
    ASSUME OnlyMainCreates PROVE MSpec => [](MTypeOK /\ MutexInv)
<1>1. MTypeOK /\ MInv /\ [MNext]_mutexVars => (MTypeOK /\ MInv)'
  BY MutexInvStep
<1>2. MInv => MutexInv
  BY DEF MInv, MutexPart, MutexInv
<1>3. QED
  BY <1>1, <1>2, InitMutex, PTL DEF MSpec

(* The lists of waiting threads, the locks and their owners keep their     *)
(* types: what lines 290-301 take out of a list is always a thread, and    *)
(* what line 270 comes back for is always a mutex, whoever creates threads.*)
THEOREM MutexTypeCorrect == MSpec => []MTypeOK
<1>1. MInit => MTypeOK /\ WaitsInv
  BY InitMutex, InitWaits DEF MInit
<1>2. MTypeOK /\ WaitsInv /\ [MNext]_mutexVars => (MTypeOK /\ WaitsInv)'
  BY MutexTypeStep, WaitsStep, ReturnsFromMutex DEF MTypeOK
<1>3. QED
  BY <1>1, <1>2, PTL DEF MSpec

(* README: a mutex protects a critical data region.  However many threads  *)
(* lock and unlock, and wherever the alarms fall, no two threads are in    *)
(* the critical section of one mutex.                                      *)
THEOREM MutexesExclude == ASSUME OnlyMainCreates PROVE MSpec => []MutualExclusion
<1>1. MutexInv => MutualExclusion
  BY DEF MutexInv
<1>2. QED
  BY <1>1, MutexInvariant, PTL

(* Nobody overtakes a thread that queues for a mutex.                      *)
THEOREM NobodyBarges == ASSUME OnlyMainCreates PROVE MSpec => []NoBarging
<1> DEFINE I == MTypeOK /\ MInv /\ NoBarging
<1>1. MInit => I
  BY InitMutex DEF MInit, MutexInitial, NoBarging
<1>2. I /\ [MNext]_mutexVars => I'
  <2> SUFFICES ASSUME I, [MNext]_mutexVars PROVE NoBarging'
    BY MutexInvStep
  <2>1. CASE Running'
    BY <2>1, MutexInvStep DEF MInv, MutexPart, ClosedInv, NoBarging
  <2>2. CASE ~Running'
    <3>1. UNCHANGED mutexState
      BY <2>2 DEF MNext, MutexInit, MutexCall, MutexLock, MutexUnlock,
         MutexClaim, MutexEnqueue, MutexRelease, MutexHandOver, MutexStep,
         MutexYield, MutexReturn, At, Running, mutexVars, coreVars
    <3>2. QED
      BY <3>1 DEF NoBarging, mutexState
  <2>3. QED
    BY <2>1, <2>2
<1>3. QED
  BY <1>1, <1>2, PTL DEF MSpec, NoBarging
----------------------------------------------------------------------------
(* No wake-up is lost: a blocked worker is in one list, once, and while    *)
(* threads queue for a mutex somebody has it.  The hard part is main after *)
(* the jump of line 494, which stays in the list of a mutex it goes on to  *)
(* take as its own.                                                        *)

Has(t, m) == Granted(t, m) \/ m \in held[t]

(* Main has been jumped to, and not been scheduled since; or it was        *)
(* preempted without being saved.                                          *)
Jumped == \/ cpu.of = 0 /\ topThread # 0
          \/ cpu.of # 0 /\ buf[0].at \in NotSaved

(* A worker that has exited left the mutex locked, for good.               *)
LeftLocked(m) == \E u \in Tids \ {0} : status[u] = "EXITED" /\ m \in held[u]

(* A worker that is blocked is in a list.                                  *)
BlockedListed ==
    Running => \A t \in Tids \ {0} : status[t] = "BLOCKED" =>
                    \E m \in Mutexes : t \in Queued(m)

(* Nobody waits for what it has.                                           *)
NotYetInv ==
    Running => \A t \in Tids, m \in Mutexes : Waiting(t, m) => m \notin held[t]

(* Somebody has a mutex that is closed, or left it locked, unless it was   *)
(* unlocked with nobody waiting.                                           *)
HadInv ==
    Running => \A m \in Mutexes :
        m < mutexId /\ __lock[m] = 0 /\ __owner[m] # NoOwner =>
            \E t \in Tids : Has(t, m)

(* Main between the jump and the next alarm: no other thread has run.      *)
JumpInv ==
    Running /\ cpu.of = 0 /\ topThread # 0 =>
        /\ \A u \in Tids \ {0} : \/ status[u] = "EXITED"
                                 \/ held[u] = {} /\ buf[u].at = "user"
        /\ cpu.at \in WaitPoints /\ status[0] # "BLOCKED" =>
                \A u \in Tids \ {0} : status[u] = "EXITED"

(* Main in a list: blocked like any other thread, or after the jump; and   *)
(* then whoever had the mutex is not coming back.                          *)
MainInv ==
    Running => \A m \in Mutexes : 0 \in Queued(m) =>
        \/ ~Jumped /\ Waiting(0, m) /\ status[0] = "BLOCKED"
        \/ Jumped /\ (__owner[m] = NoOwner \/ LeftLocked(m))

WakeInv == BlockedListed /\ NotYetInv /\ HadInv /\ JumpInv /\ MainInv

LEMMA HaltedWake ==
    ASSUME ~Running' PROVE WakeInv'
BY DEF WakeInv, BlockedListed, NotYetInv, HadInv, JumpInv, MainInv, Running
----------------------------------------------------------------------------
(* Steps of the scheduler's own. *)

LEMMA ScheduleWake ==
    ASSUME MInv, WakeInv, Running, NEW c \in Exec, MayReturnTo(c), SameWait(c),
           Schedule(c), UNCHANGED <<is_first_call, mutexState>>
    PROVE  WakeInv'
<1>1. CASE process' = "spinning"
  BY <1>1, HaltedWake DEF Running
<1>2. ASSUME process' \in {"running", "stale"},
             NEW t \in Tids, Resumed(c, t), Running'
      PROVE  WakeInv'
  <2>1. /\ ~is_first_call /\ status[t] # "EXITED" /\ status[t] # "BLOCKED"
        /\ cpu'.of = t /\ buf'[t].at = "dead"
        /\ cpu' = Saved(c)[t] /\ Saved(c)[t].at \notin NotSaved
    BY <1>2, ResumedMutex
  <2>2. \A u \in Tids :
            /\ status[u] = "EXITED" <=> status'[u] = "EXITED"
            /\ status[u] = "BLOCKED" <=> status'[u] = "BLOCKED"
    BY <1>2, ResumedMutex
  <2>3. ForcedOut(0) => t # 0 /\ buf'[0].at \in NotSaved
    BY <1>2, ResumedMutex
  <2>4. \A u \in Tids, m \in Mutexes :
            /\ Waiting(u, m)' => Waiting(u, m)
            /\ Waiting(u, m) /\ ~ForcedOut(u) => Waiting(u, m)'
            /\ Granted(u, m) /\ ~ForcedOut(u) => Granted(u, m)'
    BY <1>2, ResumedMutex
  <2>5. topThread' = t
    BY <1>2 DEF Resumed
  <2>6. \A m \in Mutexes : Queued(m)' = Queued(m)
    BY DEF Queued, mutexState
  <2>7. UNCHANGED <<mutexId, __lock, __owner, held, mutexThreadLists>>
    BY DEF mutexState
  (* Main forced out has all it was granted, or nobody else is left.       *)
  <2>8. ASSUME NEW u \in Tids, NEW m \in Mutexes, Has(u, m)
        PROVE  Has(u, m)'
    <3>1. CASE m \in held[u] \/ ~ForcedOut(u)
      BY <2>4, <2>7, <3>1, <2>8 DEF Has
    <3>2. CASE m \notin held[u] /\ ForcedOut(u)
      <4>1. u = 0 /\ cpu.of = 0 /\ topThread # 0 /\ Waiting(0, m) /\ status[0] # "BLOCKED"
        BY <2>8, <3>2 DEF ForcedOut, Has, Granted
      <4>2. cpu.at \in WaitPoints
        BY <4>1 DEF Waiting, Place
      <4>3. \A v \in Tids \ {0} : status[v] = "EXITED"
        BY <4>1, <4>2 DEF WakeInv, JumpInv
      <4>4. t # 0
        BY <2>3, <4>1 DEF ForcedOut
      <4>5. QED
        BY <2>1, <4>3, <4>4
    <3>3. QED
      BY <3>1, <3>2
  <2>9. BlockedListed'
    BY <2>2, <2>6 DEF WakeInv, BlockedListed
  <2>10. NotYetInv'
    BY <2>4, <2>7 DEF WakeInv, NotYetInv
  <2>11. HadInv'
    BY <2>7, <2>8 DEF WakeInv, HadInv
  <2>12. JumpInv'
    BY <2>1, <2>5 DEF JumpInv
  <2>13. \A m \in Mutexes : LeftLocked(m) => LeftLocked(m)'
    BY <2>2, <2>7 DEF LeftLocked
  <2>14. Jumped => Jumped'
    <3>1. CASE ForcedOut(0)
      BY <2>1, <2>3, <3>1 DEF Jumped
    <3>2. CASE cpu.of # 0 /\ buf[0].at \in NotSaved
      <4>1. Saved(c)[0] = buf[0]
        BY <3>2, ZeroTid, SavedValue DEF MInv, CoreInv, ExecutingInv
      <4>2. t # 0
        BY <2>1, <3>2, <4>1
      <4>3. buf'[0] = buf[0]
        BY <1>2, <4>1, <4>2, ZeroTid DEF Resumed
      <4>4. QED
        BY <2>1, <3>2, <4>2, <4>3 DEF Jumped
    <3>3. QED
      BY <3>1, <3>2 DEF Jumped, ForcedOut
  <2>15. ASSUME NEW m \in Mutexes, Waiting(0, m)', status[0] = "BLOCKED"
         PROVE  ~Jumped'
    <3>1. t # 0 /\ cpu'.of # 0
      BY <2>1, <2>15
    <3>2. buf'[0].at \in WaitPoints
      BY <2>15, <3>1 DEF Waiting, Place
    <3>3. QED
      BY <3>1, <3>2 DEF Jumped, NotSaved, WaitPoints
  <2>16. MainInv'
    <3> SUFFICES ASSUME NEW m \in Mutexes, 0 \in Queued(m)
                 PROVE  \/ ~Jumped' /\ Waiting(0, m)' /\ status'[0] = "BLOCKED"
                        \/ Jumped' /\ (__owner[m] = NoOwner \/ LeftLocked(m)')
      BY <2>6, <2>7 DEF MainInv
    <3>1. CASE ~Jumped /\ Waiting(0, m) /\ status[0] = "BLOCKED"
      <4>1. Waiting(0, m)'
        BY <2>4, <3>1, ZeroTid DEF Jumped, ForcedOut
      <4>2. QED
        BY <2>2, <2>15, <3>1, <4>1, ZeroTid
    <3>2. CASE Jumped /\ (__owner[m] = NoOwner \/ LeftLocked(m))
      BY <2>13, <2>14, <3>2
    <3>3. QED
      BY <3>1, <3>2 DEF WakeInv, MainInv
  <2>17. QED
    BY <2>9, <2>10, <2>11, <2>12, <2>16 DEF WakeInv
<1>3. QED
  BY <1>1, <1>2, HaltedWake, ScheduleResult DEF MInv

(* Steps that change no status, no saved context and not where anybody     *)
(* waits.                                                                  *)
LEMMA QuietWake ==
    ASSUME MInv, WakeInv, Running,
           UNCHANGED <<status, buf, topThread, is_first_call, mutexState>>,
           cpu'.of = cpu.of, cpu.at \notin WaitPoints, cpu'.at \notin WaitPoints
    PROVE  WakeInv'
<1>1. \A u \in Tids, m \in Mutexes :
        (Waiting(u, m)' <=> Waiting(u, m)) /\ (Has(u, m)' <=> Has(u, m))
  BY DEF Waiting, Granted, Has, Place, mutexState
<1>2. \A m \in Mutexes : /\ Queued(m)' = Queued(m)
                         /\ LeftLocked(m)' <=> LeftLocked(m)
                         /\ Jumped' <=> Jumped
  BY DEF Queued, LeftLocked, Jumped, mutexState
<1>3. BlockedListed'
  BY <1>2 DEF WakeInv, BlockedListed
<1>4. NotYetInv' /\ HadInv'
  BY <1>1 DEF WakeInv, NotYetInv, HadInv, mutexState
<1>5. JumpInv'
  BY DEF WakeInv, JumpInv, mutexState
<1>6. MainInv'
  BY <1>1, <1>2, ZeroTid DEF WakeInv, MainInv, mutexState
<1>7. QED
  BY <1>3, <1>4, <1>5, <1>6 DEF WakeInv

LEMMA ExitMarkWake ==
    ASSUME MInv, WakeInv, ExitMark, UNCHANGED mutexState
    PROVE  WakeInv'
<1> DEFINE me == cpu.of
<1>1. /\ Running /\ cpu.at = "user" /\ me \in Tids
      /\ cpu'.of = me /\ cpu'.at = "exiting"
      /\ status'[me] = "EXITED"
      /\ \A t \in Tids \ {me} : status'[t] = status[t]
      /\ UNCHANGED <<buf, topThread, is_first_call, process>>
  BY DEF ExitMark, At, Ctx, Running, MInv, TypeOK, CoreInv, ExecutingInv
<1>2. \A u \in Tids, m \in Mutexes :
        /\ Waiting(u, m)' <=> Waiting(u, m)
        /\ Waiting(u, m) => u # me
        /\ Has(u, m) => Has(u, m)'
  BY <1>1 DEF Waiting, Granted, Has, Place, WaitPoints, mutexState
<1>3. \A m \in Mutexes : /\ Queued(m)' = Queued(m)
                         /\ LeftLocked(m) => LeftLocked(m)'
                         /\ Jumped' <=> Jumped
  BY <1>1 DEF Queued, LeftLocked, Jumped, mutexState
<1>4. BlockedListed'
  BY <1>1, <1>3 DEF WakeInv, BlockedListed
<1>5. NotYetInv' /\ HadInv'
  BY <1>1, <1>2 DEF WakeInv, NotYetInv, HadInv, mutexState
<1>6. JumpInv'
  BY <1>1 DEF WakeInv, JumpInv, mutexState, WaitPoints
<1>7. MainInv'
  BY <1>1, <1>2, <1>3, ZeroTid DEF WakeInv, MainInv, mutexState
<1>8. QED
  BY <1>4, <1>5, <1>6, <1>7 DEF WakeInv

LEMMA CreateInitWake ==
    ASSUME MInv, WakeInv, CreateInit, UNCHANGED mutexState
    PROVE  WakeInv'
<1> DEFINE n == numOfThreads
<1>1. /\ Running /\ cpu.at = "creating" /\ cpu.of \in Tids
      /\ cpu'.of = cpu.of /\ cpu'.at \in {"user", "starting"}
      /\ ~is_first_call' /\ UNCHANGED <<process, topThread>>
  BY DEF CreateInit, At, Goto, Running, MInv, TypeOK
<1>2. cpu.of = 0 /\ n \in Tids \ {0} /\ Unused(n)
  BY <1>1 DEF MInv, CoreInv, CreatedInv, Place
<1>3. /\ buf' = [buf EXCEPT ![n] = Ctx(n, "user", 0)]
      /\ status' = [status EXCEPT ![n] = "READY"]
  BY DEF CreateInit
<1>4. /\ status'[n] = "READY" /\ buf'[n].at = "user"
      /\ \A t \in Tids \ {n} : buf'[t] = buf[t] /\ status'[t] = status[t]
      /\ status'[0] = status[0]
  BY <1>2, <1>3, ZeroTid DEF MInv, TypeOK, Ctx
<1>5. held[n] = {}
  BY <1>1, <1>2 DEF MInv, MutexPart, UnbornInv, Unused
<1>6. \A u \in Tids : Place(u)'.at \in WaitPoints \/ Place(u).at \in WaitPoints
                        => Place(u)' = Place(u) /\ u # n /\ u # 0
  BY <1>1, <1>2, <1>4 DEF Place, WaitPoints, Unused
<1>7. \A u \in Tids, m \in Mutexes :
        /\ Waiting(u, m)' <=> Waiting(u, m)
        /\ Waiting(u, m) => u # n /\ u # 0
  BY <1>6 DEF Waiting
<1>8. \A u \in Tids, m \in Mutexes : Has(u, m) => Has(u, m)'
  <2> SUFFICES ASSUME NEW u \in Tids, NEW m \in Mutexes, Has(u, m), m \notin held[u]
               PROVE  Has(u, m)'
    BY DEF Has, mutexState
  <2>1. Waiting(u, m) /\ status[u] # "BLOCKED" /\ (status[u] # "EXITED" \/ is_first_call)
    BY DEF Has, Granted
  <2>2. u # n /\ u # 0
    BY <1>7, <2>1
  <2>3. ~is_first_call
    BY <1>2, <2>1, <2>2
       DEF MInv, CoreInv, FirstInv, Waiting, Place, WaitPoints
  <2>4. QED
    BY <1>4, <1>7, <2>1, <2>2, <2>3 DEF Has, Granted
<1>9. \A m \in Mutexes : /\ Queued(m)' = Queued(m)
                         /\ LeftLocked(m) => LeftLocked(m)'
                         /\ Jumped' <=> Jumped
  <2>1. \A u \in Tids \ {0} : held[u] # {} => u # n
    BY <1>5
  <2>2. QED
    BY <1>1, <1>2, <1>4, <2>1 DEF Queued, LeftLocked, Jumped, mutexState
<1>10. BlockedListed'
  BY <1>1, <1>4, <1>9 DEF WakeInv, BlockedListed
<1>11. NotYetInv' /\ HadInv'
  BY <1>1, <1>7, <1>8 DEF WakeInv, NotYetInv, HadInv, mutexState
<1>12. JumpInv'
  BY <1>1, <1>2, <1>4, <1>5 DEF WakeInv, JumpInv, mutexState, WaitPoints
<1>13. MainInv'
  BY <1>1, <1>7, <1>9, ZeroTid DEF WakeInv, MainInv, mutexState
<1>14. QED
  BY <1>10, <1>11, <1>12, <1>13 DEF WakeInv

LEMMA SchedulerInitWake ==
    ASSUME MInv, WakeInv, SchedulerInit, UNCHANGED mutexState
    PROVE  WakeInv'
<1>1. /\ Running /\ cpu.at = "starting" /\ cpu.of = 0
      /\ cpu'.of = 0 /\ cpu'.at = "user"
      /\ UNCHANGED <<buf, topThread, is_first_call, process>>
  BY DEF SchedulerInit, At, Goto, Running, MInv, TypeOK, CoreInv, ExecutingInv
<1>2. \A t \in Tids \ {0} : status'[t] = status[t]
  BY ZeroTid DEF SchedulerInit, MInv, TypeOK
<1>3. \A u \in Tids :
        Place(u).at \notin WaitPoints /\ Place(u)'.at \notin WaitPoints
  <2>1. \A u \in Tids \ {0} : Place(u).at \notin WaitPoints
    BY <1>1 DEF MInv, MutexPart, UnbornInv
  <2>2. QED
    BY <1>1, <2>1 DEF Place, WaitPoints
<1>4. \A u \in Tids, m \in Mutexes :
        /\ ~Waiting(u, m) /\ ~Waiting(u, m)'
        /\ Has(u, m) => Has(u, m)'
  BY <1>3 DEF Waiting, Granted, Has, mutexState
<1>5. \A m \in Mutexes : /\ Queued(m)' = Queued(m)
                         /\ LeftLocked(m) => LeftLocked(m)'
                         /\ Jumped' <=> Jumped
  BY <1>1, <1>2 DEF Queued, LeftLocked, Jumped, mutexState
<1>6. BlockedListed'
  BY <1>1, <1>2, <1>5 DEF WakeInv, BlockedListed
<1>7. NotYetInv' /\ HadInv'
  BY <1>1, <1>4 DEF WakeInv, NotYetInv, HadInv, mutexState
<1>8. JumpInv'
  BY <1>1, <1>2 DEF WakeInv, JumpInv, mutexState, WaitPoints
<1>9. MainInv'
  BY <1>1, <1>4, <1>5, ZeroTid DEF WakeInv, MainInv, mutexState
<1>10. QED
  BY <1>6, <1>7, <1>8, <1>9 DEF WakeInv

(* The jump to main: whoever has a mutex main waits for has exited.        *)
LEMMA ExitToMainWake ==
    ASSUME MInv, WakeInv, ExitToMain, UNCHANGED mutexState
    PROVE  WakeInv'
<1> SUFFICES ASSUME Running' PROVE WakeInv'
  BY HaltedWake
<1>1. /\ Running /\ cpu.at = "exited" /\ status[0] # "EXITED"
      /\ status[cpu.of] = "EXITED" /\ cpu.of \in Tids
      /\ exitedThreads = numOfThreads
      /\ status'[0] = "RUNNING"
      /\ \A t \in Tids \ {0} : status'[t] = status[t]
      /\ UNCHANGED <<is_first_call, topThread>>
  BY ZeroTid DEF ExitToMain, At, Running, MInv, TypeOK, CoreInv, ExecutingInv, Exiting
<1>2. cpu.of # 0 /\ ~is_first_call /\ buf[cpu.of].at \in NotSaved /\ topThread = cpu.of
  BY <1>1 DEF MInv, CoreInv, FirstInv, ExecutingInv
<1>3. /\ cpu' = buf[0] /\ cpu'.of = 0 /\ buf[0].at \notin NotSaved
      /\ \A t \in Tids \ {0} : buf'[t] = buf[t]
  BY ZeroTid DEF ExitToMain, Longjmp, MInv, TypeOK, CoreInv, SavedInv, Running
<1>4. \A t \in Tids \ {0} : status[t] = "EXITED"
  BY <1>1, CountsAgree DEF MInv
<1>5. \A u \in Tids : Place(u)'.at \in WaitPoints \/ Place(u).at \in WaitPoints
                        => Place(u)' = Place(u)
  BY <1>1, <1>2, <1>3 DEF Place, WaitPoints, NotSaved
<1>6. \A u \in Tids, m \in Mutexes : /\ Waiting(u, m)' <=> Waiting(u, m)
                                     /\ Has(u, m) => Has(u, m)'
  BY <1>1, <1>2, <1>4, <1>5 DEF Waiting, Granted, Has, mutexState
<1>7. BlockedListed'
  BY <1>1, <1>4 DEF BlockedListed
<1>8. NotYetInv' /\ HadInv'
  BY <1>1, <1>6 DEF WakeInv, NotYetInv, HadInv, mutexState
<1>9. JumpInv'
  BY <1>1, <1>4 DEF JumpInv
<1>10. ~Jumped /\ Jumped'
  BY <1>2, <1>3, <1>1 DEF Jumped
<1>11. MainInv'
  <2> SUFFICES ASSUME NEW m \in Mutexes, 0 \in Queued(m), __owner[m] # NoOwner
               PROVE  LeftLocked(m)'
    BY <1>10 DEF MainInv, Queued, mutexState
  <2>1. Waiting(0, m) /\ status[0] = "BLOCKED"
    BY <1>1, <1>10 DEF WakeInv, MainInv
  <2>2. m \notin held[0] /\ ~Granted(0, m)
    BY <1>1, <2>1, ZeroTid DEF WakeInv, NotYetInv, Granted
  <2>3. m < mutexId /\ __lock[m] = 0
    BY <1>1, <2>1, ZeroTid DEF MInv, MutexPart, UnbornInv, ClosedInv, Waiting
  <2>4. PICK t \in Tids : Has(t, m)
    BY <1>1, <2>3 DEF WakeInv, HadInv
  <2>5. t # 0 /\ status[t] = "EXITED"
    BY <1>4, <2>2, <2>4 DEF Has
  <2>6. m \in held[t]
    BY <1>2, <2>4, <2>5 DEF Has, Granted
  <2>7. QED
    BY <1>1, <2>5, <2>6 DEF LeftLocked, mutexState
<1>12. QED
  BY <1>7, <1>8, <1>9, <1>11 DEF WakeInv

LEMMA CoreWake ==
    ASSUME MInv, WakeInv, UNCHANGED mutexState,
           CreateCount \/ ExitMark \/ CoreStep \/ Alarm \/ UNCHANGED coreVars
    PROVE  WakeInv'
<1>1. CASE CreateCount \/ CreateNoMemory \/ ExitCount
  <2>1. /\ Running /\ cpu.at \notin WaitPoints
        /\ cpu'.of = cpu.of /\ cpu'.at \notin WaitPoints
        /\ UNCHANGED <<status, buf, topThread, is_first_call>>
    BY <1>1 DEF CreateCount, CreateNoMemory, ExitCount, At, Goto, Running,
                WaitPoints, MInv, TypeOK
  <2>2. QED
    BY <2>1, QuietWake DEF mutexState
<1>2. CASE ExitSchedule
  <2> DEFINE c == [cpu EXCEPT !.at = "fellThrough"]
  <2>1. /\ Running /\ cpu.at = "exited" /\ Schedule(c) /\ UNCHANGED is_first_call
    BY <1>2 DEF ExitSchedule, At, Running
  <2>2. c \in Exec
    BY CpuType DEF Exec, CodePoints, MInv
  <2>3. MayReturnTo(c) /\ SameWait(c)
    BY <2>1 DEF MayReturnTo, SameWait, WaitPoints, MInv, CoreInv, ExecutingInv,
                Exiting, TypeOK
  <2>4. QED
    BY <2>1, <2>2, <2>3, ScheduleWake DEF mutexState
<1>3. CASE Alarm
  <2>1. CASE is_first_call
    BY <1>3, <2>1, HaltedWake DEF Alarm, Running
  <2>2. CASE ~is_first_call
    <3>1. /\ Running /\ Schedule(cpu) /\ cpu \in Exec /\ UNCHANGED is_first_call
      BY <1>3, <2>2 DEF Alarm, Running, MInv, TypeOK, Exec
    <3>2. MayReturnTo(cpu) /\ SameWait(cpu)
      BY <2>2, <3>1 DEF MayReturnTo, SameWait, MInv, CoreInv, ExecutingInv
    <3>3. QED
      BY <3>1, <3>2, ScheduleWake DEF mutexState
  <2>3. QED
    BY <2>1, <2>2
<1>4. CASE ExitProcess
  BY <1>4, HaltedWake DEF ExitProcess, Running
<1>5. CASE UNCHANGED coreVars
  BY <1>5 DEF coreVars, mutexState, WakeInv, BlockedListed, NotYetInv, HadInv,
     JumpInv, MainInv, Running, Has, Granted, Waiting, Place, Queued, Jumped,
     LeftLocked
<1>6. QED
  BY <1>1, <1>2, <1>3, <1>4, <1>5, ExitMarkWake, CreateInitWake,
     SchedulerInitWake,
     ExitToMainWake DEF CoreStep
----------------------------------------------------------------------------
(* The mutex operations. *)

LEMMA MutexInitWake ==
    ASSUME MInv, WakeInv, MutexInit
    PROVE  WakeInv'
<1>1. /\ Running /\ mutexId \in Mutexes
      /\ __lock' = [__lock EXCEPT ![mutexId] = 1]
      /\ mutexThreadLists' = [mutexThreadLists EXCEPT ![mutexId] = <<>>]
      /\ mutexId' = mutexId + 1
      /\ UNCHANGED <<coreVars, __owner, held>>
  BY MutexAssumption, ThreadsAssumption
     DEF MutexInit, At, Running, MInv, MState, Mutexes
<1>2. mutexThreadLists[mutexId] = <<>>
  BY <1>1 DEF MInv, MState, MutexPart, UnbornInv, Mutexes
<1>3. mutexThreadLists' = mutexThreadLists
  BY <1>1, <1>2 DEF MInv, MState
<1>4. BlockedListed' /\ NotYetInv' /\ JumpInv' /\ MainInv'
  BY <1>1, <1>3 DEF coreVars, WakeInv, BlockedListed, NotYetInv, JumpInv, MainInv,
                    Running, Waiting, Place, Queued, Jumped, LeftLocked
<1>5. HadInv'
  <2> SUFFICES ASSUME NEW m \in Mutexes, m < mutexId + 1, __lock'[m] = 0,
                      __owner[m] # NoOwner
               PROVE  \E t \in Tids : Has(t, m)'
    BY <1>1 DEF HadInv
  <2>1. m # mutexId
    BY <1>1 DEF MInv, MState
  <2>2. m < mutexId /\ __lock[m] = 0
    BY <1>1, <2>1 DEF MInv, MState, Mutexes
  <2>3. PICK t \in Tids : Has(t, m)
    BY <1>1, <2>2 DEF WakeInv, HadInv
  <2>4. Has(t, m)'
    BY <1>1, <2>3 DEF coreVars, Has, Granted, Waiting, Place
  <2>5. QED
    BY <2>4
<1>6. QED
  BY <1>4, <1>5 DEF WakeInv

LEMMA MutexClaimWake ==
    ASSUME MInv, WakeInv, NEW m \in Mutexes, MutexClaim(m)
    PROVE  WakeInv'
<1> DEFINE me == cpu.of
<1>1. /\ At("user") /\ __lock[m] = 1
      /\ __lock' = [__lock EXCEPT ![m] = 0]
      /\ \A k \in Mutexes \ {m} : __owner'[k] = __owner[k]
      /\ held' = [held EXCEPT ![me] = @ \cup {m}]
      /\ UNCHANGED <<status, buf, topThread, is_first_call, cpu, process,
                     mutexId, mutexThreadLists>>
  BY DEF MutexClaim, MInv, MState
<1>2. mutexThreadLists[m] = <<>>
  BY <1>1, Caller DEF MInv, MutexPart, ClosedInv
<1>3. /\ \A k \in Mutexes \ {m} : __lock'[k] = __lock[k]
      /\ held'[me] = held[me] \cup {m}
      /\ \A u \in Tids \ {me} : held'[u] = held[u]
  BY <1>1, Caller DEF MInv, MState
<1>4. \A u \in Tids, k \in Mutexes :
        /\ Waiting(u, k)' <=> Waiting(u, k)
        /\ Waiting(u, k) => u # me
        /\ Has(u, k) => Has(u, k)'
        /\ Has(me, m)'
  BY <1>1, <1>3, Caller DEF Waiting, Granted, Has, Place
<1>5. \A k \in Mutexes : /\ Queued(k)' = Queued(k)
                         /\ LeftLocked(k) => LeftLocked(k)'
                         /\ Jumped' <=> Jumped
                         /\ 0 \in Queued(k) => k # m
  BY <1>1, <1>2, <1>3 DEF Queued, LeftLocked, Jumped
<1>6. BlockedListed'
  BY <1>1, <1>5, Caller DEF WakeInv, BlockedListed
<1>7. NotYetInv'
  BY <1>1, <1>3, <1>4, Caller DEF WakeInv, NotYetInv
<1>8. HadInv'
  BY <1>1, <1>3, <1>4, Caller DEF WakeInv, HadInv
<1>9. JumpInv'
  BY <1>1, <1>3, Caller DEF WakeInv, JumpInv
<1>10. MainInv'
  BY <1>1, <1>3, <1>4, <1>5, Caller, ZeroTid DEF WakeInv, MainInv
<1>11. QED
  BY <1>6, <1>7, <1>8, <1>9, <1>10 DEF WakeInv

LEMMA MutexReleaseWake ==
    ASSUME MInv, WakeInv, NEW m \in Mutexes, MutexRelease(m)
    PROVE  WakeInv'
<1> DEFINE me == cpu.of
<1>1. /\ At("user") /\ mutexThreadLists[m] = <<>>
      /\ __lock' = [__lock EXCEPT ![m] = 0]
      /\ __owner' = [__owner EXCEPT ![m] = NoOwner]
      /\ held' = [held EXCEPT ![me] = @ \ {m}]
      /\ UNCHANGED <<status, buf, topThread, is_first_call, cpu, process,
                     mutexId, mutexThreadLists>>
  BY DEF MutexRelease
<1>2. /\ \A k \in Mutexes \ {m} : __lock'[k] = __lock[k] /\ __owner'[k] = __owner[k]
      /\ __owner'[m] = NoOwner
      /\ held'[me] = held[me] \ {m}
      /\ \A u \in Tids \ {me} : held'[u] = held[u]
  BY <1>1, Caller DEF MInv, MState
<1>3. \A u \in Tids, k \in Mutexes :
        /\ Waiting(u, k)' <=> Waiting(u, k)
        /\ k # m => (Has(u, k) => Has(u, k)')
  BY <1>1, <1>2, Caller DEF Waiting, Granted, Has, Place
<1>4. \A k \in Mutexes : /\ Queued(k)' = Queued(k)
                         /\ k # m => (LeftLocked(k) => LeftLocked(k)')
                         /\ Jumped' <=> Jumped
                         /\ 0 \in Queued(k) => k # m
  BY <1>1, <1>2 DEF Queued, LeftLocked, Jumped
<1>5. BlockedListed'
  BY <1>1, <1>4, Caller DEF WakeInv, BlockedListed
<1>6. NotYetInv'
  BY <1>1, <1>2, <1>3, Caller DEF WakeInv, NotYetInv
<1>7. HadInv'
  BY <1>1, <1>2, <1>3, Caller DEF WakeInv, HadInv
<1>8. JumpInv'
  BY <1>1, <1>2, Caller DEF WakeInv, JumpInv
<1>9. MainInv'
  BY <1>1, <1>2, <1>3, <1>4, Caller, ZeroTid DEF WakeInv, MainInv
<1>10. QED
  BY <1>5, <1>6, <1>7, <1>8, <1>9 DEF WakeInv

LEMMA MutexReturnWake ==
    ASSUME MInv, WakeInv, MutexReturn
    PROVE  WakeInv'
<1> DEFINE me == cpu.of
           m  == cpu.on
<1>1. /\ Running /\ cpu.at = "mutexReturn" /\ me \in Tids /\ Place(me) = cpu
      /\ cpu' = [cpu EXCEPT !.at = "user"]
      /\ held' = [held EXCEPT ![me] = @ \cup {m}]
      /\ UNCHANGED <<status, buf, topThread, is_first_call, process, mutexId,
                     __lock, __owner, mutexThreadLists>>
  BY DEF MutexReturn, At, Goto, Running, MInv, TypeOK, Place
<1>2. cpu'.of = me /\ cpu'.at = "user"
  BY <1>1 DEF MInv, TypeOK
<1>3. Waiting(me, m) /\ status[me] # "BLOCKED"
  BY <1>1 DEF MInv, MutexPart, BlockedInv, Waiting, WaitPoints
<1>4. /\ held'[me] = held[me] \cup {m}
      /\ \A u \in Tids \ {me} : held'[u] = held[u]
  BY <1>1 DEF MInv, MState
<1>5. \A u \in Tids : /\ u # me => Place(u)' = Place(u)
                      /\ u = me => Place(u)'.at \notin WaitPoints
  BY <1>1, <1>2 DEF Place, WaitPoints
<1>6. \A u \in Tids, k \in Mutexes :
        /\ Waiting(u, k)' => Waiting(u, k) /\ u # me
        /\ Waiting(u, k) /\ u # me => Waiting(u, k)'
        /\ Waiting(me, k) => k = m
  BY <1>3, <1>5 DEF Waiting
<1>7. \A u \in Tids, k \in Mutexes : Has(u, k) => Has(u, k)'
  BY <1>1, <1>4, <1>6 DEF Granted, Has
<1>8. \A k \in Mutexes : /\ Queued(k)' = Queued(k)
                         /\ LeftLocked(k) => LeftLocked(k)'
                         /\ Jumped' <=> Jumped
  BY <1>1, <1>2, <1>4 DEF Queued, LeftLocked, Jumped
<1>9. BlockedListed'
  BY <1>1, <1>8 DEF WakeInv, BlockedListed
<1>10. NotYetInv'
  BY <1>1, <1>4, <1>6 DEF WakeInv, NotYetInv
<1>11. HadInv'
  BY <1>1, <1>7 DEF WakeInv, HadInv
<1>12. JumpInv'
  BY <1>1, <1>2, <1>4 DEF WakeInv, JumpInv, WaitPoints
<1>13. MainInv'
  BY <1>1, <1>3, <1>6, <1>8, ZeroTid DEF WakeInv, MainInv
<1>14. QED
  BY <1>9, <1>10, <1>11, <1>12, <1>13 DEF WakeInv

LEMMA MutexYieldWake ==
    ASSUME MInv, WakeInv, MutexYield
    PROVE  WakeInv'
<1> DEFINE c == [cpu EXCEPT !.at = "mutexReturn"]
<1>1. /\ Running /\ cpu.at = "mutexYield" /\ Schedule(c)
      /\ UNCHANGED <<is_first_call, mutexState>>
  BY DEF MutexYield, At, Running
<1>2. c \in Exec
  BY CpuType DEF Exec, CodePoints, MInv
<1>3. MayReturnTo(c) /\ SameWait(c)
  BY <1>1 DEF MayReturnTo, SameWait, WaitPoints, MInv, CoreInv, ExecutingInv,
              Exiting, TypeOK
<1>4. QED
  BY <1>1, <1>2, <1>3, ScheduleWake DEF mutexState

LEMMA MutexEnqueueWake ==
    ASSUME MInv, WakeInv, NEW m \in Mutexes, MutexEnqueue(m)
    PROVE  WakeInv'
<1> DEFINE me   == cpu.of
           list == mutexThreadLists[m]
<1>1. /\ At("user") /\ m < mutexId /\ m \notin held[me] /\ __lock[m] = 0
      /\ status' = [status EXCEPT ![me] = "BLOCKED"]
      /\ mutexThreadLists' = [mutexThreadLists EXCEPT ![m] = Append(@, me)]
      /\ cpu' = Ctx(me, "mutexYield", m)
      /\ UNCHANGED <<buf, topThread, is_first_call, process, mutexId, __lock,
                     __owner, held>>
  BY Caller DEF MutexEnqueue
<1>2. cpu'.of = me /\ cpu'.at = "mutexYield" /\ cpu'.on = m
  BY <1>1 DEF Ctx
<1>3. status'[me] = "BLOCKED" /\ \A u \in Tids \ {me} : status'[u] = status[u]
  BY <1>1, Caller DEF MInv, TypeOK
<1>4. /\ \A k \in Mutexes \ {m} : Queued(k)' = Queued(k)
      /\ \A u \in Tids : u \in Queued(m)' <=> u \in Queued(m) \/ u = me
  <2>1. /\ \A k \in Mutexes \ {m} : mutexThreadLists'[k] = mutexThreadLists[k]
        /\ list \in Seq(Tids)
        /\ mutexThreadLists'[m] = Append(list, me)
    BY <1>1 DEF MInv, MState
  <2>2. /\ DOMAIN list = 1..Len(list) /\ Len(list) \in Nat
        /\ DOMAIN mutexThreadLists'[m] = 1..(Len(list) + 1)
        /\ \A i \in DOMAIN list : mutexThreadLists'[m][i] = list[i]
        /\ mutexThreadLists'[m][Len(list) + 1] = me
    BY <1>1, <2>1, Caller, AppendProperties, LenProperties
  <2>3. ASSUME NEW u \in Tids
        PROVE  u \in Queued(m)' <=> u \in Queued(m) \/ u = me
    <3>1. u \in Queued(m) => u \in Queued(m)'
      BY <2>2 DEF Queued
    <3>2. u = me => u \in Queued(m)'
      BY <2>2 DEF Queued
    <3>3. u \in Queued(m)' => u \in Queued(m) \/ u = me
      BY <2>2 DEF Queued
    <3>4. QED
      BY <3>1, <3>2, <3>3
  <2>4. QED
    BY <2>1, <2>3 DEF Queued
<1>5. \A u \in Tids : /\ u # me => Place(u)' = Place(u)
                      /\ u = me => Place(u)' = cpu'
  BY <1>1, <1>2 DEF Place
<1>6. \A u \in Tids, k \in Mutexes :
        /\ u = me => ~Waiting(u, k) /\ (Waiting(u, k)' <=> k = m)
        /\ u # me => (Waiting(u, k)' <=> Waiting(u, k))
  BY <1>1, <1>2, <1>5, Caller DEF Waiting, WaitPoints
<1>7. \A u \in Tids, k \in Mutexes : Has(u, k) => Has(u, k)'
  BY <1>1, <1>3, <1>6 DEF Has, Granted
<1>8. \A k \in Mutexes : /\ LeftLocked(k) => LeftLocked(k)'
                         /\ Jumped' <=> Jumped
  <2>1. \A u \in Tids \ {0} : status[u] = "EXITED" => u # me
    BY <1>1, Caller
  <2>2. QED
    BY <1>1, <1>2, <1>3, <2>1 DEF LeftLocked, Jumped
<1>9. BlockedListed'
  <2> SUFFICES ASSUME NEW t \in Tids \ {0}, status'[t] = "BLOCKED"
               PROVE  \E k \in Mutexes : t \in Queued(k)'
    BY DEF BlockedListed
  <2>1. CASE t = me
    BY <1>4, <2>1
  <2>2. CASE t # me
    <3>1. PICK k \in Mutexes : t \in Queued(k)
      BY <1>1, <1>3, <2>2, Caller DEF WakeInv, BlockedListed
    <3>2. t \in Queued(k)'
      BY <1>4, <3>1
    <3>3. QED
      BY <3>2
  <2>3. QED
    BY <2>1, <2>2
<1>10. NotYetInv'
  BY <1>1, <1>6, Caller DEF WakeInv, NotYetInv
<1>11. HadInv'
  BY <1>1, <1>7, Caller DEF WakeInv, HadInv
<1>12. JumpInv'
  BY <1>1, <1>2, <1>3, Caller DEF WakeInv, JumpInv
(* Main after the jump queues up: nobody that lives has the mutex.         *)
<1>13. ASSUME me = 0, topThread # 0, __owner[m] # NoOwner
       PROVE  LeftLocked(m)
  <2>1. PICK t \in Tids : Has(t, m)
    BY <1>1, <1>13, Caller DEF WakeInv, HadInv
  <2>2. t # 0
    BY <1>1, <1>6, <1>13, <2>1 DEF Has, Granted
  <2>3. status[t] = "EXITED" \/ (held[t] = {} /\ buf[t].at = "user")
    BY <1>1, <1>13, <2>2, Caller DEF WakeInv, JumpInv
  <2>4. ~is_first_call
    BY <1>13, <1>1, Caller DEF MInv, CoreInv, FirstInv
  <2>5. ~Granted(t, m)
    BY <1>13, <2>2, <2>3, <2>4 DEF Granted, Waiting, Place, WaitPoints
  <2>6. m \in held[t] /\ status[t] = "EXITED"
    BY <2>1, <2>3, <2>5 DEF Has
  <2>7. QED
    BY <2>2, <2>6 DEF LeftLocked
<1>14. MainInv'
  <2> SUFFICES ASSUME NEW k \in Mutexes, 0 \in Queued(k)'
               PROVE  \/ ~Jumped' /\ Waiting(0, k)' /\ status'[0] = "BLOCKED"
                      \/ Jumped' /\ (__owner[k] = NoOwner \/ LeftLocked(k)')
    BY <1>1 DEF MainInv
  <2>1. CASE 0 \in Queued(k)
    <3>1. \/ ~Jumped /\ Waiting(0, k) /\ status[0] = "BLOCKED"
          \/ Jumped /\ (__owner[k] = NoOwner \/ LeftLocked(k))
      BY <1>1, <2>1, Caller DEF WakeInv, MainInv
    <3>2. QED
      BY <1>3, <1>6, <1>8, <3>1, ZeroTid
  <2>2. CASE 0 \notin Queued(k)
    <3>1. k = m /\ me = 0
      BY <1>4, <2>2, ZeroTid
    <3>2. CASE Jumped
      <4>1. topThread # 0
        BY <3>1, <3>2 DEF Jumped
      <4>2. QED
        BY <1>8, <1>13, <3>1, <3>2, <4>1
    <3>3. CASE ~Jumped
      BY <1>3, <1>6, <1>8, <3>1, <3>3, ZeroTid
    <3>4. QED
      BY <3>2, <3>3
  <2>3. QED
    BY <2>1, <2>2
<1>15. QED
  BY <1>9, <1>10, <1>11, <1>12, <1>14 DEF WakeInv

LEMMA MutexHandOverWake ==
    ASSUME MInv, WakeInv, NEW m \in Mutexes, MutexHandOver(m)
    PROVE  WakeInv'
<1> DEFINE me   == cpu.of
           list == mutexThreadLists[m]
           h    == Head(list)
<1>1. /\ At("user") /\ m \in held[me] /\ list # <<>>
      /\ status' = [status EXCEPT ![h] = "READY"]
      /\ mutexThreadLists' = [mutexThreadLists EXCEPT ![m] = Tail(@)]
      /\ held' = [held EXCEPT ![me] = @ \ {m}]
      /\ UNCHANGED <<buf, topThread, is_first_call, cpu, process, mutexId,
                     __lock, __owner>>
  BY DEF MutexHandOver
<1>2. /\ h \in Tids /\ ~is_first_call /\ status[h] # "EXITED"
      /\ \/ Waiting(h, m) /\ status[h] = "BLOCKED" /\ h # me
         \/ h = 0 /\ \A k \in Mutexes : ~Waiting(h, k)
  BY <1>1, FirstInLine
<1>3. status'[h] = "READY" /\ \A u \in Tids \ {h} : status'[u] = status[u]
  BY <1>1, <1>2 DEF MInv, TypeOK
<1>4. /\ held'[me] = held[me] \ {m}
      /\ \A u \in Tids \ {me} : held'[u] = held[u]
  BY <1>1, Caller DEF MInv, MState
<1>5. /\ \A k \in Mutexes \ {m} : Queued(k)' = Queued(k)
      /\ h \in Queued(m)
      /\ \A u \in Tids : u \in Queued(m)' <=> u \in Queued(m) /\ u # h
  <2>1. /\ \A k \in Mutexes \ {m} : mutexThreadLists'[k] = mutexThreadLists[k]
        /\ list \in Seq(Tids)
        /\ mutexThreadLists'[m] = Tail(list)
    BY <1>1 DEF MInv, MState
  <2>2. /\ Tail(list) \in Seq(Tids) /\ Len(Tail(list)) = Len(list) - 1
        /\ \A i \in 1..Len(Tail(list)) : Tail(list)[i] = list[i + 1]
    BY <1>1, <2>1, HeadTailProperties
  <2>3. /\ Len(list) \in Nat \ {0} /\ h = list[1]
        /\ DOMAIN list = 1..Len(list) /\ DOMAIN Tail(list) = 1..(Len(list) - 1)
    BY <1>1, <2>1, <2>2, EmptySeq, LenProperties
  <2>4. \A i, j \in DOMAIN list : list[i] = list[j] => i = j
    BY <1>1, Caller DEF MInv, MutexPart, QueueInv
  <2>5. ASSUME NEW u \in Tids
        PROVE  u \in Queued(m)' <=> u \in Queued(m) /\ u # h
    <3>1. ASSUME u \in Queued(m)' PROVE u \in Queued(m) /\ u # h
      <4>1. PICK i \in 1..(Len(list) - 1) : u = Tail(list)[i]
        BY <2>1, <2>3, <3>1 DEF Queued
      <4>2. u = list[i + 1] /\ i + 1 \in DOMAIN list /\ i + 1 # 1
        BY <2>2, <2>3, <4>1
      <4>3. 1 \in DOMAIN list
        BY <2>3
      <4>4. u # h
        BY <2>3, <2>4, <4>2, <4>3
      <4>5. QED
        BY <4>2, <4>4 DEF Queued
    <3>2. ASSUME u \in Queued(m), u # h PROVE u \in Queued(m)'
      <4>1. PICK i \in DOMAIN list : u = list[i]
        BY <3>2 DEF Queued
      <4>2. i - 1 \in DOMAIN Tail(list) /\ Tail(list)[i - 1] = list[i]
        BY <2>2, <2>3, <3>2, <4>1
      <4>3. QED
        BY <2>1, <4>1, <4>2 DEF Queued
    <3>3. QED
      BY <3>1, <3>2
  <2>6. h \in Queued(m)
    BY <2>3 DEF Queued
  <2>7. QED
    BY <2>1, <2>5, <2>6 DEF Queued
<1>6. \A u \in Tids, k \in Mutexes : Waiting(u, k)' <=> Waiting(u, k)
  BY <1>1 DEF Waiting, Place
<1>7. \A u \in Tids, k \in Mutexes : k # m \/ u # me => (Has(u, k) => Has(u, k)')
  BY <1>1, <1>2, <1>3, <1>4, <1>6 DEF Has, Granted
<1>8. \A k \in Mutexes : /\ LeftLocked(k) => LeftLocked(k)'
                         /\ Jumped' <=> Jumped
  <2>1. \A u \in Tids \ {0} : status[u] = "EXITED" => u # me /\ u # h
    BY <1>1, <1>2, Caller
  <2>2. QED
    BY <1>1, <1>3, <1>4, <2>1 DEF LeftLocked, Jumped
<1>9. BlockedListed'
  <2> SUFFICES ASSUME NEW t \in Tids \ {0}, status'[t] = "BLOCKED"
               PROVE  \E k \in Mutexes : t \in Queued(k)'
    BY DEF BlockedListed
  <2>1. t # h /\ status[t] = "BLOCKED"
    BY <1>3
  <2>2. PICK k \in Mutexes : t \in Queued(k)
    BY <1>1, <2>1, Caller DEF WakeInv, BlockedListed
  <2>3. t \in Queued(k)'
    BY <1>5, <2>1, <2>2
  <2>4. QED
    BY <2>3
<1>10. NotYetInv'
  BY <1>1, <1>4, <1>6, Caller DEF WakeInv, NotYetInv
<1>11. HadInv'
  <2> SUFFICES ASSUME NEW k \in Mutexes, k < mutexId, __lock[k] = 0,
                      __owner[k] # NoOwner
               PROVE  \E t \in Tids : Has(t, k)'
    BY <1>1 DEF HadInv
  <2>1. PICK t \in Tids : Has(t, k)
    BY <1>1, Caller DEF WakeInv, HadInv
  <2>2. CASE k # m
    <3>1. Has(t, k)'
      BY <1>7, <2>1, <2>2
    <3>2. QED
      BY <3>1
  <2>3. CASE k = m /\ Waiting(h, m)
    <3>1. PICK u \in Tids : u = h
      BY <1>2
    <3>2. status'[u] = "READY" /\ Waiting(u, m)'
      BY <1>3, <1>6, <2>3, <3>1
    <3>3. Has(u, m)'
      BY <3>2 DEF Has, Granted
    <3>4. QED
      BY <2>3, <3>3
  <2>4. CASE k = m /\ ~Waiting(h, m)
    <3>1. h = 0
      BY <1>2, <2>4
    <3>2. LeftLocked(m)
      BY <1>1, <1>5, <2>4, <3>1, Caller DEF WakeInv, MainInv
    <3>3. PICK u \in Tids \ {0} : status'[u] = "EXITED" /\ m \in held'[u]
      BY <1>8, <3>2 DEF LeftLocked
    <3>4. Has(u, m)'
      BY <3>3 DEF Has
    <3>5. QED
      BY <2>4, <3>4
  <2>5. QED
    BY <2>2, <2>3, <2>4
<1>12. JumpInv'
  <2> SUFFICES ASSUME me = 0, topThread # 0 PROVE JumpInv'
    BY <1>1 DEF JumpInv
  <2>1. \A u \in Tids \ {0} : \/ status[u] = "EXITED"
                              \/ held[u] = {} /\ buf[u].at = "user"
    BY <1>1, Caller DEF WakeInv, JumpInv
  <2>2. h = 0
    BY <1>2, <2>1 DEF Waiting, Place, WaitPoints
  <2>3. QED
    BY <1>1, <1>3, <1>4, <2>1, <2>2, Caller DEF JumpInv
<1>13. MainInv'
  <2> SUFFICES ASSUME NEW k \in Mutexes, 0 \in Queued(k)'
               PROVE  \/ ~Jumped' /\ Waiting(0, k)' /\ status'[0] = "BLOCKED"
                      \/ Jumped' /\ (__owner[k] = NoOwner \/ LeftLocked(k)')
    BY <1>1 DEF MainInv
  <2>1. 0 \in Queued(k) /\ (k = m => h # 0)
    BY <1>5, ZeroTid
  <2>2. \/ ~Jumped /\ Waiting(0, k) /\ status[0] = "BLOCKED"
        \/ Jumped /\ (__owner[k] = NoOwner \/ LeftLocked(k))
    BY <1>1, <2>1, Caller DEF WakeInv, MainInv
  <2>3. Waiting(0, k) => h # 0
    BY <1>2, <2>1 DEF Waiting
  <2>4. QED
    BY <1>3, <1>6, <1>8, <2>2, <2>3, ZeroTid
<1>14. QED
  BY <1>9, <1>10, <1>11, <1>12, <1>13 DEF WakeInv
----------------------------------------------------------------------------
LEMMA InitWake == MInit => WakeInv
<1> SUFFICES ASSUME MInit PROVE WakeInv
  OBVIOUS
<1>1. /\ \A u \in Tids : Place(u).at \notin WaitPoints /\ status[u] = "EXITED"
      /\ \A m \in Mutexes : Queued(m) = {}
      /\ mutexId = 0 /\ topThread = 0
  BY ZeroTid DEF MInit, MutexInitial, Init, Place, WaitPoints, Ctx, Queued
<1>2. BlockedListed /\ NotYetInv /\ JumpInv /\ MainInv
  BY <1>1 DEF BlockedListed, NotYetInv, JumpInv, MainInv, Waiting
<1>3. HadInv
  BY <1>1 DEF HadInv, Mutexes
<1>4. QED
  BY <1>2, <1>3 DEF WakeInv

LEMMA WakeStep ==
    ASSUME OnlyMainCreates, MTypeOK, MInv, WakeInv, [MNext]_mutexVars
    PROVE  WakeInv'
<1>1. CASE [CreateCount \/ ExitMark \/ CoreStep \/ Alarm \/ Halted]_coreVars
            /\ UNCHANGED mutexState
  BY <1>1, CoreWake DEF Halted
<1>2. ASSUME NEW m \in Mutexes, MutexLock(m) \/ MutexUnlock(m)
      PROVE  WakeInv'
  BY <1>2, MutexClaimWake, MutexEnqueueWake, MutexReleaseWake,
     MutexHandOverWake DEF MutexLock, MutexUnlock
<1>3. CASE MutexStep
  BY <1>3, MutexYieldWake, MutexReturnWake DEF MutexStep
<1>4. QED
  BY <1>1, <1>2, <1>3, MutexInitWake DEF MNext, MutexCall, mutexVars

LEMMA WakeInvariant ==
    ASSUME OnlyMainCreates PROVE MSpec => [](MTypeOK /\ MInv /\ WakeInv)
<1>1. MTypeOK /\ MInv /\ WakeInv /\ [MNext]_mutexVars
        => (MTypeOK /\ MInv /\ WakeInv)'
  BY MutexInvStep, WakeStep
<1>2. QED
  BY <1>1, InitMutex, InitWake, PTL DEF MSpec

(* A list has room for every thread once, and no thread is in it twice.    *)
LEMMA ListsAreShort ==
    ASSUME MInv, Running, NEW m \in Mutexes, NEW i \in DOMAIN mutexThreadLists[m]
    PROVE  i \in 1..MAX_THREADS
<1> DEFINE list == mutexThreadLists[m]
<1>1. list \in Seq(Tids)
  BY DEF MInv, MState
<1>2. Len(list) \in Nat /\ DOMAIN list = 1..Len(list) /\ list \in [1..Len(list) -> Tids]
  BY <1>1, LenProperties
<1>3. \A j, k \in 1..Len(list) : list[j] = list[k] => j = k
  BY <1>2 DEF MInv, MutexPart, QueueInv
<1>4. IsFiniteSet(Tids) /\ Cardinality(Tids) = MAX_THREADS
  <2>1. 0 \in Int /\ MAX_THREADS - 1 \in Int /\ ~(0 > MAX_THREADS - 1)
        /\ MAX_THREADS - 1 - 0 + 1 = MAX_THREADS
    BY ThreadsAssumption
  <2>2. QED
    BY <2>1, FS_Interval, Zenon DEF Tids
<1>5. IsFiniteSet(1..Len(list)) /\ Cardinality(1..Len(list)) = Len(list)
  BY <1>2, FS_Interval
<1>6. Len(list) <= MAX_THREADS
  <2>1. ~(Cardinality(Tids) < Cardinality(1..Len(list)))
    BY <1>2, <1>3, <1>4, <1>5, FS_PigeonHole
  <2>2. QED
    BY <1>2, <1>4, <1>5, <2>1, ThreadsAssumption
<1>7. QED
  BY <1>2, <1>6, ThreadsAssumption

(* A blocked worker is in exactly one list, once: exactly one unlock wakes *)
(* it (lines 238-263 against 290-301), however many threads wait, and even *)
(* while main is in two lists.                                             *)
THEOREM BlockedAreQueuedOnce ==
    ASSUME OnlyMainCreates PROVE MSpec => []BlockedQueuedOnce
<1>1. MInv /\ WakeInv => BlockedQueuedOnce
  <2> SUFFICES ASSUME MInv, WakeInv, Running,
                      NEW t \in Tids \ {0}, status[t] = "BLOCKED"
               PROVE  Cardinality({p \in Mutexes \X (1..MAX_THREADS) :
                                    /\ p[2] \in DOMAIN mutexThreadLists[p[1]]
                                    /\ mutexThreadLists[p[1]][p[2]] = t}) = 1
    BY DEF BlockedQueuedOnce, Running
  <2>1. PICK m \in Mutexes : \E i \in DOMAIN mutexThreadLists[m] :
                                mutexThreadLists[m][i] = t
    BY DEF WakeInv, BlockedListed, Queued
  <2>2. PICK i \in DOMAIN mutexThreadLists[m] : mutexThreadLists[m][i] = t
    BY <2>1
  <2>3. i \in 1..MAX_THREADS
    BY ListsAreShort
  <2>4. ASSUME NEW k \in Mutexes, NEW j \in DOMAIN mutexThreadLists[k],
               mutexThreadLists[k][j] = t
        PROVE  k = m /\ j = i
    <3>1. Waiting(t, k) /\ Waiting(t, m)
      BY <2>2, <2>4 DEF MInv, MutexPart, QueueInv
    <3>2. k = m
      BY <3>1 DEF Waiting
    <3>3. QED
      BY <2>2, <2>4, <3>2 DEF MInv, MutexPart, QueueInv
  <2>5. {p \in Mutexes \X (1..MAX_THREADS) :
            /\ p[2] \in DOMAIN mutexThreadLists[p[1]]
            /\ mutexThreadLists[p[1]][p[2]] = t} = {<<m, i>>}
    BY <2>2, <2>3, <2>4
  <2>6. QED
    BY <2>5, FS_Singleton
<1>2. QED
  BY <1>1, WakeInvariant, PTL

(* No wake-up is lost: while threads queue for a mutex that was not left   *)
(* closed by an unlock with nobody waiting, some thread has it, and will   *)
(* unlock it unless it exited with it (lines 283-301 against 229).         *)
THEOREM NoWakeupIsLost == ASSUME OnlyMainCreates PROVE MSpec => []NoLostWakeup
<1>1. MInv /\ WakeInv => NoLostWakeup
  <2> SUFFICES ASSUME MInv, WakeInv, Running, NEW m \in Mutexes,
                      mutexThreadLists[m] # <<>>, __owner[m] # NoOwner
               PROVE  \E t \in Tids : Granted(t, m) \/ m \in held[t]
    BY DEF NoLostWakeup, Running
  <2>1. __lock[m] = 0
    BY DEF MInv, MutexPart, ClosedInv
  <2>2. m < mutexId
    BY DEF MInv, MState, MutexPart, UnbornInv, Mutexes
  <2>3. QED
    BY <2>1, <2>2 DEF WakeInv, HadInv, Has
<1>2. QED
  BY <1>1, WakeInvariant, PTL
=============================================================================
