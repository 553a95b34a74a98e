# OperatingSystemChallenges in TLA+

Models, model checks and proofs for the programs of this repository: a user-level
thread library (Challenge2), thread-local storage with copy on write (Challenge4), a
file system on an emulated disk (Challenge5) and a shell (Challenge1). This document
says what the system consists of, which part each module models, what each TLC run
shows under which bounds, what is proved, and what is left.

`tlc -config X.cfg M` runs one check (the table below has the module of each
configuration), `tlapm M.tla` checks the proofs of a module
(the seven named `...Proofs`; section 5 has the results).

## 1. Inventory

The four challenges are separate programs; nothing but the operating system connects
them. Interactions are inside each.

| Component | State | Operations | Hard because |
|---|---|---|---|
| Scheduler, `Challenge2/threads.c` 91-170, 417-503 | `tcbList` (status and jmp_buf per thread), `schedule`'s static `topThread`, `currentThreadID`, `numOfThreads`, `exitedThreads`, the ualarm timer | `schedule` (SIGALRM handler, also called directly), `pthread_create`, `pthread_exit`, `pthread_self` | SIGALRM interrupts anything, the library's own code included; contexts are saved under one index and restored under another |
| Mutexes, 173-304 | `__lock`, `__owner`, the waiting lists, a static id | init, destroy, lock, unlock | waiters are woken through the scheduler's statuses; `lock()`/`unlock()` turn the timer off and on |
| Barriers, 306-415 | counts, serial flag, waiting lists, a static id | init, destroy, wait | half of wait runs with the timer on; barriers are reused |
| File system, `Challenge5/fs.c` | inodes, directory, block bitmap (in memory while mounted, in block 0 otherwise), descriptors | make, mount, umount, create, delete, open, close, read, write, lseek, truncate, listfiles, get_filesize | part of the state reaches the disk at once and part at umount; errors are found after changes were made |
| Virtual disk, `Challenge5/disk.c` | the host file, `active`, `handle` | make, open, close, block_read, block_write | one disk at a time |
| Thread-local storage, `Challenge4/tls.c` | `ttpArray`, `maxIndex`, pages with reference counts and protection | create, destroy, clone, read, write, the SIGSEGV handler | real threads; the table and the reference counts are shared, the mutexes are per TLS |
| Shell, `Challenge1/myshell.c` | the pipeline, one pipe, child processes | one round of read, check, fork, wait per line | processes waiting on one pipe and on each other |
| Parser, `Challenge1/myshell_parser.c` | none between calls | `pipeline_build`, `pipeline_free` | one pass over the characters with a dozen flags and positions; what is refused here and what in the shell |

`Challenge2/ch3Tests` and `experiments` hold earlier stages of `threads.c`; the rest are
test programs. They are not modelled; they tell how the libraries are used (in every
one of them main alone creates threads and sets up mutexes and barriers).

What makes each component correct:

- *Scheduler*: no thread's context is lost or mixed up, whatever an alarm interrupts; an
  exited thread stays exited; ready threads get their turn; the process ends when, and
  only when, all threads have.
- *Mutexes*: exclusion; first come, first served; no lost wake-up; progress.
- *Barriers*: the count is met before anyone leaves, then the round leaves together, with
  one serial thread; reusable.
- *File system*: each call does to the files by name what the README says; what is
  unmounted is there at the next mount; no two files share a block; descriptors keep
  their file.
- *TLS*: a thread sees its own writes and nobody else's; a page is protected while nobody
  accesses it; a copy on write keeps the other sharers' contents; reference counts match
  the sharers; who strays into another's page pays for it, and the others continue; a thread
  without storage is refused.
- *Shell and parser*: a line means what the header says; its commands all run and end; one
  process reads the terminal whatever failed before; a reader sees the end of its input;
  no descriptor is left open.

The hazards behind these, line by line, are in `PROJECT.json`.

## 2. Modules

    Threads                scheduler, pthread_create, pthread_exit
      ThreadsMutex           EXTENDS Threads: mutexes
      ThreadsBarrier         EXTENDS Threads: barriers;  implements AbstractBarrier
        ThreadsSync            EXTENDS both: the whole library
      ThreadsProofs          EXTENDS Threads: proofs
      ThreadsMutexProofs     EXTENDS ThreadsMutex, ThreadsProofs: proofs
      ThreadsBarrierProofs   EXTENDS ThreadsBarrier, ThreadsProofs: proofs
        ThreadsSyncProofs      EXTENDS ThreadsSync and both of these: proofs
    FileSystem             fs.c and disk.c;  implements AbstractFileSystem
      FileSystemProofs       EXTENDS FileSystem: proofs of its invariants, and that it implements
    TLS                    tls.c;  implements AbstractTLS
      MCTLS                  EXTENDS TLS: symmetry
      TLSProofs              EXTENDS TLS: proof of types and table
    ShellParser            pipeline_build, errorCheck, and the grammar they are held against
      Shell                  EXTENDS ShellParser: myshell.c and its children
        MCShell                EXTENDS Shell: the lines that are typed
        ShellProofs            EXTENDS Shell: proofs

### Threads

One processor executes one *context*: a thread, the point of the library it is at
(`"user"` is the program's own code) and a local variable. `cpu` is the executing
context, `buf[t]` what `setjmp` stored in `tcbList[t].buf`. A context is gone once it has
been resumed (`"dead"`), so a second `longjmp` to it, which is undefined in C, halts the
model as `"stale"`. `process` tells how the process ended: `exit(0)`, killed by SIGALRM,
spinning in the scan of `schedule`, stale, or past the end of `tcbList`.

`Alarm` may fire between any two actions while the timer is armed. The atomic actions are
therefore the pieces of code between which an alarm makes a difference:
`pthread_create` is `CreateCount` (421), then `CreateNoMemory` or `CreateInit` (439-466), and the
first time `SchedulerInit` (163-169), behind the arming of the timer and before main's entry is READY;
`pthread_exit` is `ExitMark` (474), `ExitCount` (480), then one of `ExitSchedule`,
`ExitToMain`, `ExitProcess`. `schedule()` itself is one action: the alarm that would
interrupt it comes 50 ms later. (SA_NODEFER permits it; see section 7.)

`Schedule(ctx)` follows the code: demote the entry of `topThread` unless it is exited or
blocked, save `ctx` in that entry unless it is exited, and go to the next entry, counting
from `topThread` round `numOfThreads`, that is neither. The scan's loop is stated as what
it finds: the runnable entry with the fewest `Steps`.

### ThreadsMutex, ThreadsBarrier, ThreadsSync

Code between `lock()` and `unlock()` runs with the timer off and is one action. `unlock()`
always arms the timer. What follows it (`MutexYield`, `BarrierYield`: the call of
`schedule(14)`; `BarrierSerial`, `BarrierClear`: the two halves of lines 404-406) is
separate, with alarms in between. `held` records the mutexes a thread's lock calls have
returned for; `arrived`, `left` and `serials` count calls and returns of
`pthread_barrier_wait`. They are history: no guard of the library's code depends on them,
except that the program unlocks only what it holds and does not lock what it holds
(relocking and foreign unlocks are the caller's errors in POSIX), and that the bound
`WAIT_LIMIT` reads `arrived`. A program may exit while it holds a mutex.

`AbstractBarrier` says what a barrier for N promises in three actions. A client of
`ThreadsBarrier` is *waiting* when it is in the call and blocked, *released* when it is in
the call and not blocked, and *outside* otherwise.

`ThreadsSync` puts mutexes and barriers over one scheduler: they meet in the statuses.

### FileSystem

One call, one action: the program is sequential. A block is a pair of the number its first
four bytes give when it is read as an index, and cells for its bytes. Block 0 holds the
tables. Three facts of the C code shape the model and were confirmed by reading the
types: the index written by `fs_create` has one block number, and 0 behind it; `fs_write`
does not tell 0 from a block number; `fs_delete` reads 4096 bytes into a 1024-byte array
next to the buffer of zeros, so a freed block gets zeros or bytes of the stack (`Remove`
chooses).

`AbstractFileSystem` is the README's promises: files by name with size and contents, descriptors with
a file and a pointer, disks that are mounted or stored; each call changes exactly what it should
or nothing, a write adds to the size, a read stays within it. It knows nothing of 16 bits or
blocks. What the library asks of its callers without checking it is `Careless`: a program that is
careless with `"mounts"` mounts or makes a disk over a mounted one, with `"reads"` reads past the end of
a file, with `"sizes"` writes more than a 16-bit size can count. The refinement is checked and proved for
programs that are careless with none of these (`makefs.c`, `fileTest.c`); the configurations of section 3 show each of them go
wrong. `FileSystem` maps to it through the directory, the inodes and the index on
the disk (`FilesOf`): `MountedFiles`, `StoredFiles` of the disks that are not mounted, and
`OpenFiles` for the descriptors.

### TLS

The threads are POSIX threads and run in parallel, so an action is the code between two
accesses to what threads share: `ttpArray` and `maxIndex`, a storage (`tls`) another thread
can reach through the table, the mutex in it, and a page (its `ref_count`, its protection,
its bytes). `pc[t]` names the next access, `call[t]` holds the locals of the call. A write of
two pages whose first one is shared takes the steps `FirstCall`, `Scan`, `Check`, `Lock`, `RefTest`,
`LoadCount`, `Decrement`, `Install`, `OpenOld`, `CopyOld`, `CloseOld`, `Copy`, `Close`, `RefTest` and so on,
then `Unlock` and `Return`. `maxIndex++`, `ref_count++` and `ref_count--` are a load and a store each (`LoadMax` and
`TakeEntry`, `Share` and `Count`, `LoadCount` and `Decrement`), so an update can be lost. The scan of the table
is one step, and so is the emptying of the next entry. A page is copied per call and page, not per byte.
`leftOpen` is history: the pages a refused call has left open.

A copy from or to a page that its protection forbids raises a fault, and `sfHandle` decides:
it exits the thread if a storage in the table has the page (the thread keeps its mutex:
`pthread_exit` in a handler unlocks nothing), follows a NULL in an entry that a failed look-up left,
or lets the process die (`crashed`). `NullDeref` is the other end of a process: a pointer
that another thread has not set yet or has cleared.

The library does not exclude its callers from each other. `Apart` says how much they do themselves:
`"tables"` keeps calls that set up storage apart, `"pages"` calls that use a common page. `multiCloneTest.c`
makes every call under one mutex (40-103) and so keeps both. `testTLS.c` does not: its creators and
cloners hold `m1`, but `illegalMemAccess` calls `tls_write` and `tls_read` (239, 243) next to them. With both apart, reads
and writes of threads that do not share pages, and one set-up, still run in parallel; without, the code goes wrong:
see `TLS_RefusedBeforeCreate`, `TLS_SharedWrite` and `TLS_SharedRead` below. A stranger (`Stray`, line 263 of that test) asks
nobody: it touches another's page at any time, in use or not.

`AbstractTLS` has a private memory per thread; creating, writing and cloning change the caller's
and nobody else's. `Memory(t)` maps a storage to it: a write counts as made with its first
byte, and a page that is being replaced as what it is about to hold.

### ShellParser, Shell

`pipeline_build(line)` folds `Turn`, one turn of the loop with one operator per kind
of character, over the line. Beside it stands the header's example as a grammar:
`WellFormed` and `Meaning` cut the line at its bars and redirections and take the runs of
characters between blanks, without flags or positions.

`Shell` has a table of processes. Each has a program counter, its descriptors (what is
open on each number), `flowThru`, and the commands it runs. A step is what a process does between two
points where processes meet. fork copies the entry; a child whose file does not open
(`Prompting`), or whose program does not exist (`Advanced`), is a shell from then on, which is what the
`break` of lines 117 and 132 and the missing `exit` behind line 160 make of it. What was
typed in such a shell is read by it, in a pipe's reader the output of the first command
is taken for lines, and where its input is closed fgets fails without an end of file and
the last line runs again (`Again`). fork fails when `MAX_PROC` processes exist and pipe when
`MAX_FD` descriptors are open, and the code goes on as it does.

The system calls and the programs are external: a producer writes `OUTPUT` units, a copier
reads and writes until the end of its input, a unit is what one read takes. Files hold
nothing.

## 3. Runs

Runs that pass:

| Run | Module | Shows | Instance |
|---|---|---|---|
| Threads | Threads | `CoreInv` (the proof's invariant), `NobodyCutShort`, `ExitIsFinal`, `RoundRobin` | main and up to 4 workers |
| Mutex | ThreadsMutex | `MutexInv` (the proof's invariant), `MutualExclusion`, `NoBarging`, `BlockedQueuedOnce`, `NoLostWakeup` | main, 2 workers, 2 mutexes |
| MutexLive | ThreadsMutex | `QueuedGetsMutex`, `MutexRoundRobin` | main, 2 workers, 1 mutex |
| Barrier | ThreadsBarrier | `BTypeOK`, `FirstRoundHasSerial`, `ImplementsBarrier`, `RoundLeaves` | main, 3 workers, count 2, 4 waits |
| Sync | ThreadsSync | `MutualExclusion`, `BlockedWhereListed`, `ImplementsBarrier` | 2 workers, 1 mutex, 1 barrier of 2, one round |
| Files | FileSystem | `FTypeOK`, `FilesApart`, `OneInodeEach`, `FdKeepsFile`, `ImplementsFS` | 1 disk, 2 files, 2 descriptors, 6 blocks of one cell, sizes below 3, careful callers |
| TLS | MCTLS | `TTypeOK`, `RefCountExact`, `ReadsOwn`, `ImplementsTLS` | 3 threads, one creates and two clone, 2 pages of 2 bytes, 2 calls each |
| TLSStray | TLS | `PagesClosed`, `OwnCallsSafe`, `CallsReturn` | 2 threads, both create, one clones and strays; sizes 0 and 3, offsets 1 and 4, lengths 2 and 4 of reads and writes |
| Shell | MCShell | `ShTypeOK`, `OneReader`, `PipesConnected`, `NothingLeftOpen`, `LinesUnderstood`, `TwoFinish` | all lines of up to 3 of 8 characters and 12 longer ones, 4 processes, 9 descriptors, pipes of 2 units |

Bounds, and why they suffice. Two workers and main show every situation the statuses and
lists can tell apart: one that executes, and two that queue in either order behind a third
that is saved; `Threads` has two more workers, so that two entries lie between any two.
`CREATE_LIMIT = MAX_THREADS - 1` creates every entry. Mutexes are independent in the code but for
the statuses, and two are enough to hold one while waiting for the other. Two rounds of a
barrier show reuse; `WAIT_LIMIT` bounds the history counters. In `Barrier` nobody but
workers waits and there is one barrier, and in `Sync` there is one round: beyond that the
code does not keep its promises, as the next table shows. `Files` has the blocks for two
files and one to spare, so that an allocation fails with one block left and with none, and
blocks are reused in another order than they were freed in; two writes to one place make size and
extent differ. With several disks, and several cells to a block, `ImplementsFS` is a theorem (section 5). `OFFSET_LIMIT` ends reads
and writes; in the passing runs it keeps them in a file's first block.

`TLS` has the page boundary inside the storage and lengths of a part of a page and more than what is
left; three threads are needed for a page with two other owners, two calls for a
clone followed by a write. `TLSStray` has refused sizes, offsets, reads and writes, those included that are refused at the
boundary and leave their page open, a stranger at any moment, and the liveness; that a fault of the
stranger may end the process is the next table's `TLS_OthersContinue`, and `CallsReturn` excuses it. `MAX_THREADS` is larger than the look-ups that can fail,
so that the table does not overflow.
In `Shell` three characters reach every pair of flags of the parser in either order and the
longer lines have the header's form and its breaches; lines typed in nested shells are
three; a program writes as much as a pipe holds and not more. Both limits, of processes and of
descriptors, are reached. `LinesUnderstood` asks for a refusal of lines of at most two commands, and
`TwoFinish` is about programs that exist: the rest is in the table.

Where the code does not do what the repository says. Each configuration checks the one
property that states it, and TLC's counterexample is an execution of the code. The three in
bold are runs of the project, with a finding each; the others are kept to be run by hand
(they take the module named by the part before the underscore; `Files` is `FileSystem`,
`Mutex`, `Barrier` and `Sync` are `ThreadsMutex`, `ThreadsBarrier` and `ThreadsSync`, `Shell` is `MCShell`).

| Configuration | Statement | What happens |
|---|---|---|
| Threads_AllExitedTerminates | Challenge2 README: the program exits once all threads are finished | a thread preempted between 474 and 480 is never counted; the last one spins in the scan |
| Threads_NoStaleResume | `test_busy_threads.c`:39 all threads reach their maximum | after the jump to main (494) the next alarm goes back to main's dead context |
| Threads_MainReturns | `threads.c`:417-466: `pthread_create` returns to main | an alarm between 154 and 169 finds main's entry EXITED, does not save it, and nobody resumes it |
| Threads_NoOverrun | `threads.c`:421 "if at max number of threads, return error" | the call that makes the count `MAX_THREADS` goes on with `tcbList[MAX_THREADS]` |
| Mutex_FreeWhenUnowned | `threads.c`:199, 285 | line 283 stores 0, "claimed": the mutex can never be locked again |
| Mutex_NotKilled | Challenge2 README, on mutexes | `unlock()` arms the timer before the handler is installed |
| Barrier_SerialOnce | `threads.c`:404 "once per barrier exit" | an alarm between 404 and 406 |
| Barrier_NobodyCutShort | `threads.c`:392 "so barrier can be reused" | the stale list revives an exited thread, which calls `exit(0)` |
| Barrier_Two | Challenge2 README: blocks until the count is met | the stale list of one barrier releases a waiter of another |
| Barrier_Main | the same | the last worker's exit releases main (492) |
| **Sync_MutualExclusion** | Challenge2 README: mutexes protect critical data | the stale list of a barrier releases a waiter of a mutex |
| Files_MetadataKept | Challenge5 README, read/write | writing past the first block writes block 0 |
| Files_BlocksBelongToFiles | Challenge5 README, create | two blocks are taken before any check, and kept |
| Files_EveryInodeListed | Challenge5 README, create | the empty name takes an inode and no entry |
| Files_OffsetWithinFile | Challenge5 README, lseek | read and truncate leave the pointer past the end |
| Files_WritesGrow | Challenge5 README, line 13: "Write will increase file size as more data is written" | the size is kept in 16 bits (731): a write that wraps it makes the file smaller |
| Files_DeletedBlocksZeroed | `fs.c`:478 | freed blocks get bytes of the stack |
| Files_ListsOpenFiles | Challenge5 README, listfiles | closed files are listed |
| Files_Careless | Challenge5 README, umount | mount or make while mounted empties the tables the next umount writes |
| TLS_RefusedBeforeCreate | `testTLS.c`:239, 243: without a storage reads and writes are refused | `findIndex` (141-143) gives two threads one entry, and the one without storage writes into the other's |
| TLS_StrayFails | `testTLS.c`:255 "This should fail" | a write refused at the boundary (529) leaves its first page open to everybody |
| **TLS_OthersContinue** | Challenge4 README, line 25: "allow the other threads to continue" | a refused call's entry has no storage; the handler follows its NULL (80) and the process ends |
| TLS_SharedRead (`OwnCallsSafe`) | `tls.c`:90: who faults accessed another thread's storage | with clones using a shared page at once, the first to finish closes it and the other is exited for an access to its own storage |
| TLS_SharedWrite (`ImplementsTLS`) | Challenge4 README: a clone is an exact copy | the last owner writes the shared page in place between another's decrement (495) and its copy (509), which then has that write |
| **Shell_TwoFinish** | Challenge1 README: "works perfectly for [...] two commands" | a first command that writes more than the pipe holds waits for a reader not started yet |
| Shell_BackgroundKnown | `myshell_parser.h`:42 "True if this pipeline should execute in the background" | without an ampersand the flag is never set (`myshell_parser.c`:35, 68): it is what malloc gave |
| Shell_ImproperRefused | Challenge1 README: redirections in improper places are refused | `errorCheck` looks at the output of the first command only, not of those in the middle |
| Shell_EndQuits | Challenge1 README: ctrl+d quits the program | it quits the child that could not run its command; the first shell is still there |
| Shell_LinesSurvived | Challenge1 README: the program prompts until the user exits | an empty line, or one that ends in a bar, goes through an unset pointer and ends the shell |

A write that replaces bytes grows the size like any other (731), which is how `AbstractFileSystem` takes the
README's line 13. `fs_truncate` with a negative length makes the file larger (855-860: the check is signed, the
size unsigned); the instances keep to lengths that are not negative.

Repairing line 283 alone would have a price the model shows: a thread that locks and
unlocks a free mutex in a loop restarts the 50 ms timer each time and would keep the
processor for good. `MutexRoundRobin` holds today only because of line 283.

## 4. Fairness

- `WF(Alarm)`: the interval timer keeps firing. With mutexes and barriers the timer is
  restarted by every library call, so the assumption is only that it expires *or is
  restarted* by a call: `WF(Alarm \/ MutexCall)`. `FairSpec` has no calls and no such
  disjunct.
- `SF(cpu.of = t /\ CoreStep)`, and with the library's other internal steps: a thread that
  is given the processor again and again gets on with the library call it is in. An alarm
  disables the step for the time being, hence strong fairness; that a quantum of 50 ms is
  long enough for one step justifies it. Nothing is assumed of the program's own code: it
  need not call `pthread_exit` or anything else.
- `SF(cpu.of = t /\ MutexUnlock(m))` in `MFairSpec`: who holds a mutex and keeps getting the
  processor unlocks it. This is the clients' contract; without it no queued thread can be
  promised the mutex.

- `WF(Step(t))` in `TLS`: the threads are the operating system's. That a thread makes a
  call is up to the program and not assumed.
- `WF(Step(p))` in `Shell`: every process that can take a step takes one. What the user types is
  `User(p)`, and not fair.

The file system's properties are safety only.

## 5. Proofs

Every theorem is about every value of the constants that the assumptions in the modules
and the third column allow: any number of threads, mutexes, barriers, files, blocks,
storages, processes, descriptors, and any bound on the runs. Every
statement but `BarrierHolds`, `TypeOK`, `MTypeOK` and `STypeOK` is also checked by a run of section 3,
on an instance.

| Theorem | Statement | Assumes |
|---|---|---|
| `TypeCorrect` | `Spec => []TypeOK` | |
| `CoreInvariant` | `Spec => []CoreInv` | main alone creates threads |
| `NobodyIsCutShort` | `Spec => []NobodyCutShort` | the same |
| `ExitsAreFinal` | `Spec => ExitIsFinal` | the same |
| `MutexTypeCorrect` | `MSpec => []MTypeOK` | |
| `MutexInvariant` | `MSpec => [](MTypeOK /\ MutexInv)` | main alone creates threads |
| `MutexesExclude` | `MSpec => []MutualExclusion` | the same |
| `NobodyBarges` | `MSpec => []NoBarging` | the same |
| `BlockedAreQueuedOnce` | `MSpec => []BlockedQueuedOnce` | the same |
| `NoWakeupIsLost` | `MSpec => []NoLostWakeup` | the same |
| `BarrierTypes` | `BSpec => []BTypeOK` | |
| `SomeoneIsSerial` | `BSpec => []FirstRoundHasSerial` | |
| `NobodyLeavesEarly` | `BSpec => []BarrierHolds` | one barrier, not used by main, main alone creates |
| `BarrierIsImplemented` | `BSpec => ImplementsBarrier` | the same |
| `SyncTypeCorrect` | `SSpec => []STypeOK` | |
| `MutexesExcludeNextToBarriers` | `SSpec => []MutualExclusion` | one round of each barrier, by workers; main alone creates |
| `BlockedThreadsAreListed` | `SSpec => []BlockedWhereListed` | the same |
| `BarrierIsImplementedNextToMutexes` | `SSpec => ImplementsBarrier` | the same |
| `FileTypes` | `Spec => []FTypeOK` | |
| `InodesAreNotShared` | `Spec => []OneInodeEach` | |
| `FilesStayApart` | `Spec => []FilesApart` | `"mounts" \notin Careless` |
| `DescriptorsKeepFiles` | `Spec => FdKeepsFile` | the same |
| `CallsKeepTheirPromises` | `Spec => ImplementsFS` | the same; `"reads"`, `"sizes" \notin Careless`; offsets within the first block; no negative lengths |
| `TablesKeepTypes` | `Spec => []TTypeOK` | |
| `ShellsTakeTurns` | `Spec => []OneReader` | |
| `ShellTypes` | `Spec => []ShTypeOK` | |
| `ShellClosesItsPipe` | `Spec => []NothingLeftOpen` | |

What is assumed, and why. Each assumption is one that every program in the repository which uses the
component keeps, and one that the code needs: without it a configuration of section 3, or a line of the
source, shows the statement to be false. The theorem about TLS assumes nothing of its callers
(`testTLS.c` keeps nothing that would help); what holds only of callers that exclude each other is left to the
runs `TLS` and `TLSStray`.

- *Main alone creates*, `OnlyMainCreates == Creators \subseteq {0}`: what every program of the
  repository does. `pthread_create` uses `numOfThreads` as an index long after it increased
  it, so two creators can fill in one entry twice.
- *One barrier, not main's*, `OneBarrier`: the stale list of line 392 reaches a second barrier
  (`Barrier_Two`), and the last exit resumes main wherever it is (`Barrier_Main`).
- *One round, by workers*, `OneRound`: any number of barriers and mutexes, but no barrier is waited at
  more often than its count. After that its list is stale, and the next release wakes who
  waits for a mutex (`Sync_MutualExclusion`) or another barrier. The run `Sync` keeps it.
- *Careful callers, `Careful` and `CarefulCalls`*: `mount_fs` and `make_fs` are called only while nothing is mounted
  (`Files_Careless` is what happens otherwise), and for the promises also: no read asks for more than the
  file holds from the pointer on (`Files_OffsetWithinFile`), and no write takes the size past 16 bits (`Files_WritesGrow`).
  `makefs.c` and `fileTest.c` keep all three; the library ensures none of them.
- *First block, `InFirstBlock`*, and *no negative length, `NoNegative`*: the index of a file has one block
  number and a 0 behind it, so a write past the first block goes to block 0
  (`Files_MetadataKept`); a negative length makes a file larger.

*Scheduler.* `NobodyCutShort` rests on two facts that are not visible in the counts:
`exitedThreads` never exceeds the number of threads that are marked exited, have run, and
are past line 480 (`CountedInv`), and the fall-through to `exit(0)` behind `schedule(0)`
(483-497) is never reached (`ExecutingInv`). Both need to know where contexts are: the
executing thread's entry is the one the next `schedule()` saves into, except after the jump to
main, when `topThread` names an exited worker (`ExecutingInv`); saved contexts are their own
thread's and never an exiting one's (`SavedInv`); what is above `numOfThreads`, or about to
be filled in, is unused (`CreatedInv`); before the first creation nothing happened
(`FirstInv`). Their conjunction `CoreInv` is inductive; one lemma per action, and
`ScheduleResult` and `ScheduleCore` for the scheduler, which alarms and exits share.
When the counts agree at `exitedThreads = numOfThreads`, `CountsAgree` turns the inequality
of cardinalities into "all workers are finished".

*Mutexes.* `__lock` proves nothing about exclusion: a hand-over never touches it. The
invariant says instead that a mutex somebody has or wants is closed (`ClosedInv`), that
only blocked threads that wait for it are in its list, once each (`QueueInv`), that nobody
waits for what is not set up (`UnbornInv`), and that a blocked thread executes only on its
way to `schedule(14)`, of a lock or of a barrier (`BlockedInv`). Main is the exception throughout: the jump of line 494
may take it out of a lock call while it is still queued. `QueueInv` names the two
situations this leaves, and mutual exclusion survives because all workers have exited by
then.

*Wake-ups* (the second half of `ThreadsMutexProofs`). `QueueInv` says who may be in a list; no lost wake-up is the
converse, and needs it of everybody who is blocked (`BlockedListed`), of those that are
still on their way into the call (`NotYetInv`), and that a mutex with a list and an owner is had
by somebody (`HadInv`). Main's jump needs two more: it happens once (`JumpInv`), and a list main has
been taken out of belongs to a mutex nobody has or one left locked by an exit (`MainInv`).
The conjunction `WakeInv` is inductive next to `MutexInv`.

*Barriers.* `CoreInv` is not an invariant here: the stale list of a reused barrier makes exited
threads ready again. `BarrierInv` says what is left of it: where contexts are, as far as
calls of the barrier go (`PlacesInv`), and the books: those who wait are in the list and
`currentCount` is their number, those in the call are the calls made less those that
returned, and the calls made are whole rounds and `currentCount` more (`BooksInv`). A
release from a stale list then releases nobody who waits too early, since whoever waits
belongs to the round that is complete. Each step of the code is an `Arrive`, `Release` or `Leave` of
`AbstractBarrier` or a stutter. `SomeoneIsSerial` has an invariant of its own (`SerialInv`): until
somebody has been serial nobody has left and the flag is up, whatever alarms come between 404 and 406;
it holds for every number of barriers and any clients.

*Mutexes and barriers together* (`ThreadsSyncProofs`). The two invariants meet in the statuses. The types need
only that who is in a lock call names a mutex that exists (`WaitsInv`). For the rest: while a barrier's round is on,
`currentCount` is the calls so far and each has left one thread in the list (`RoundBooks`); those
listed are blocked in that call (`RoundLists`), so a release wakes nobody else; and whoever is
blocked is in the list its call names, of a mutex or of a round that is not complete
(`WhereInv`), so who hands a mutex over wakes nobody out of a barrier. With `CoreInv` and the mutexes' invariant
these are inductive (`SyncInv`). Steps of the scheduler are one argument for all of them: they
take no worker out of a call or into one, and leave what is blocked, blocked (`Kept`).

*File system.* `FilesInv` is types, the directory's inodes once each and in use (`ListedInv`), and
*apart*: an index block and the blocks in it belong to one inode, and are marked in the
bitmap. This has to hold of the tables in memory over the blocks of the mounted disk, and of every disk
that is not mounted, whose tables are in its block 0 (`ApartInv`),
(`MountInv`: the tables are in use exactly while a disk is open). The second half of `FileSystemProofs` proves of each
call, from `FilesInv`, that the files by name change as `AbstractFileSystem` says, or not at all. The mapping reads a file through directory,
inode and index, so the work is that a change to one block changes one file: that is
`FilesApart` again, now used. All five conjuncts are needed by every call: `FdsInv` (an open
file is listed) keeps `fs_close` and the calls through descriptors from a deleted file.

*TLS.* What leads to an entry, a storage or a page leads to one that is there (`StateInv`), and a call has the
arguments its stage needs (`StageInv`). That the table has room, the hardest of it, is a matter
of counting: every entry is paid for by one look-up of one call (`EntriesInv` picks the set of
look-ups that have taken one; `TLSAssumption` bounds how many there can be). That two threads may load one `maxIndex`
loses an entry and never makes one. No step is assumed to be apart from any other: a step that finds a pointer
cleared or not yet set is `NullDeref`, and every other step has to keep the types whatever was done meanwhile.

*Shell.* `OneReader` needs the shape of the family: the processes that run are one chain from
the first shell, each waiting for the next or about to, and only the last of it does anything
else (`ChainInv`). `NothingLeftOpen` needs that the first shell is never a child, that its pipe always
gets descriptors 3 and 4 and nothing else of its table ever changes, and that the write end is closed
when it waits for the last command (`FirstInv`).
`ShTypeOK` needs that a process past its prompt has a command, for every line: that
`pipeline_build`, a fold of one turn per character over the line, ends with at least one
command. It is proved by the least counterexample over the prefixes of the line (`PipelineHasCommand`), as the
induction theorems of the library cannot be used. Lines are any finite sequences (`ShellAssumption`).

TLC checks `CoreInv` and `MutexInv` as invariants of `Threads` and `Mutex`; the other
inductive invariants were checked on the runs' instances before they were proved.

Only model-checked, and why:

- All liveness: temporal proofs with fairness and ENABLED are beyond the provers.
- `RefCountExact`, `ReadsOwn`, `ImplementsTLS`, `PagesClosed`, `OwnCallsSafe`: they hold for callers that
  exclude each other (`Apart`), which the library does not ensure and `testTLS.c` does not do. A theorem would assume
  away what matters; the runs show what sequences of calls do to the counts and the pages, and the table of section 3 the rest.
- `LinesUnderstood`: what the parser computes for every line is an induction over the
  line with an invariant for each of its flags and positions, against a second parser; TLC
  checks every short line.
- `PipesConnected`: it relates the descriptors of all processes of a round; the chain of `ChainInv`
  would have to carry each process's table along.

## 6. Reading the properties

Properties are stated with their code lines in the modules. Those that matter most:
`CoreInv`/`NoContextLost` (no interleaving loses a thread), `MutualExclusion` and
`NoLostWakeup` (the hand-over protocol), `ImplementsBarrier` (nothing but the last arrival
releases anyone), `RoundRobin` and `QueuedGetsMutex` (progress), `ImplementsFS` (files by
name behave), `FilesApart` and `FdKeepsFile` (allocation and descriptors), `ImplementsTLS` and `RefCountExact`
(copy on write), `PagesClosed` and `OwnCallsSafe` (protection), `CallsReturn` (no path keeps a mutex), `OneReader` and `PipesConnected` (what failed
commands leave behind), `LinesUnderstood` (the parser against the grammar). Each is broken by
a plausible slip in the code; the slips are the definitions marked "A slip" next to the
originals (`DemotedAlways` is one the repository's `ch3Tests/mutexThread.c` really had).

## 7. What is not modelled

- A SIGALRM inside `schedule()` (SA_NODEFER). The scan and the switch are one action.
- `pthread_mutex_destroy`, `pthread_barrier_destroy`: they free list nodes and leave a
  dangling head; harmless unless the object is used again.
- Failures of `ualarm` (the process exits), of `malloc` for list nodes (a NULL
  dereference), and the release of stacks.
- Mutex and barrier initialisation by several threads at once (an unprotected static id).
- File system calls that cross the end of a block, the missing slot in `fs_listfiles`, and
  descriptors out of range: they corrupt memory. `fs_get_filesize` changes nothing.
- Errors of the host's files, and a program that ends without unmounting.
- The index block `fs_create` writes is 512 bytes of zeros, one block number in it, and then bytes of the stack (374, 423):
  entries from 128 on are not modelled (`OFFSET_LIMIT` ends before them).
- `tls.c`: the 128th failed look-up, which writes behind `ttpArray`; the scan of `findIndex` (133-139) entry by entry
  and the parts of the assignment in 145; `boundaryWrite` goes by `strlen` of the source
  (152) and not by `length`: callers are taken to give the string's length, as both tests do; `roundUp`'s
  floats, which are exact below 2^24 bytes; errors of mmap and
  mprotect. Memory of malloc reads zero: nothing is ever freed.
- The buffers of stdio in the shell: fgets (`myshell.c`:49) reads a block and fork (96) copies what is left of it, so a child that
  becomes a shell can run lines of a file again that its parent runs too; in the model a read takes one line, as
  from a terminal. The prompt (41, 46) that such a shell prints into a pipe is not a write to it.
  `NothingLeftOpen` is about the first shell: a nested one keeps the descriptors of a child whose open failed.
- The parser's 30-byte words and 512-byte lines (longer ones run past memory),
  `pipeline_free` (called on the way to exit), the contents of files, standard error, exit
  statuses, signals (ctrl+c) and the `-n` flag.
- Earlier versions and experiments: `ch3Tests/mutexThread.c`, `ch3Tests/barrierThread.c` and the files of
  `experiments` are stages on the way to `threads.c`, superseded by it (the README of
  Challenge2, line 18, keeps them as history). Their one instructive difference is the mutant `DemotedAlways`.

## 8. Plan

Done, in this order: the thread library and its proofs, the file system, the thread-local
storage, the shell with its parser, and the proofs of all four. What would come next:

1. `ScheduleReentry`: `schedule()` split at the choice of `topThread`, the assignment of
   `currentThreadID` and the jump, with nested alarms; destroy as actions; a run with
   two creators.
2. `FileSystem` with a crash: the process ends without unmount, the next mount reads the
   old tables; which of `FilesApart` and `ImplementsFS` remains.
3. Proofs: `PipesConnected` of the shell, with the instances it is true of as assumptions.
