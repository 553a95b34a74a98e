-------------------------------- MODULE TLS --------------------------------
(***************************************************************************)
(* Challenge4/tls.c: storage of their own for POSIX threads, made of pages *)
(* that mprotect() keeps closed between calls, shared by clones until one  *)
(* of them writes (copy on write), and a handler of page faults.           *)
(*                                                                         *)
(* The threads run in parallel; an action is the code between two accesses *)
(* to what threads share: the table ttpArray, a storage another thread may *)
(* reach through it, a page.  pc[t] names the access thread t makes next.  *)
(* The build does not optimise (-O0): n++ is a load and a store, and       *)
(* call[t].loaded what the load gave.                                      *)
(* Fresh memory of malloc() reads zero: the library frees nothing.  A      *)
(* thread writes its own name, so that a byte tells who wrote it.          *)
(***************************************************************************)
EXTENDS Integers, Sequences, FiniteSets

CONSTANTS
    Threads, NoThread,
    Zero,           \* what a byte of a new page holds
    PAGE_SIZE,
    MAX_THREADS,    \* entries of ttpArray
    Sizes,          \* the sizes tls_create is called with
    Offsets,        \* the offsets of calls of tls_read and tls_write,
    ReadLengths,    \* and their lengths; the string that tls_write is
    WriteLengths,   \* given has that length
    Creators,       \* the threads that call tls_create,
    Cloners,        \* and those that call tls_clone
    Strangers,      \* the threads that touch a page of another thread
    CALL_LIMIT,     \* bound: the calls a thread makes
    Apart           \* which calls the callers keep apart (MayCall)

ASSUME TLSAssumption ==
    /\ IsFiniteSet(Threads)
    /\ NoThread \notin Threads
    /\ Zero \notin Threads
    /\ PAGE_SIZE \in Nat \ {0}
    /\ Sizes \subseteq Nat
    /\ Offsets \subseteq Nat
    /\ ReadLengths \subseteq Nat \ {0}
    /\ WriteLengths \subseteq Nat \ {0}
    /\ Creators \subseteq Threads
    /\ Cloners \subseteq Threads
    /\ Strangers \subseteq Threads
    /\ CALL_LIMIT \in Nat
    /\ MAX_THREADS \in Nat
    /\ MAX_THREADS > 2 * CALL_LIMIT * Cardinality(Threads)
    /\ Apart \subseteq {"tables", "pages"}

VARIABLES
    firstCall, maxIndex,    \* the static variables of those names
    ttpArray,               \* per entry, its tid and a storage (0: NULL)
    tls,                    \* the storages malloc() gave
    pages,                  \* the struct pages and the memory they lead to
    pc,
    call,                   \* the arguments and local variables of t's call
    buffer,                 \* what tls_read has put into its buffer
    calls,                  \* calls made so far
    crashed,                \* the thread whose fault ended the process
    leftOpen                \* the pages that a refused call has left open

tlsVars == <<firstCall, maxIndex, ttpArray, tls, pages, pc, call, buffer,
             calls, crashed, leftOpen>>

Slots    == 0..(MAX_THREADS - 1)
emptyTLS == [tid |-> NoThread, tls |-> 0]
NoCall   == [op |-> "none", size |-> 0, offset |-> 0, length |-> 0,
             of |-> NoThread, look |-> "self", index |-> 0, other |-> 0,
             numOfPages |-> 0, pageNum |-> 0, done |-> 0, old |-> 0, loaded |-> 0]
FreshTLS == [page_num |-> 0, mutex |-> NoThread, pages |-> <<>>]
NewPage(prot) ==
    [ref_count |-> 1, prot |-> prot, data |-> [b \in 0..(PAGE_SIZE - 1) |-> Zero]]

roundUp(size) == (size + PAGE_SIZE - 1) \div PAGE_SIZE

Own(t)   == ttpArray[call[t].index].tls
Other(t) == ttpArray[call[t].other].tls

(* The page the call is at, and how far it has come. *)
Page(t)      == tls[Own(t)].pages[call[t].pageNum]
At(t)        == call[t].offset + call[t].done
Remaining(t) == call[t].length - call[t].done

Init ==
    /\ firstCall = TRUE
    /\ maxIndex = 0
    /\ ttpArray = [i \in Slots |-> emptyTLS]
    /\ tls = <<>>
    /\ pages = <<>>
    /\ pc = [t \in Threads |-> "idle"]
    /\ call = [t \in Threads |-> NoCall]
    /\ buffer = [t \in Threads |-> <<>>]
    /\ calls = [t \in Threads |-> 0]
    /\ crashed = NoThread
    /\ leftOpen = {}

Goto(t, stage)      == pc' = [pc EXCEPT ![t] = stage]
Moves(t, from, to)  == pc[t] = from /\ Goto(t, to)
Crash(t)            == crashed' = t
----------------------------------------------------------------------------
(* A fault.  sfHandle goes through the entries below maxIndex; it exits    *)
(* the thread at the first page that matches, follows NULL at the first    *)
(* entry without a storage, or with pages not there yet, and else lets the *)
(* fault take its default action.                                          *)

Reaches(i, p) == \E n \in DOMAIN tls[ttpArray[i].tls].pages : tls[ttpArray[i].tls].pages[n] = p
Complete(i)   == Len(tls[ttpArray[i].tls].pages) = tls[ttpArray[i].tls].page_num

sfHandle(t, p) ==
    IF \E i \in 0..(maxIndex - 1) :
        /\ ttpArray[i].tls # 0 /\ Reaches(i, p)
        /\ \A j \in 0..(i - 1) : ttpArray[j].tls # 0 /\ Complete(j)
    THEN Goto(t, "exited") /\ UNCHANGED crashed
    ELSE Crash(t) /\ UNCHANGED pc

(* A step follows a pointer that another thread has cleared, or not set. *)
Dangling(t) ==
    \/ /\ pc[t] \in {"fields", "lock", "newPages", "lockOther", "share", "unlock"}
       /\ Own(t) = 0
    \/ /\ pc[t] \in {"open", "refTest", "loadCount", "install", "copyOld", "copy", "close"}
       /\ Own(t) = 0 \/ call[t].pageNum \notin DOMAIN tls[Own(t)].pages
    \/ /\ pc[t] \in {"lockOther", "unlockOther"}
       /\ Other(t) = 0
    \/ /\ pc[t] = "share"
       /\ Other(t) = 0 \/ call[t].pageNum \notin DOMAIN tls[Other(t)].pages

NullDeref(t) ==
    /\ Dangling(t)
    /\ Crash(t)
    /\ UNCHANGED <<firstCall, maxIndex, ttpArray, tls, pages, pc, call, buffer, leftOpen>>
----------------------------------------------------------------------------
(* The calls, and who may make one.  The library asks nothing of its       *)
(* callers.  multiCloneTest.c makes every call under its mutex m1, and     *)
(* Apart asks less than that: calls that change the table are made one at  *)
(* a time; no two calls use the same page, the shared one included that a  *)
(* write is just replacing.  testTLS.c does not keep to it: the thread of  *)
(* illegalMemAccess calls tls_write and tls_read (239, 243) without m1.    *)

Slot(t)       == {i \in Slots : ttpArray[i].tid = t}
HasStorage(t) == \E i \in Slot(t) : ttpArray[i].tls # 0
PagesOf(t)    ==
    UNION {{tls[ttpArray[i].tls].pages[n] : n \in DOMAIN tls[ttpArray[i].tls].pages} :
            i \in {j \in Slot(t) : ttpArray[j].tls # 0}}
Uses(t, of)   == PagesOf(t) \cup PagesOf(of) \cup ({call[t].old} \ {0})
InCall(t)     == pc[t] \notin {"idle", "exited"}
SetsUp(t, op) == op \in {"create", "clone"} \/ ~HasStorage(t)

MayCall(t, op, of) ==
    \A u \in Threads \ {t} : InCall(u) =>
        /\ "tables" \in Apart => ~ (SetsUp(t, op) /\ SetsUp(u, call[u].op))
        /\ "pages" \in Apart => Uses(t, of) \cap Uses(u, call[u].of) = {}

Begin(t, op, size, offset, length, of) ==
    /\ crashed = NoThread
    /\ pc[t] = "idle"
    /\ calls[t] < CALL_LIMIT
    /\ MayCall(t, op, of)
    /\ calls' = [calls EXCEPT ![t] = @ + 1]
    /\ call' = [call EXCEPT ![t] = [NoCall EXCEPT !.op = op, !.size = size,
                    !.offset = offset, !.length = length,
                    !.pageNum = offset \div PAGE_SIZE + 1, !.of = of]]
    /\ Goto(t, "firstCall")
    /\ UNCHANGED <<firstCall, maxIndex, ttpArray, tls, pages, buffer, crashed, leftOpen>>

tls_create(t) == t \in Creators /\ \E size \in Sizes : Begin(t, "create", size, 0, 0, NoThread)
tls_read(t)   == \E o \in Offsets, n \in ReadLengths : Begin(t, "read", 0, o, n, NoThread)
tls_write(t)  == \E o \in Offsets, n \in WriteLengths : Begin(t, "write", 0, o, n, NoThread)
tls_clone(t)  == t \in Cloners /\ \E u \in Threads : Begin(t, "clone", 0, 0, 0, u)

(* The body of tls_destroy is commented out. *)
tls_destroy(t) ==
    /\ crashed = NoThread
    /\ pc[t] = "idle"
    /\ calls[t] < CALL_LIMIT
    /\ calls' = [calls EXCEPT ![t] = @ + 1]
    /\ UNCHANGED <<firstCall, maxIndex, ttpArray, tls, pages, pc, call, buffer, crashed, leftOpen>>

Return(t) ==
    /\ Moves(t, "return", "idle")
    /\ call' = [call EXCEPT ![t] = NoCall]
    /\ buffer' = [buffer EXCEPT ![t] = <<>>]
    /\ UNCHANGED <<firstCall, maxIndex, ttpArray, tls, pages, crashed>>
----------------------------------------------------------------------------
(* findIndex(look): the first call empties entry 0; a thread that is not   *)
(* in the table takes the entry at maxIndex, and the one behind it is      *)
(* emptied.  tls_clone looks itself up, then the thread it clones.         *)

FirstCall(t) ==
    /\ pc[t] = "firstCall"
    /\ IF firstCall
       THEN ttpArray' = [ttpArray EXCEPT ![0] = emptyTLS] /\ Goto(t, "initDone")
       ELSE Goto(t, "scan") /\ UNCHANGED ttpArray
    /\ UNCHANGED <<firstCall, maxIndex, tls, pages, call, buffer, crashed>>

InitDone(t) ==
    /\ Moves(t, "initDone", "scan")
    /\ firstCall' = FALSE
    /\ UNCHANGED <<maxIndex, ttpArray, tls, pages, call, buffer, crashed>>

Sought(t)       == IF call[t].look = "self" THEN t ELSE call[t].of
KeepIndex(c, i) == IF c.look = "self" THEN [c EXCEPT !.index = i] ELSE [c EXCEPT !.other = i]

EndLookUp(t, c) ==
    IF c.op = "clone" /\ c.look = "self"
    THEN call' = [call EXCEPT ![t] = [c EXCEPT !.look = "of"]] /\ Goto(t, "firstCall")
    ELSE call' = [call EXCEPT ![t] = c] /\ Goto(t, "check")

Scan(t) ==
    /\ pc[t] = "scan"
    /\ IF \E i \in Slots : ttpArray[i].tid = Sought(t)
       THEN \E i \in Slots :
                /\ ttpArray[i].tid = Sought(t)
                /\ \A j \in 0..(i - 1) : ttpArray[j].tid # Sought(t)
                /\ EndLookUp(t, KeepIndex(call[t], i))
       ELSE call' = [call EXCEPT ![t] = KeepIndex(@, maxIndex)] /\ Goto(t, "loadMax")
    /\ UNCHANGED <<firstCall, maxIndex, ttpArray, tls, pages, buffer, crashed>>

LoadMax(t) ==
    /\ Moves(t, "loadMax", "takeEntry")
    /\ call' = [call EXCEPT ![t].loaded = maxIndex]
    /\ UNCHANGED <<firstCall, maxIndex, ttpArray, tls, pages, buffer, crashed>>

TakeEntry(t) ==
    /\ Moves(t, "takeEntry", "clearNext")
    /\ maxIndex' = call[t].loaded + 1
    /\ UNCHANGED <<firstCall, ttpArray, tls, pages, call, buffer, crashed>>

ClearNext(t) ==
    /\ pc[t] = "clearNext"
    /\ ttpArray' = [ttpArray EXCEPT ![maxIndex] = emptyTLS]
    /\ EndLookUp(t, call[t])
    /\ UNCHANGED <<firstCall, maxIndex, tls, pages, buffer, crashed>>
----------------------------------------------------------------------------
(* What each call refuses with -1, the entry it took notwithstanding.  The *)
(* offset is not looked at.                                                *)

Refused(t) ==
    CASE call[t].op = "create" -> call[t].size = 0 \/ Own(t) # 0
      [] call[t].op = "clone"  -> Own(t) # 0 \/ Other(t) = 0
      [] OTHER -> Own(t) = 0 \/ call[t].length > tls[Own(t)].page_num * PAGE_SIZE

NumOfPages(t) ==
    CASE call[t].op = "create" -> roundUp(call[t].size)
      [] call[t].op = "clone"  -> tls[Other(t)].page_num
      [] OTHER -> tls[Own(t)].page_num

Check(t) ==
    /\ pc[t] = "check"
    /\ IF Refused(t)
       THEN Goto(t, "return") /\ UNCHANGED call
       ELSE /\ call' = [call EXCEPT ![t].numOfPages = NumOfPages(t)]
            /\ Goto(t, IF call[t].op \in {"create", "clone"} THEN "setTid" ELSE "lock")
    /\ UNCHANGED <<firstCall, maxIndex, ttpArray, tls, pages, buffer, crashed>>

(* tls_create and tls_clone enter the new storage into the table, and then *)
(* fill it in.                                                             *)
SetTid(t) ==
    /\ Moves(t, "setTid", "publish")
    /\ ttpArray' = [ttpArray EXCEPT ![call[t].index].tid = t]
    /\ UNCHANGED <<firstCall, maxIndex, tls, pages, call, buffer, crashed>>

Publish(t) ==
    /\ Moves(t, "publish", "fields")
    /\ tls' = Append(tls, FreshTLS)
    /\ ttpArray' = [ttpArray EXCEPT ![call[t].index].tls = Len(tls) + 1]
    /\ UNCHANGED <<firstCall, maxIndex, pages, call, buffer, crashed>>

Fields(t) ==
    /\ Moves(t, "fields", "lock")
    /\ tls' = [tls EXCEPT ![Own(t)].page_num = call[t].numOfPages,
                          ![Own(t)].mutex = NoThread]
    /\ UNCHANGED <<firstCall, maxIndex, ttpArray, pages, call, buffer, crashed>>

(* Every call but tls_clone's locks the storage of its own thread only. *)
Lock(t) ==
    /\ pc[t] = "lock"
    /\ tls[Own(t)].mutex = NoThread
    /\ tls' = [tls EXCEPT ![Own(t)].mutex = t]
    /\ Goto(t, CASE call[t].op = "create" -> "newPages"
                 [] call[t].op = "clone"  -> "lockOther"
                 [] call[t].op = "read"   -> "open"
                 [] call[t].op = "write"  -> "refTest")
    /\ UNCHANGED <<firstCall, maxIndex, ttpArray, pages, call, buffer, crashed>>

(* A slip: the count starts at zero. *)
FromZero(n) == [i \in 1..n |-> Len(pages) + i - 1]
NewIds(n) == [i \in 1..n |-> Len(pages) + i]

NewPages(t) ==
    /\ Moves(t, "newPages", "unlock")
    /\ LET n == call[t].numOfPages
       IN  /\ pages' = pages \o [i \in 1..n |-> NewPage("none")]
           /\ tls' = [tls EXCEPT ![Own(t)].pages = NewIds(n)]
    /\ UNCHANGED <<firstCall, maxIndex, ttpArray, call, buffer, crashed>>

LockOther(t) ==
    /\ Moves(t, "lockOther", IF call[t].numOfPages = 0 THEN "unlock" ELSE "share")
    /\ tls[Other(t)].mutex = NoThread
    /\ tls' = [tls EXCEPT ![Other(t)].mutex = t, ![Own(t)].pages = <<>>]
    /\ UNCHANGED <<firstCall, maxIndex, ttpArray, pages, call, buffer, crashed>>

(* The next page of the clone is the cloned thread's. *)
Share(t) ==
    /\ Moves(t, "share", "count")
    /\ LET p == tls[Other(t)].pages[call[t].pageNum]
       IN  /\ tls' = [tls EXCEPT ![Own(t)].pages = Append(@, p)]
           /\ call' = [call EXCEPT ![t].old = p, ![t].loaded = pages[p].ref_count]
    /\ UNCHANGED <<firstCall, maxIndex, ttpArray, pages, buffer, crashed>>

(* A slip: the pointer is copied, the reference not counted. *)
Uncounted(t) == pages
Counted(t) == [pages EXCEPT ![call[t].old].ref_count = call[t].loaded + 1]

Count(t) ==
    /\ pc[t] = "count"
    /\ pages' = Counted(t)
    /\ IF call[t].pageNum = call[t].numOfPages
       THEN Goto(t, "unlock") /\ UNCHANGED call
       ELSE Goto(t, "share") /\ call' = [call EXCEPT ![t].pageNum = @ + 1]
    /\ UNCHANGED <<firstCall, maxIndex, ttpArray, tls, buffer, crashed>>

Unlock(t) ==
    /\ Moves(t, "unlock", IF call[t].op = "clone" THEN "unlockOther" ELSE "return")
    /\ tls' = [tls EXCEPT ![Own(t)].mutex = NoThread]
    /\ UNCHANGED <<firstCall, maxIndex, ttpArray, pages, call, buffer, crashed>>

UnlockOther(t) ==
    /\ Moves(t, "unlockOther", "return")
    /\ tls' = [tls EXCEPT ![Other(t)].mutex = NoThread]
    /\ UNCHANGED <<firstCall, maxIndex, ttpArray, pages, call, buffer, crashed>>
----------------------------------------------------------------------------
(* tls_read, tls_write and their loops over a page boundary: a page is     *)
(* opened, its part of the bytes is copied, it is closed, and the next one *)
(* is opened.                                                              *)

Open(t) ==
    /\ Moves(t, "open", "copy")
    /\ pages' = [pages EXCEPT ![Page(t)].prot = IF call[t].op = "read" THEN "read" ELSE "write"]
    /\ UNCHANGED <<firstCall, maxIndex, ttpArray, tls, call, buffer, crashed>>

(* A slip: the storages besides the own are counted. *)
SharedByThree(t) == pages[Page(t)].ref_count > 2
SharedPage(t) == pages[Page(t)].ref_count > 1

(* A write first makes itself a page of its own of one that is shared. *)
RefTest(t) ==
    /\ Moves(t, "refTest", IF SharedPage(t) THEN "loadCount" ELSE "open")
    /\ UNCHANGED <<firstCall, maxIndex, ttpArray, tls, pages, call, buffer, crashed>>

LoadCount(t) ==
    /\ Moves(t, "loadCount", "decrement")
    /\ pages' = [pages EXCEPT ![Page(t)].prot = IF call[t].done > 0 THEN "write" ELSE @]
    /\ call' = [call EXCEPT ![t].old = Page(t), ![t].loaded = pages[Page(t)].ref_count]
    /\ UNCHANGED <<firstCall, maxIndex, ttpArray, tls, buffer, crashed>>

Decrement(t) ==
    /\ Moves(t, "decrement", "install")
    /\ pages' = [pages EXCEPT ![call[t].old].ref_count = call[t].loaded - 1]
    /\ UNCHANGED <<firstCall, maxIndex, ttpArray, tls, call, buffer, crashed>>

Install(t) ==
    /\ Moves(t, "install", "openOld")
    /\ pages' = Append(pages, NewPage("write"))
    /\ tls' = [tls EXCEPT ![Own(t)].pages[call[t].pageNum] = Len(pages) + 1]
    /\ UNCHANGED <<firstCall, maxIndex, ttpArray, call, buffer, crashed>>

OpenOld(t) ==
    /\ Moves(t, "openOld", "copyOld")
    /\ pages' = [pages EXCEPT ![call[t].old].prot = "write"]
    /\ UNCHANGED <<firstCall, maxIndex, ttpArray, tls, call, buffer, crashed>>

CopyOld(t) ==
    /\ pc[t] = "copyOld"
    /\ IF pages[call[t].old].prot = "none"
       THEN sfHandle(t, call[t].old) /\ UNCHANGED pages
       ELSE /\ pages' = [pages EXCEPT ![Page(t)].data = pages[call[t].old].data]
            /\ Goto(t, "closeOld")
            /\ UNCHANGED crashed
    /\ UNCHANGED <<firstCall, maxIndex, ttpArray, tls, call, buffer>>

(* A slip: the new page is closed in its place. *)
NewClosed(t) == [pages EXCEPT ![Page(t)].prot = "none"]
OldClosed(t) == [pages EXCEPT ![call[t].old].prot = "none"]

CloseOld(t) ==
    /\ Moves(t, "closeOld", "copy")
    /\ pages' = OldClosed(t)
    /\ UNCHANGED <<firstCall, maxIndex, ttpArray, tls, call, buffer, crashed>>

(* Before the first byte the bytes are counted through the pages.  Where   *)
(* they end behind the last one the call fails, and leaves its page open.  *)
Beyond(t) ==
    /\ call[t].done = 0
    /\ call[t].offset + call[t].length > call[t].numOfPages * PAGE_SIZE

(* A slip: the mutex stays locked. *)
StillLocked == "return"
AfterRefusal == "unlock"

Refuse(t) ==
    /\ Moves(t, "copy", AfterRefusal)
    /\ Beyond(t)
    /\ UNCHANGED <<firstCall, maxIndex, ttpArray, tls, pages, call, buffer, crashed>>

(* A slip: the first page is read from its start. *)
BytesFromStart(p, from, n) == [i \in 1..n |-> pages[p].data[i - 1]]
BytesAt(p, from, n) == [i \in 1..n |-> pages[p].data[from + i - 1]]

Allows(prot, op) == prot = "write" \/ (op = "read" /\ prot = "read")

Copy(t) ==
    LET p     == Page(t)
        from  == At(t) % PAGE_SIZE
        n     == IF Remaining(t) < PAGE_SIZE - from THEN Remaining(t) ELSE PAGE_SIZE - from
        bytes == from..(from + n - 1)
    IN  /\ pc[t] = "copy"
        /\ ~ Beyond(t)
        /\ IF ~ Allows(pages[p].prot, call[t].op)
           THEN sfHandle(t, p) /\ UNCHANGED <<pages, buffer, call>>
           ELSE /\ IF call[t].op = "read"
                   THEN /\ buffer' = [buffer EXCEPT ![t] = @ \o BytesAt(p, from, n)]
                        /\ UNCHANGED pages
                   ELSE /\ pages' = [pages EXCEPT ![p].data =
                                        [b \in DOMAIN @ |-> IF b \in bytes THEN t ELSE @[b]]]
                        /\ UNCHANGED buffer
                /\ call' = [call EXCEPT ![t].done = @ + n]
                /\ Goto(t, "close")
                /\ UNCHANGED crashed
        /\ UNCHANGED <<firstCall, maxIndex, ttpArray, tls>>

(* A slip: a page that the bytes leave stays open. *)
LastClosed(t) ==
    IF Remaining(t) = 0 THEN [pages EXCEPT ![Page(t)].prot = "none"] ELSE pages
PageClosed(t) == [pages EXCEPT ![Page(t)].prot = "none"]

Close(t) ==
    /\ pc[t] = "close"
    /\ pages' = PageClosed(t)
    /\ IF Remaining(t) = 0
       THEN Goto(t, "unlock") /\ UNCHANGED call
       ELSE /\ call' = [call EXCEPT ![t].pageNum = @ + 1]
            /\ Goto(t, IF call[t].op = "read" THEN "open" ELSE "refTest")
    /\ UNCHANGED <<firstCall, maxIndex, ttpArray, tls, buffer, crashed>>
----------------------------------------------------------------------------
(* A thread writes to a page that is not its own, at an address it found   *)
(* in the table, whatever the others are doing (illegalMemAccess in        *)
(* testTLS.c).                                                             *)
Stray(t) ==
    /\ crashed = NoThread
    /\ t \in Strangers
    /\ pc[t] = "idle"
    /\ calls[t] < CALL_LIMIT
    /\ \E p \in UNION {PagesOf(u) : u \in Threads} \ PagesOf(t) :
        IF pages[p].prot = "write"
        THEN pages' = [pages EXCEPT ![p].data[0] = t] /\ UNCHANGED <<pc, crashed>>
        ELSE sfHandle(t, p) /\ UNCHANGED pages
    /\ calls' = [calls EXCEPT ![t] = @ + 1]
    /\ UNCHANGED <<firstCall, maxIndex, ttpArray, tls, call, buffer, leftOpen>>

Proceed(t) ==
    /\ ~ Dangling(t)
    /\ \/ FirstCall(t) \/ InitDone(t) \/ Scan(t) \/ LoadMax(t) \/ TakeEntry(t) \/ ClearNext(t)
       \/ Check(t) \/ Return(t)
       \/ SetTid(t) \/ Publish(t) \/ Fields(t) \/ NewPages(t)
       \/ Lock(t) \/ LockOther(t) \/ Share(t) \/ Count(t) \/ Unlock(t) \/ UnlockOther(t)
       \/ Open(t) \/ RefTest(t) \/ LoadCount(t) \/ Decrement(t) \/ Install(t)
       \/ OpenOld(t) \/ CopyOld(t) \/ CloseOld(t)
       \/ Refuse(t) \/ Copy(t) \/ Close(t)
    /\ leftOpen' = {p \in leftOpen \cup (IF pc[t] = "copy" /\ Beyond(t) THEN {Page(t)} ELSE {}) :
                        pages'[p].prot # "none"}

Step(t) ==
    /\ crashed = NoThread
    /\ NullDeref(t) \/ Proceed(t)
    /\ UNCHANGED calls

(* The bound is reached, or nothing is left to run. *)
Finished ==
    /\ crashed # NoThread
       \/ \A t \in Threads : pc[t] = "exited" \/ (pc[t] = "idle" /\ calls[t] = CALL_LIMIT)
    /\ UNCHANGED tlsVars

Next ==
    \/ \E t \in Threads :
        \/ tls_create(t) \/ tls_read(t) \/ tls_write(t) \/ tls_clone(t) \/ tls_destroy(t)
        \/ Step(t)
        \/ Stray(t)
    \/ Finished

Spec == Init /\ [][Next]_tlsVars

(* The threads are the operating system's, and each is given the processor *)
(* again and again; that a thread makes a call is up to the program.       *)
FairSpec == Spec /\ \A t \in Threads : WF_tlsVars(Step(t))
----------------------------------------------------------------------------
Stages ==
    {"idle", "exited", "firstCall", "initDone", "scan", "loadMax", "takeEntry", "clearNext",
     "check", "return", "setTid", "publish", "fields", "newPages", "lock",
     "lockOther", "share", "count", "unlock", "unlockOther", "open", "refTest",
     "loadCount", "decrement", "install", "openOld", "copyOld", "closeOld", "copy", "close"}

Byte == Threads \cup {Zero}

TTypeOK ==
    /\ firstCall \in BOOLEAN
    /\ maxIndex \in Slots
    /\ ttpArray \in [Slots -> [tid : Threads \cup {NoThread}, tls : 0..Len(tls)]]
    /\ \A s \in DOMAIN tls :
        /\ tls[s].page_num \in Nat
        /\ tls[s].mutex \in Threads \cup {NoThread}
        /\ tls[s].pages \in Seq(DOMAIN pages)
    /\ \A p \in DOMAIN pages :
        /\ pages[p].ref_count \in Int
        /\ pages[p].prot \in {"none", "read", "write"}
        /\ pages[p].data \in [0..(PAGE_SIZE - 1) -> Byte]
    /\ pc \in [Threads -> Stages]
    /\ buffer \in [Threads -> Seq(Byte)]
    /\ calls \in [Threads -> 0..CALL_LIMIT]
    /\ crashed \in Threads \cup {NoThread}
    /\ leftOpen \subseteq DOMAIN pages

(* A page's ref_count is the number of storages it is in, less one for a   *)
(* clone that is still counting itself, and one for a write that has       *)
(* counted itself out and is about to replace it.  One too few, and a      *)
(* write would not make the copy that keeps it from the clones (lines      *)
(* 491-503, 589-591).                                                      *)
Holders(p)  == {s \in DOMAIN tls : \E n \in DOMAIN tls[s].pages : tls[s].pages[n] = p}
Arriving(p) == {t \in Threads : pc[t] = "count" /\ call[t].old = p}
Leaving(p)  == {t \in Threads : pc[t] = "install" /\ call[t].old = p}

RefCountExact ==
    \A p \in DOMAIN pages :
        pages[p].ref_count =
            Cardinality(Holders(p)) - Cardinality(Arriving(p)) - Cardinality(Leaving(p))

(* The storage of t as the README means it.  A write counts as done from   *)
(* its first byte, and a page that is being copied as what it will hold.   *)
Usable(t) == {i \in Slot(t) : ttpArray[i].tls # 0 /\ Complete(i)
                                /\ tls[ttpArray[i].tls].page_num > 0}

Memory(t) ==
    LET usable  == Usable(t)
        own     == tls[ttpArray[CHOOSE i \in usable : TRUE].tls].pages
        copying == pc[t] \in {"openOld", "copyOld"}
        data    == [n \in DOMAIN own |->
                        pages[IF copying /\ call[t].pageNum = n THEN call[t].old ELSE own[n]].data]
        written == IF call[t].op = "write" /\ call[t].done > 0
                   THEN call[t].offset..(call[t].offset + call[t].length - 1) ELSE {}
    IN  IF usable = {} THEN [b \in {} |-> Zero]
        ELSE [b \in 0..(Len(own) * PAGE_SIZE - 1) |->
                IF b \in written THEN t ELSE data[b \div PAGE_SIZE + 1][b % PAGE_SIZE]]

Abstract == INSTANCE AbstractTLS WITH
    memory     <- [t \in Threads |-> Memory(t)],
    PAGE_LIMIT <- CHOOSE n \in {roundUp(s) : s \in Sizes} :
                    \A s \in Sizes : roundUp(s) <= n

(* Each thread's storage changes by its own calls alone, each of which     *)
(* takes effect once or, refused, not at all; a clone begins as an exact   *)
(* copy (README, "Create, Clone, Destroy" and "Read and Write").           *)
ImplementsTLS == Abstract!Spec

(* What tls_read puts into the buffer is the caller's storage (lines       *)
(* 449-464, 293-320).                                                      *)
ReadsOwn ==
    \A t \in Threads :
        \A i \in DOMAIN buffer[t] : buffer[t][i] = Memory(t)[call[t].offset + i - 1]

(* Between calls every page is closed, but for those a refused call has    *)
(* left: what lets a thread write behind the library's back is one of      *)
(* these, or a call under way on the very page (lines 186-252, 307-322,    *)
(* 443-463, 507-543).                                                      *)
OpenedBy(t) ==
    CASE pc[t] \in {"copy", "close"}       -> {Page(t)}
      [] pc[t] \in {"decrement", "install"} -> {call[t].old}
      [] pc[t] \in {"openOld", "copyOld", "closeOld"} -> {Page(t), call[t].old}
      [] OTHER -> {}

PagesClosed ==
    \A p \in DOMAIN pages :
        pages[p].prot # "none" => p \in leftOpen \/ \E t \in Threads : p \in OpenedBy(t)

(* Strangers around or not, a call that stays within its thread's own      *)
(* storage neither exits the thread nor ends the process.  (It may leave   *)
(* it: the offset is not looked at; lines 435, 481, 74-100.)               *)
Within(t) == InCall(t) /\ call[t].pageNum <= call[t].numOfPages

OwnCallsSafe ==
    [][/\ \A t \in Threads : Within(t) => pc'[t] # "exited"
       /\ crashed # crashed' => ~ Within(crashed')]_tlsVars

(* Nobody gets to write into another thread's storage behind the           *)
(* library's back: while no call is under way, a write that a thread makes *)
(* outside the library leaves the pages as they are (README, "Misreads/    *)
(* writes"; testTLS.c:255 of its own such write: "This should fail").      *)
StrayFails ==
    [][\A t \in Threads :
        Stray(t) /\ (\A u \in Threads : ~ InCall(u)) => UNCHANGED pages]_tlsVars

(* Whoever touches another's storage pays for it alone: the others         *)
(* continue (README, "Misreads/writes", on the handler of lines 74-100).   *)
OthersContinue == [][\A t \in Threads : Stray(t) => UNCHANGED crashed]_tlsVars

(* A thread that has made itself no storage gets none: its reads and       *)
(* writes are refused (testTLS.c:239, 243; lines 425, 477).                *)
RefusedBeforeCreate ==
    \A t \in Threads \ (Creators \cup Cloners) : pc[t] \notin {"lock", "open", "refTest"}

(* Every call returns: each path unlocks what it locked.                   *)
CallsReturn ==
    \A t \in Threads : InCall(t) ~> ~ InCall(t) \/ crashed # NoThread

=============================================================================
