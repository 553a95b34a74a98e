------------------------------ MODULE TLSProofs ------------------------------
(***************************************************************************)
(* Proofs about the table and the storages of module TLS, for every number *)
(* of threads, every size, offset and length, and whatever calls are made  *)
(* at the same time: Apart is left open.                                   *)
(***************************************************************************)
EXTENDS TLS, FiniteSetTheorems, TLAPS

Searching == {"firstCall", "initDone", "scan", "loadMax", "takeEntry"}
Settled   == {"idle", "exited"}

Calls ==
    [op : {"none", "create", "read", "write", "clone"}, size : Nat,
     offset : Nat, length : Nat, of : Threads \cup {NoThread},
     look : {"self", "of"}, index : Slots, other : Slots,
     numOfPages : Nat, pageNum : Nat, done : Nat, old : Nat, loaded : Int]

(* Types, but for the sign of a ref_count; whatever leads to a storage or a *)
(* page leads to one that is there.                                        *)
Entries  == [tid : Threads \cup {NoThread}, tls : Nat]
Storages == [page_num : Nat, mutex : Threads \cup {NoThread}, pages : Seq(Nat)]
PageSet  == [ref_count : Int, prot : {"none", "read", "write"},
             data : [0..(PAGE_SIZE - 1) -> Byte]]

TableTypes ==
    /\ firstCall \in BOOLEAN
    /\ maxIndex \in Slots
    /\ ttpArray \in [Slots -> Entries]

CallTypes ==
    /\ pc \in [Threads -> Stages]
    /\ call \in [Threads -> Calls]
    /\ calls \in [Threads -> 0..CALL_LIMIT]
    /\ crashed \in Threads \cup {NoThread}

BufferTypes == buffer \in [Threads -> Seq(Byte)]

StorageTypes == tls \in Seq(Storages)
PageTypes    == pages \in Seq(PageSet)

(* Where call[t].old is the page whose count is changed, or was. *)
Replacing == {"count", "decrement", "install", "openOld", "copyOld", "closeOld"}

Leads ==
    /\ \A i \in Slots : ttpArray[i].tls <= Len(tls)
    /\ \A s \in DOMAIN tls : \A n \in DOMAIN tls[s].pages : tls[s].pages[n] \in DOMAIN pages
    /\ \A t \in Threads :
        /\ call[t].old <= Len(pages)
        /\ pc[t] \in Replacing => call[t].old > 0

StateInv ==
    TableTypes /\ CallTypes /\ BufferTypes /\ StorageTypes /\ PageTypes /\ Leads

(* What the stage of a call says of its arguments. *)
StageOK(t) ==
    /\ call[t].done <= call[t].length
    /\ call[t].look = "of" => call[t].op = "clone"
    /\ call[t].op = "clone" => call[t].of \in Threads
    /\ pc[t] \notin Settled => call[t].op # "none" /\ calls[t] > 0
    /\ pc[t] = "idle" => call[t] = NoCall
    /\ pc[t] \in {"setTid", "publish", "fields"} => call[t].op \in {"create", "clone"}
    /\ pc[t] = "newPages" => call[t].op = "create"
    /\ pc[t] \in {"lockOther", "share", "count", "unlockOther"} => call[t].op = "clone"
    /\ pc[t] \in {"open", "copy", "close"} => call[t].op \in {"read", "write"}
    /\ pc[t] \in {"refTest", "loadCount", "decrement", "install", "openOld", "copyOld", "closeOld"}
        => call[t].op = "write"

StageInv == \A t \in Threads : StageOK(t)

(* A store to maxIndex is paid for with a look-up, of which each call has  *)
(* at most two.  What another thread loaded before may be stored after it, *)
(* so that maxIndex can lag behind the stores, and go back.                *)
Tokens == Threads \X ((1..CALL_LIMIT) \X {"self", "of"})

Spent(t, n, look) ==
    \/ n < calls[t]
    \/ n = calls[t] /\ pc[t] \in Settled
    \/ n = calls[t] /\ look = "self" /\ (call[t].look = "of" \/ pc[t] \notin Searching)
    \/ n = calls[t] /\ look = "of" /\ call[t].look = "of" /\ pc[t] \notin Searching

EntriesInv ==
    \E taken \in SUBSET Tokens :
        /\ maxIndex <= Cardinality(taken)
        /\ \A t \in Threads : pc[t] = "takeEntry" =>
            0 <= call[t].loaded /\ call[t].loaded <= Cardinality(taken)
        /\ \A t \in Threads, n \in 1..CALL_LIMIT, look \in {"self", "of"} :
            <<t, <<n, look>>>> \in taken => Spent(t, n, look)

----------------------------------------------------------------------------
(* Which action changes what.                                              *)

LEMMA PcOfOthers ==
    ASSUME NEW t \in Threads, CallTypes, Proceed(t)
    PROVE  \A u \in Threads \ {t} : pc'[u] = pc[u]
<1>1. \A stage : Goto(t, stage) => \A u \in Threads \ {t} : pc'[u] = pc[u]
  BY DEF Goto, CallTypes
<1>2. \A from, to : Moves(t, from, to) => \A u \in Threads \ {t} : pc'[u] = pc[u]
  BY <1>1, Zenon DEF Moves
<1>3. \A p : sfHandle(t, p) => \A u \in Threads \ {t} : pc'[u] = pc[u]
  BY <1>1, Zenon DEF sfHandle
<1>4. \A c : EndLookUp(t, c) => \A u \in Threads \ {t} : pc'[u] = pc[u]
  BY <1>1, Zenon DEF EndLookUp
<1>5. CASE FirstCall(t) \/ InitDone(t) \/ Scan(t) \/ LoadMax(t) \/ TakeEntry(t)
       \/ ClearNext(t) \/ Check(t) \/ Return(t)
  BY <1>1, <1>2, <1>4, <1>5, Zenon
     DEF FirstCall, InitDone, Scan, LoadMax, TakeEntry, ClearNext, Check, Return
<1>6. CASE SetTid(t) \/ Publish(t) \/ Fields(t) \/ NewPages(t)
       \/ Lock(t) \/ LockOther(t) \/ Share(t) \/ Count(t) \/ Unlock(t) \/ UnlockOther(t)
  BY <1>1, <1>2, <1>6, Zenon DEF SetTid, Publish, Fields, NewPages, Lock, LockOther, Share, Count,
     Unlock, UnlockOther
<1>7. CASE Open(t) \/ RefTest(t) \/ LoadCount(t) \/ Decrement(t) \/ Install(t) \/ OpenOld(t)
  BY <1>1, <1>2, <1>7, Zenon DEF Open, RefTest, LoadCount, Decrement, Install, OpenOld
<1>8. CASE CopyOld(t) \/ CloseOld(t) \/ Refuse(t) \/ Copy(t) \/ Close(t)
  BY <1>1, <1>2, <1>3, <1>8, Zenon DEF CopyOld, CloseOld, Refuse, Copy, Close
<1>9. QED
  BY <1>5, <1>6, <1>7, <1>8, Zenon DEF Proceed

LEMMA TableActions ==
    ASSUME NEW t \in Threads, Proceed(t)
    PROVE  \/ UNCHANGED <<firstCall, maxIndex, ttpArray>>
           \/ FirstCall(t) \/ InitDone(t) \/ TakeEntry(t) \/ ClearNext(t)
           \/ SetTid(t) \/ Publish(t)
BY Zenon DEF Proceed, Scan, LoadMax, Check, Return, Fields, NewPages, Lock, LockOther,
   Share, Count, Unlock, UnlockOther, Open, RefTest, LoadCount, Decrement, Install, OpenOld,
   CopyOld, CloseOld, Refuse, Copy, Close

LEMMA StorageActions ==
    ASSUME NEW t \in Threads, Proceed(t)
    PROVE  \/ UNCHANGED tls
           \/ Publish(t) \/ Fields(t) \/ NewPages(t) \/ Lock(t) \/ LockOther(t)
           \/ Share(t) \/ Unlock(t) \/ UnlockOther(t) \/ Install(t)
BY Zenon DEF Proceed, FirstCall, InitDone, Scan, LoadMax, TakeEntry, ClearNext, Check,
   Return, SetTid, Count, Open, RefTest, LoadCount, Decrement, OpenOld, CopyOld, CloseOld,
   Refuse, Copy, Close

LEMMA PageActions ==
    ASSUME NEW t \in Threads, Proceed(t)
    PROVE  \/ UNCHANGED pages
           \/ NewPages(t) \/ Count(t) \/ Open(t) \/ LoadCount(t) \/ Decrement(t) \/ Install(t)
           \/ OpenOld(t) \/ CopyOld(t) \/ CloseOld(t) \/ Copy(t) \/ Close(t)
BY Zenon DEF Proceed, FirstCall, InitDone, Scan, LoadMax, TakeEntry, ClearNext, Check,
   Return, SetTid, Publish, Fields, Lock, LockOther, Share, Unlock, UnlockOther,
   RefTest, Refuse

Rewrites(t) ==
    \/ Scan(t) \/ LoadMax(t) \/ ClearNext(t) \/ Check(t) \/ Return(t)
    \/ Share(t) \/ Count(t) \/ LoadCount(t) \/ Copy(t) \/ Close(t)

LEMMA CallActions ==
    ASSUME NEW t \in Threads, Proceed(t)
    PROVE  \/ UNCHANGED call
           \/ Rewrites(t)
BY Zenon DEF Rewrites, Proceed, FirstCall, InitDone, TakeEntry, SetTid, Publish, Fields,
   NewPages, Lock, LockOther, Unlock, UnlockOther, Open, RefTest, Decrement,
   Install, OpenOld, CopyOld, CloseOld, Refuse

LEMMA CallOfOthers ==
    ASSUME NEW t \in Threads, CallTypes, Proceed(t)
    PROVE  \A u \in Threads \ {t} : call'[u] = call[u]
<1>1. \A c : call' = [call EXCEPT ![t] = c] => \A u \in Threads \ {t} : call'[u] = call[u]
  BY DEF CallTypes
<1>2. \A c : EndLookUp(t, c) => \A u \in Threads \ {t} : call'[u] = call[u]
  BY <1>1, Zenon DEF EndLookUp
<1>3. CASE Scan(t) \/ ClearNext(t) \/ Return(t)
  BY <1>1, <1>2, <1>3, Zenon DEF Scan, ClearNext, Return
<1>4. CASE Check(t) \/ Close(t) \/ Count(t)
  BY <1>1, <1>4, Zenon DEF Check, Close, Count
<1>5. CASE LoadMax(t) \/ Copy(t)
  BY <1>1, <1>5, Zenon DEF LoadMax, Copy
<1>6. \A p, n : call' = [call EXCEPT ![t].old = p, ![t].loaded = n]
                => \A u \in Threads \ {t} : call'[u] = call[u]
  BY DEF CallTypes
<1>7. CASE Share(t) \/ LoadCount(t)
  BY <1>6, <1>7, Zenon DEF Share, LoadCount
<1>8. QED
  BY <1>3, <1>4, <1>5, <1>7, CallActions, Zenon DEF Rewrites
----------------------------------------------------------------------------
(* What a pointer in hand leads to. *)

LEMMA Fetched ==
    ASSUME NEW t \in Threads, TableTypes, CallTypes, Leads, StorageTypes
    PROVE  /\ call[t] \in Calls
           /\ call[t].index \in Slots /\ call[t].other \in Slots
           /\ ttpArray[call[t].index] \in Entries /\ ttpArray[call[t].other] \in Entries
           /\ Own(t) # 0 => Own(t) \in DOMAIN tls
           /\ Other(t) # 0 => Other(t) \in DOMAIN tls
<1>1. call[t] \in Calls
  BY DEF CallTypes
<1>2. call[t].index \in Slots /\ call[t].other \in Slots
  BY <1>1 DEF Calls
<1>3. \A i \in Slots : ttpArray[i] \in Entries
  BY DEF TableTypes
<1>4. \A i \in Slots : ttpArray[i].tls \in Nat /\ ttpArray[i].tls <= Len(tls)
  BY <1>3 DEF Leads, Entries
<1>5. DOMAIN tls = 1..Len(tls) /\ Len(tls) \in Nat
  BY DEF StorageTypes
<1>6. \A i \in Slots : ttpArray[i].tls # 0 => ttpArray[i].tls \in DOMAIN tls
  BY <1>4, <1>5
<1>7. QED
  BY <1>1, <1>2, <1>3, <1>6, Zenon DEF Own, Other

LEMMA PageFetched ==
    ASSUME NEW t \in Threads, StateInv, ~ Dangling(t),
           pc[t] \in {"open", "refTest", "loadCount", "install", "copyOld", "copy", "close"}
    PROVE  /\ Own(t) \in DOMAIN tls
           /\ call[t].pageNum \in DOMAIN tls[Own(t)].pages
           /\ Page(t) \in DOMAIN pages
<1>1. Own(t) # 0 /\ call[t].pageNum \in DOMAIN tls[Own(t)].pages
  BY Zenon DEF Dangling
<1>2. Own(t) \in DOMAIN tls
  BY <1>1, Fetched, Zenon DEF StateInv
<1>3. QED
  BY <1>1, <1>2, Zenon DEF StateInv, Leads, Page

LEMMA OldFetched ==
    ASSUME NEW t \in Threads, StateInv,
           pc[t] \in Replacing
    PROVE  call[t].old \in DOMAIN pages
<1>1. call[t].old \in Nat
  BY DEF StateInv, CallTypes, Calls
<1>2. call[t].old > 0 /\ call[t].old <= Len(pages)
  BY Zenon DEF StateInv, Leads
<1>3. DOMAIN pages = 1..Len(pages) /\ Len(pages) \in Nat
  BY DEF StateInv, PageTypes
<1>4. QED
  BY <1>1, <1>2, <1>3

LEMMA OwnFetched ==
    ASSUME NEW t \in Threads, StateInv, ~ Dangling(t),
           pc[t] \in {"fields", "lock", "newPages", "lockOther", "share", "unlock"}
    PROVE  Own(t) \in DOMAIN tls
<1>1. Own(t) # 0
  BY Zenon DEF Dangling
<1>2. QED
  BY <1>1, Fetched, Zenon DEF StateInv

LEMMA OtherFetched ==
    ASSUME NEW t \in Threads, StateInv, ~ Dangling(t),
           pc[t] \in {"lockOther", "unlockOther", "share"}
    PROVE  Other(t) \in DOMAIN tls
<1>1. Other(t) # 0
  BY Zenon DEF Dangling
<1>2. QED
  BY <1>1, Fetched, Zenon DEF StateInv
----------------------------------------------------------------------------
(* What the steps make of the storages. *)

(* r is s with e at k. *)
Put(S, s, k, e, r) ==
    /\ r \in Seq(S)
    /\ Len(r) = Len(s)
    /\ DOMAIN r = DOMAIN s
    /\ r[k] = e
    /\ \A j \in DOMAIN s \ {k} : r[j] = s[j]

LEMMA StorageFields ==
    ASSUME NEW e \in Storages
    PROVE  /\ e = [page_num |-> e.page_num, mutex |-> e.mutex, pages |-> e.pages]
           /\ e.page_num \in Nat /\ e.mutex \in Threads \cup {NoThread} /\ e.pages \in Seq(Nat)
BY DEF Storages

LEMMA ElementIn ==
    ASSUME NEW S, NEW s \in Seq(S), NEW k \in DOMAIN s
    PROVE  s[k] \in S
OBVIOUS

LEMMA MutexUpdate ==
    ASSUME NEW e \in Storages, NEW m \in Threads \cup {NoThread}
    PROVE  /\ [e EXCEPT !.mutex = m] =
                [page_num |-> e.page_num, mutex |-> m, pages |-> e.pages]
           /\ [page_num |-> e.page_num, mutex |-> m, pages |-> e.pages] \in Storages
<1>1. [e EXCEPT !.mutex = m] = [page_num |-> e.page_num, mutex |-> m, pages |-> e.pages]
  BY DEF Storages
<1>2. QED
  BY <1>1, StorageFields DEF Storages

LEMMA PagesUpdate ==
    ASSUME NEW e \in Storages, NEW q \in Seq(Nat)
    PROVE  /\ [e EXCEPT !.pages = q] =
                [page_num |-> e.page_num, mutex |-> e.mutex, pages |-> q]
           /\ [page_num |-> e.page_num, mutex |-> e.mutex, pages |-> q] \in Storages
<1>1. [e EXCEPT !.pages = q] = [page_num |-> e.page_num, mutex |-> e.mutex, pages |-> q]
  BY DEF Storages
<1>2. QED
  BY <1>1, StorageFields DEF Storages

LEMMA FieldsUpdate ==
    ASSUME NEW e \in Storages, NEW n \in Nat, NEW m \in Threads \cup {NoThread}
    PROVE  /\ [e EXCEPT !.page_num = n, !.mutex = m] =
                [page_num |-> n, mutex |-> m, pages |-> e.pages]
           /\ [page_num |-> n, mutex |-> m, pages |-> e.pages] \in Storages
<1>1. PICK f : f = [e EXCEPT !.page_num = n]
  OBVIOUS
<1>2. f \in Storages /\ f.page_num = n /\ f.pages = e.pages
  BY <1>1 DEF Storages
<1>3. [e EXCEPT !.page_num = n, !.mutex = m] = [f EXCEPT !.mutex = m]
  BY <1>1
<1>4. QED
  BY <1>2, <1>3, MutexUpdate

LEMMA Replaced ==
    ASSUME NEW S, NEW s \in Seq(S), NEW k \in DOMAIN s, NEW e \in S,
           NEW r, r = [s EXCEPT ![k] = e]
    PROVE  Put(S, s, k, e, r)
BY DEF Put

LEMMA MutexPut ==
    ASSUME NEW s \in Seq(Storages), NEW k \in DOMAIN s, NEW m \in Threads \cup {NoThread},
           NEW r, r = [s EXCEPT ![k].mutex = m]
    PROVE  Put(Storages, s, k, [page_num |-> s[k].page_num, mutex |-> m, pages |-> s[k].pages], r)
<1> DEFINE e == [page_num |-> s[k].page_num, mutex |-> m, pages |-> s[k].pages]
<1>1. s[k] \in Storages
  BY ElementIn, Zenon
<1>2. e \in Storages /\ [s[k] EXCEPT !.mutex = m] = e
  BY <1>1, MutexUpdate, Zenon
<1>3. r = [s EXCEPT ![k] = e]
  BY <1>2
<1>4. QED
  BY <1>2, <1>3, Replaced

LEMMA PagesPut ==
    ASSUME NEW s \in Seq(Storages), NEW k \in DOMAIN s, NEW q \in Seq(Nat),
           NEW r, r = [s EXCEPT ![k].pages = q]
    PROVE  Put(Storages, s, k, [page_num |-> s[k].page_num, mutex |-> s[k].mutex, pages |-> q], r)
<1> DEFINE e == [page_num |-> s[k].page_num, mutex |-> s[k].mutex, pages |-> q]
<1>1. s[k] \in Storages
  BY ElementIn, Zenon
<1>2. e \in Storages /\ [s[k] EXCEPT !.pages = q] = e
  BY <1>1, PagesUpdate, Zenon
<1>3. r = [s EXCEPT ![k] = e]
  BY <1>2
<1>4. QED
  BY <1>2, <1>3, Replaced

LEMMA PublishStep ==
    ASSUME NEW t \in Threads, StateInv, Publish(t)
    PROVE  /\ tls' \in Seq(Storages)
           /\ Len(tls') = Len(tls) + 1
           /\ tls'[Len(tls) + 1] = FreshTLS
           /\ \A s \in DOMAIN tls : s \in DOMAIN tls' /\ tls'[s] = tls[s]
           /\ DOMAIN tls' = DOMAIN tls \cup {Len(tls) + 1}
<1>1. FreshTLS \in Storages
  BY DEF FreshTLS, Storages
<1>2. tls' = Append(tls, FreshTLS) /\ tls \in Seq(Storages)
  BY DEF Publish, StateInv, StorageTypes
<1>3. QED
  <2> HIDE DEF Storages, FreshTLS
  <2>1. QED
    BY <1>1, <1>2

LEMMA FieldsStep ==
    ASSUME NEW t \in Threads, StateInv, ~ Dangling(t), Fields(t)
    PROVE  /\ Own(t) \in DOMAIN tls
           /\ Put(Storages, tls, Own(t), [page_num |-> call[t].numOfPages, mutex |-> NoThread,
                                pages |-> tls[Own(t)].pages], tls')
<1> DEFINE k == Own(t)
           n == call[t].numOfPages
           e == [page_num |-> n, mutex |-> NoThread, pages |-> tls[k].pages]
<1>1. k \in DOMAIN tls
  BY OwnFetched DEF Fields, Moves
<1>2. n \in Nat
  BY DEF StateInv, CallTypes, Calls
<1>3. tls[k] \in Storages /\ tls \in Seq(Storages)
  BY <1>1 DEF StateInv, StorageTypes
<1>4. tls' = [tls EXCEPT ![k].page_num = n, ![k].mutex = NoThread]
  BY DEF Fields
<1> HIDE DEF k, n
<1>5. e \in Storages /\ [tls[k] EXCEPT !.page_num = n, !.mutex = NoThread] = e
  BY <1>2, <1>3, FieldsUpdate, Zenon
<1>6. tls' = [tls EXCEPT ![k] = e]
  BY <1>1, <1>3, <1>4, <1>5
<1>7. QED
  BY <1>1, <1>3, <1>5, <1>6, Replaced DEF k, n

LEMMA LockStep ==
    ASSUME NEW t \in Threads, StateInv, ~ Dangling(t), Lock(t)
    PROVE  /\ Own(t) \in DOMAIN tls
           /\ Put(Storages, tls, Own(t), [page_num |-> tls[Own(t)].page_num, mutex |-> t,
                                pages |-> tls[Own(t)].pages], tls')
<1>1. Own(t) \in DOMAIN tls
  BY OwnFetched DEF Lock
<1>2. QED
  BY <1>1, MutexPut DEF Lock, StateInv, StorageTypes

LEMMA UnlockStep ==
    ASSUME NEW t \in Threads, StateInv, ~ Dangling(t), Unlock(t)
    PROVE  /\ Own(t) \in DOMAIN tls
           /\ Put(Storages, tls, Own(t), [page_num |-> tls[Own(t)].page_num, mutex |-> NoThread,
                                pages |-> tls[Own(t)].pages], tls')
<1>1. Own(t) \in DOMAIN tls
  BY OwnFetched DEF Unlock, Moves
<1>2. QED
  BY <1>1, MutexPut DEF Unlock, StateInv, StorageTypes

LEMMA UnlockOtherStep ==
    ASSUME NEW t \in Threads, StateInv, ~ Dangling(t), UnlockOther(t)
    PROVE  /\ Other(t) \in DOMAIN tls
           /\ Put(Storages, tls, Other(t), [page_num |-> tls[Other(t)].page_num, mutex |-> NoThread,
                                  pages |-> tls[Other(t)].pages], tls')
<1>1. Other(t) \in DOMAIN tls
  BY OtherFetched DEF UnlockOther, Moves
<1>2. QED
  BY <1>1, MutexPut DEF UnlockOther, StateInv, StorageTypes

LEMMA LockOtherStep ==
    ASSUME NEW t \in Threads, StateInv, ~ Dangling(t), LockOther(t)
    PROVE  /\ Own(t) \in DOMAIN tls /\ Other(t) \in DOMAIN tls
           /\ tls' \in Seq(Storages) /\ Len(tls') = Len(tls) /\ DOMAIN tls' = DOMAIN tls
           /\ \A s \in DOMAIN tls :
                /\ tls'[s].page_num = tls[s].page_num
                /\ tls'[s].mutex = IF s = Other(t) THEN t ELSE tls[s].mutex
                /\ tls'[s].pages = IF s = Own(t) THEN <<>> ELSE tls[s].pages
<1> DEFINE k == Own(t)
           o == Other(t)
<1>1. k \in DOMAIN tls /\ o \in DOMAIN tls
  BY OwnFetched, OtherFetched DEF LockOther, Moves
<1>2. PICK r : r = [tls EXCEPT ![o].mutex = t]
  OBVIOUS
<1>3. tls' = [tls EXCEPT ![o].mutex = t, ![k].pages = <<>>] /\ tls \in Seq(Storages)
  BY DEF LockOther, StateInv, StorageTypes
<1> HIDE DEF k, o
<1>4. Put(Storages, tls, o, [page_num |-> tls[o].page_num, mutex |-> t, pages |-> tls[o].pages], r)
  BY <1>1, <1>2, <1>3, MutexPut
<1>5. tls' = [r EXCEPT ![k].pages = <<>>]
  BY <1>2, <1>3
<1>6. Put(Storages, r, k, [page_num |-> r[k].page_num, mutex |-> r[k].mutex, pages |-> <<>>], tls')
  <2>1. r \in Seq(Storages) /\ k \in DOMAIN r /\ <<>> \in Seq(Nat)
    BY <1>1, <1>4 DEF Put
  <2>2. QED
    BY <1>5, <2>1, PagesPut, Zenon
<1>7. tls' \in Seq(Storages) /\ Len(tls') = Len(tls) /\ DOMAIN tls' = DOMAIN tls
  BY <1>4, <1>6, Zenon DEF Put
<1>8. \A s \in DOMAIN tls :
        /\ r[s].page_num = tls[s].page_num
        /\ r[s].mutex = IF s = o THEN t ELSE tls[s].mutex
        /\ r[s].pages = tls[s].pages
  BY <1>4 DEF Put
<1>9. \A s \in DOMAIN tls :
        /\ tls'[s].page_num = r[s].page_num
        /\ tls'[s].mutex = r[s].mutex
        /\ tls'[s].pages = IF s = k THEN <<>> ELSE r[s].pages
  BY <1>4, <1>6 DEF Put
<1>10. QED
  BY <1>1, <1>7, <1>8, <1>9 DEF k, o
----------------------------------------------------------------------------
(* What the steps make of the pages. *)

LEMMA PageFields ==
    ASSUME NEW e \in PageSet
    PROVE  /\ e.ref_count \in Int
           /\ e.prot \in {"none", "read", "write"}
           /\ e.data \in [0..(PAGE_SIZE - 1) -> Byte]
BY DEF PageSet

LEMMA NewPageType ==
    ASSUME NEW prot \in {"none", "read", "write"}
    PROVE  NewPage(prot) \in PageSet /\ NewPage(prot).ref_count = 1
BY DEF NewPage, PageSet, Byte

LEMMA CountUpdate ==
    ASSUME NEW e \in PageSet, NEW n \in Int
    PROVE  /\ [e EXCEPT !.ref_count = n] \in PageSet
           /\ [e EXCEPT !.ref_count = n].ref_count = n
           /\ [e EXCEPT !.ref_count = n].prot = e.prot
           /\ [e EXCEPT !.ref_count = n].data = e.data
BY DEF PageSet

LEMMA ProtUpdate ==
    ASSUME NEW e \in PageSet, NEW prot \in {"none", "read", "write"}
    PROVE  /\ [e EXCEPT !.prot = prot] \in PageSet
           /\ [e EXCEPT !.prot = prot].ref_count = e.ref_count
           /\ [e EXCEPT !.prot = prot].prot = prot
           /\ [e EXCEPT !.prot = prot].data = e.data
BY DEF PageSet

LEMMA DataUpdate ==
    ASSUME NEW e \in PageSet, NEW data \in [0..(PAGE_SIZE - 1) -> Byte]
    PROVE  /\ [e EXCEPT !.data = data] \in PageSet
           /\ [e EXCEPT !.data = data].ref_count = e.ref_count
           /\ [e EXCEPT !.data = data].prot = e.prot
           /\ [e EXCEPT !.data = data].data = data
BY DEF PageSet

(* r is s but for the protection of page k, but for its contents, but for  *)
(* its count.                                                              *)
Same(s, r) ==
    r \in Seq(PageSet) /\ Len(r) = Len(s) /\ DOMAIN r = DOMAIN s

Protects(s, k, prot, r) ==
    /\ Same(s, r)
    /\ \A p \in DOMAIN s :
        /\ r[p].ref_count = s[p].ref_count
        /\ r[p].prot = IF p = k THEN prot ELSE s[p].prot
        /\ r[p].data = s[p].data

Fills(s, k, data, r) ==
    /\ Same(s, r)
    /\ \A p \in DOMAIN s :
        /\ r[p].ref_count = s[p].ref_count
        /\ r[p].prot = s[p].prot
        /\ r[p].data = IF p = k THEN data ELSE s[p].data

Counts(s, k, n, r) ==
    /\ Same(s, r)
    /\ \A p \in DOMAIN s :
        /\ r[p].ref_count = IF p = k THEN n ELSE s[p].ref_count
        /\ r[p].prot = s[p].prot
        /\ r[p].data = s[p].data

LEMMA ProtectsPage ==
    ASSUME NEW s \in Seq(PageSet), NEW k \in DOMAIN s, NEW prot \in {"none", "read", "write"},
           NEW r, r = [s EXCEPT ![k].prot = prot]
    PROVE  Protects(s, k, prot, r)
<1> DEFINE e == [s[k] EXCEPT !.prot = prot]
<1>1. s[k] \in PageSet
  BY ElementIn, Zenon
<1>2. e \in PageSet /\ e.ref_count = s[k].ref_count /\ e.prot = prot /\ e.data = s[k].data
  BY <1>1, ProtUpdate, Zenon
<1>3. r = [s EXCEPT ![k] = e]
  OBVIOUS
<1> HIDE DEF e
<1>4. Put(PageSet, s, k, e, r)
  BY <1>2, <1>3, Replaced, Zenon
<1>5. QED
  BY <1>2, <1>4 DEF Put, Protects, Same

LEMMA FillsPage ==
    ASSUME NEW s \in Seq(PageSet), NEW k \in DOMAIN s,
           NEW data \in [0..(PAGE_SIZE - 1) -> Byte],
           NEW r, r = [s EXCEPT ![k].data = data]
    PROVE  Fills(s, k, data, r)
<1> DEFINE e == [s[k] EXCEPT !.data = data]
<1>1. s[k] \in PageSet
  BY ElementIn, Zenon
<1>2. e \in PageSet /\ e.ref_count = s[k].ref_count /\ e.prot = s[k].prot /\ e.data = data
  BY <1>1, DataUpdate, Zenon
<1>3. r = [s EXCEPT ![k] = e]
  OBVIOUS
<1> HIDE DEF e
<1>4. Put(PageSet, s, k, e, r)
  BY <1>2, <1>3, Replaced, Zenon
<1>5. QED
  BY <1>2, <1>4 DEF Put, Fills, Same

LEMMA CountsPage ==
    ASSUME NEW s \in Seq(PageSet), NEW k \in DOMAIN s, NEW n \in Int,
           NEW r, r = [s EXCEPT ![k].ref_count = n]
    PROVE  Counts(s, k, n, r)
<1> DEFINE e == [s[k] EXCEPT !.ref_count = n]
<1>1. s[k] \in PageSet
  BY ElementIn, Zenon
<1>2. e \in PageSet /\ e.ref_count = n /\ e.prot = s[k].prot /\ e.data = s[k].data
  BY <1>1, CountUpdate, Zenon
<1>3. r = [s EXCEPT ![k] = e]
  OBVIOUS
<1> HIDE DEF e
<1>4. Put(PageSet, s, k, e, r)
  BY <1>2, <1>3, Replaced, Zenon
<1>5. QED
  BY <1>2, <1>4 DEF Put, Counts, Same

LEMMA OpenStep ==
    ASSUME NEW t \in Threads, StateInv, ~ Dangling(t), Open(t)
    PROVE  /\ Page(t) \in DOMAIN pages
           /\ Protects(pages, Page(t), IF call[t].op = "read" THEN "read" ELSE "write", pages')
<1>1. Page(t) \in DOMAIN pages
  BY PageFetched DEF Open, Moves
<1>2. pages \in Seq(PageSet)
  BY DEF StateInv, PageTypes
<1>3. QED
  BY <1>1, <1>2, ProtectsPage, Zenon DEF Open

LEMMA OpenOldStep ==
    ASSUME NEW t \in Threads, StateInv, OpenOld(t)
    PROVE  /\ call[t].old \in DOMAIN pages
           /\ Protects(pages, call[t].old, "write", pages')
<1>1. call[t].old \in DOMAIN pages
  BY OldFetched DEF OpenOld, Moves, Replacing
<1>2. pages \in Seq(PageSet)
  BY DEF StateInv, PageTypes
<1>3. QED
  BY <1>1, <1>2, ProtectsPage, Zenon DEF OpenOld

LEMMA CloseOldStep ==
    ASSUME NEW t \in Threads, StateInv, CloseOld(t)
    PROVE  /\ call[t].old \in DOMAIN pages
           /\ Protects(pages, call[t].old, "none", pages')
<1>1. call[t].old \in DOMAIN pages
  BY OldFetched DEF CloseOld, Moves, Replacing
<1>2. pages \in Seq(PageSet)
  BY DEF StateInv, PageTypes
<1>3. QED
  BY <1>1, <1>2, ProtectsPage, Zenon DEF CloseOld, OldClosed

LEMMA CloseStep ==
    ASSUME NEW t \in Threads, StateInv, ~ Dangling(t), Close(t)
    PROVE  /\ Page(t) \in DOMAIN pages
           /\ Protects(pages, Page(t), "none", pages')
<1>1. Page(t) \in DOMAIN pages
  BY PageFetched DEF Close
<1>2. pages \in Seq(PageSet)
  BY DEF StateInv, PageTypes
<1>3. QED
  BY <1>1, <1>2, ProtectsPage, Zenon DEF Close, PageClosed

LEMMA CopyOldStep ==
    ASSUME NEW t \in Threads, StateInv, ~ Dangling(t), CopyOld(t)
    PROVE  /\ Page(t) \in DOMAIN pages /\ call[t].old \in DOMAIN pages
           /\ IF pages[call[t].old].prot = "none" THEN pages' = pages
              ELSE Fills(pages, Page(t), pages[call[t].old].data, pages')
<1>1. Page(t) \in DOMAIN pages /\ call[t].old \in DOMAIN pages
  BY PageFetched, OldFetched DEF CopyOld, Replacing
<1>2. pages \in Seq(PageSet)
  BY DEF StateInv, PageTypes
<1>3. pages[call[t].old].data \in [0..(PAGE_SIZE - 1) -> Byte]
  BY <1>1, <1>2, ElementIn, PageFields, Zenon
<1>4. QED
  BY <1>1, <1>2, <1>3, FillsPage, Zenon DEF CopyOld

LEMMA Divisions ==
    ASSUME NEW a \in Nat
    PROVE  /\ a % PAGE_SIZE \in 0..(PAGE_SIZE - 1)
           /\ a \div PAGE_SIZE \in Nat
<1>1. PAGE_SIZE \in Nat /\ PAGE_SIZE > 0
  BY TLSAssumption
<1>2. QED
  BY <1>1

(* The bytes that a copy moves are within the page, and within the call. *)
Portion(t) ==
    LET from == At(t) % PAGE_SIZE
    IN  IF Remaining(t) < PAGE_SIZE - from THEN Remaining(t) ELSE PAGE_SIZE - from

LEMMA PortionFits ==
    ASSUME NEW t \in Threads, CallTypes, StageOK(t)
    PROVE  /\ At(t) \in Nat /\ Remaining(t) \in Nat
           /\ Portion(t) \in Nat /\ Portion(t) <= Remaining(t)
           /\ At(t) % PAGE_SIZE \in Nat
           /\ (At(t) % PAGE_SIZE) + Portion(t) <= PAGE_SIZE
<1>1. call[t].offset \in Nat /\ call[t].length \in Nat /\ call[t].done \in Nat
  BY DEF CallTypes, Calls
<1>2. At(t) \in Nat /\ Remaining(t) \in Nat
  BY <1>1 DEF At, Remaining, StageOK
<1>3. At(t) % PAGE_SIZE \in 0..(PAGE_SIZE - 1)
  BY <1>2, Divisions
<1>4. PAGE_SIZE \in Nat
  BY TLSAssumption
<1>5. QED
  BY <1>2, <1>3, <1>4 DEF Portion

LEMMA CopyStep ==
    ASSUME NEW t \in Threads, StateInv, StageOK(t), ~ Dangling(t), Copy(t)
    PROVE  /\ Page(t) \in DOMAIN pages
           /\ IF ~ Allows(pages[Page(t)].prot, call[t].op)
              THEN sfHandle(t, Page(t)) /\ UNCHANGED <<pages, buffer, call>>
              ELSE /\ call' = [call EXCEPT ![t].done = @ + Portion(t)]
                   /\ Goto(t, "close")
                   /\ UNCHANGED crashed
                   /\ IF call[t].op = "read"
                      THEN /\ UNCHANGED pages
                           /\ \E bytes \in Seq(Byte) :
                                buffer' = [buffer EXCEPT ![t] = @ \o bytes]
                      ELSE /\ UNCHANGED buffer
                           /\ \E data \in [0..(PAGE_SIZE - 1) -> Byte] :
                                Fills(pages, Page(t), data, pages')
<1> DEFINE p == Page(t)
           from == At(t) % PAGE_SIZE
           n == Portion(t)
           data == [b \in DOMAIN pages[p].data |->
                        IF b \in from..(from + n - 1) THEN t ELSE pages[p].data[b]]
<1>1. p \in DOMAIN pages
  BY PageFetched DEF Copy
<1>2. pages \in Seq(PageSet)
  BY DEF StateInv, PageTypes
<1>3. pages[p].data \in [0..(PAGE_SIZE - 1) -> Byte]
  BY <1>1, <1>2, ElementIn, PageFields, Zenon
<1>4. data \in [0..(PAGE_SIZE - 1) -> Byte]
  BY <1>3 DEF Byte
<1>5. from \in Nat /\ n \in Nat /\ from + n <= PAGE_SIZE
  BY PortionFits DEF StateInv
<1>6. BytesAt(p, from, n) \in Seq(Byte)
  <2>1. PAGE_SIZE \in Nat
    BY TLSAssumption
  <2>2. ASSUME NEW i \in 1..n PROVE pages[p].data[from + i - 1] \in Byte
    <3>1. from + i - 1 \in 0..(PAGE_SIZE - 1)
      BY <1>5, <2>1
    <3>2. QED
      BY <1>3, <3>1
  <2> HIDE DEF p, from, n
  <2>3. QED
    BY <1>5, <2>2 DEF BytesAt
<1>7. pages' = [pages EXCEPT ![p].data = data] => Fills(pages, p, data, pages')
  BY <1>1, <1>2, <1>4, FillsPage, Zenon
<1>8. /\ IF ~ Allows(pages[p].prot, call[t].op)
         THEN sfHandle(t, p) /\ UNCHANGED <<pages, buffer, call>>
         ELSE /\ IF call[t].op = "read"
                 THEN /\ buffer' = [buffer EXCEPT ![t] = @ \o BytesAt(p, from, n)]
                      /\ UNCHANGED pages
                 ELSE /\ pages' = [pages EXCEPT ![p].data =
                                        [b \in DOMAIN @ |->
                                            IF b \in from..(from + n - 1) THEN t ELSE @[b]]]
                      /\ UNCHANGED buffer
              /\ call' = [call EXCEPT ![t].done = @ + n]
              /\ Goto(t, "close")
              /\ UNCHANGED crashed
  BY Zenon DEF Copy, Portion
<1>9. call[t].op # "read" /\ Allows(pages[p].prot, call[t].op)
        => pages' = [pages EXCEPT ![p].data = data]
  BY <1>8
<1>10. ASSUME Allows(pages[p].prot, call[t].op)
       PROVE  /\ call' = [call EXCEPT ![t].done = @ + n]
              /\ Goto(t, "close")
              /\ UNCHANGED crashed
              /\ IF call[t].op = "read"
                 THEN /\ UNCHANGED pages
                      /\ \E bytes \in Seq(Byte) :
                            buffer' = [buffer EXCEPT ![t] = @ \o bytes]
                 ELSE /\ UNCHANGED buffer
                      /\ \E d \in [0..(PAGE_SIZE - 1) -> Byte] :
                            Fills(pages, p, d, pages')
  <2> HIDE DEF p, from, n, data
  <2>1. QED
    BY <1>4, <1>6, <1>7, <1>8, <1>9, <1>10, Zenon
<1>11. QED
  <2> HIDE DEF n, data, from
  <2>1. QED
    BY <1>1, <1>8, <1>10, Zenon DEF n

LEMMA LoadCountStep ==
    ASSUME NEW t \in Threads, StateInv, ~ Dangling(t), LoadCount(t)
    PROVE  /\ Page(t) \in DOMAIN pages
           /\ Same(pages, pages')
<1> DEFINE k == Page(t)
           prot == IF call[t].done > 0 THEN "write" ELSE pages[k].prot
<1>1. k \in DOMAIN pages
  BY PageFetched DEF LoadCount, Moves
<1>2. pages \in Seq(PageSet)
  BY DEF StateInv, PageTypes
<1>3. prot \in {"none", "read", "write"}
  BY <1>1, <1>2, ElementIn, PageFields
<1>4. pages' = [pages EXCEPT ![k].prot = IF call[t].done > 0 THEN "write" ELSE @]
  BY DEF LoadCount
<1> HIDE DEF k
<1>5. pages' = [pages EXCEPT ![k].prot = prot]
  BY <1>4
<1> HIDE DEF prot
<1>6. Protects(pages, k, prot, pages')
  BY <1>1, <1>2, <1>3, <1>5, ProtectsPage, Zenon
<1>7. QED
  BY <1>1, <1>6 DEF k, Protects

LEMMA CountStep ==
    ASSUME NEW t \in Threads, StateInv, Count(t) \/ Decrement(t)
    PROVE  Same(pages, pages')
<1>1. pc[t] \in Replacing /\ \E n \in {1, -1} :
            pages' = [pages EXCEPT ![call[t].old].ref_count = call[t].loaded + n]
  <2>1. CASE Count(t)
    BY <2>1 DEF Count, Counted, Replacing
  <2>2. CASE Decrement(t)
    <3>1. call[t].loaded \in Int
      BY DEF StateInv, CallTypes, Calls
    <3>2. call[t].loaded - 1 = call[t].loaded + (-1)
      BY <3>1
    <3>3. pc[t] = "decrement"
          /\ pages' = [pages EXCEPT ![call[t].old].ref_count = call[t].loaded - 1]
      BY <2>2, Zenon DEF Decrement, Moves
    <3>4. QED
      BY <3>2, <3>3 DEF Replacing
  <2>3. QED
    BY <2>1, <2>2
<1>2. PICK n \in {1, -1} : pages' = [pages EXCEPT ![call[t].old].ref_count = call[t].loaded + n]
  BY <1>1
<1>3. PICK m \in Int : m = call[t].loaded + n
  BY DEF StateInv, CallTypes, Calls
<1>4. PICK k \in DOMAIN pages : k = call[t].old
  BY <1>1, OldFetched
<1>5. pages' = [pages EXCEPT ![k].ref_count = m]
  BY <1>2, <1>3, <1>4
<1>6. Counts(pages, k, m, pages')
  BY <1>5, CountsPage, Zenon DEF StateInv, PageTypes
<1>7. QED
  BY <1>6, Zenon DEF Counts

(* r is s with more pages behind, of which one storage has the count. *)
LEMMA Appended ==
    ASSUME NEW S, NEW s \in Seq(S), NEW r \in Seq(S)
    PROVE  /\ s \o r \in Seq(S)
           /\ Len(s \o r) = Len(s) + Len(r)
           /\ \A p \in DOMAIN s : p \in DOMAIN (s \o r) /\ (s \o r)[p] = s[p]
           /\ \A p \in DOMAIN r : Len(s) + p \in DOMAIN (s \o r) /\ (s \o r)[Len(s) + p] = r[p]
           /\ DOMAIN (s \o r) = 1..(Len(s) + Len(r))
OBVIOUS

LEMMA NewPagesStep ==
    ASSUME NEW t \in Threads, StateInv, ~ Dangling(t), NewPages(t)
    PROVE  /\ Own(t) \in DOMAIN tls
           /\ Put(Storages, tls, Own(t),
                  [page_num |-> tls[Own(t)].page_num, mutex |-> tls[Own(t)].mutex,
                   pages |-> NewIds(call[t].numOfPages)], tls')
           /\ NewIds(call[t].numOfPages) \in Seq(Nat)
           /\ DOMAIN NewIds(call[t].numOfPages) = 1..call[t].numOfPages
           /\ \A n \in 1..call[t].numOfPages : NewIds(call[t].numOfPages)[n] = Len(pages) + n
           /\ pages' \in Seq(PageSet)
           /\ Len(pages') = Len(pages) + call[t].numOfPages
           /\ DOMAIN pages' = 1..(Len(pages) + call[t].numOfPages)
           /\ \A p \in DOMAIN pages : p \in DOMAIN pages' /\ pages'[p] = pages[p]
           /\ \A n \in 1..call[t].numOfPages : pages'[Len(pages) + n] = NewPage("none")
<1> DEFINE m == call[t].numOfPages
           new == [i \in 1..m |-> NewPage("none")]
<1>1. Own(t) \in DOMAIN tls
  BY OwnFetched DEF NewPages, Moves
<1>2. m \in Nat
  BY DEF StateInv, CallTypes, Calls
<1>3. pages \in Seq(PageSet) /\ Len(pages) \in Nat
  BY DEF StateInv, PageTypes
<1>4. /\ pages' = pages \o new
      /\ tls' = [tls EXCEPT ![Own(t)].pages = NewIds(m)]
  BY Zenon DEF NewPages
<1> HIDE DEF m
<1>5. NewPage("none") \in PageSet
  BY NewPageType
<1>6. /\ NewIds(m) \in Seq(Nat)
      /\ DOMAIN NewIds(m) = 1..m
      /\ \A n \in 1..m : NewIds(m)[n] = Len(pages) + n
  BY <1>2, <1>3 DEF NewIds
<1>7. new \in Seq(PageSet) /\ Len(new) = m /\ DOMAIN new = 1..m
      /\ \A n \in 1..m : new[n] = NewPage("none")
  BY <1>2, <1>5
<1> HIDE DEF new
<1>8. /\ pages' \in Seq(PageSet)
      /\ Len(pages') = Len(pages) + m
      /\ DOMAIN pages' = 1..(Len(pages) + m)
      /\ \A p \in DOMAIN pages : p \in DOMAIN pages' /\ pages'[p] = pages[p]
      /\ \A n \in 1..m : pages'[Len(pages) + n] = NewPage("none")
  <2>1. /\ pages' \in Seq(PageSet)
        /\ Len(pages') = Len(pages) + Len(new)
        /\ \A p \in DOMAIN pages : p \in DOMAIN pages' /\ pages'[p] = pages[p]
        /\ \A p \in DOMAIN new : pages'[Len(pages) + p] = new[p]
        /\ DOMAIN pages' = 1..(Len(pages) + Len(new))
    <3>1. \A r \in Seq(PageSet) :
            /\ pages \o r \in Seq(PageSet)
            /\ Len(pages \o r) = Len(pages) + Len(r)
            /\ \A p \in DOMAIN pages : p \in DOMAIN (pages \o r) /\ (pages \o r)[p] = pages[p]
            /\ \A p \in DOMAIN r : (pages \o r)[Len(pages) + p] = r[p]
            /\ DOMAIN (pages \o r) = 1..(Len(pages) + Len(r))
      BY <1>3, Appended
    <3>2. QED
      BY <1>4, <1>7, <3>1
  <2>2. QED
    BY <1>7, <2>1, Zenon
<1>9. Put(Storages, tls, Own(t), [page_num |-> tls[Own(t)].page_num,
                                  mutex |-> tls[Own(t)].mutex, pages |-> NewIds(m)], tls')
  BY <1>1, <1>4, <1>6, PagesPut DEF StateInv, StorageTypes
<1>10. QED
  BY <1>1, <1>6, <1>8, <1>9 DEF m

LEMMA LenInNat ==
    ASSUME NEW S, NEW s \in Seq(S)
    PROVE  Len(s) \in Nat
OBVIOUS

LEMMA ShareStep ==
    ASSUME NEW t \in Threads, StateInv, ~ Dangling(t), Share(t),
           NEW p, p = tls[Other(t)].pages[call[t].pageNum]
    PROVE  /\ Own(t) \in DOMAIN tls /\ Other(t) \in DOMAIN tls
           /\ p \in DOMAIN pages
           /\ Put(Storages, tls, Own(t),
                  [page_num |-> tls[Own(t)].page_num, mutex |-> tls[Own(t)].mutex,
                   pages |-> Append(tls[Own(t)].pages, p)], tls')
           /\ pages[p].ref_count \in Int
<1> DEFINE k == Own(t)
           o == Other(t)
<1>0. pc[t] = "share"
  BY DEF Share, Moves
<1>1. k \in DOMAIN tls /\ o \in DOMAIN tls
  BY <1>0, OwnFetched, OtherFetched
<1>2. tls[k].pages \in Seq(Nat) /\ tls[o].pages \in Seq(Nat) /\ tls \in Seq(Storages)
  BY <1>1, ElementIn, StorageFields DEF StateInv, StorageTypes
<1>3. call[t].pageNum \in DOMAIN tls[o].pages
  BY <1>0, Zenon DEF Dangling
<1>4. p \in DOMAIN pages
  BY <1>1, <1>3, Zenon DEF StateInv, Leads
<1>5. p \in Nat /\ Append(tls[k].pages, p) \in Seq(Nat)
  BY <1>2, <1>3, SMTT(30)
<1>6. pages[p].ref_count \in Int
  BY <1>4, ElementIn, PageFields DEF StateInv, PageTypes
<1>7. tls' = [tls EXCEPT ![k].pages = Append(@, p)]
  BY Zenon DEF Share
<1>8. tls' = [tls EXCEPT ![k].pages = Append(tls[k].pages, p)]
  <2> HIDE DEF k
  <2>1. QED
    BY <1>7
<1> HIDE DEF k, o
<1>9. Put(Storages, tls, k, [page_num |-> tls[k].page_num, mutex |-> tls[k].mutex,
                              pages |-> Append(tls[k].pages, p)], tls')
  BY <1>1, <1>2, <1>5, <1>8, PagesPut, Zenon
<1>10. QED
  BY <1>1, <1>4, <1>6, <1>9 DEF k, o

LEMMA InstallStep ==
    ASSUME NEW t \in Threads, StateInv, ~ Dangling(t), Install(t)
    PROVE  /\ Own(t) \in DOMAIN tls
           /\ call[t].pageNum \in DOMAIN tls[Own(t)].pages
           /\ Put(Storages, tls, Own(t),
                  [page_num |-> tls[Own(t)].page_num, mutex |-> tls[Own(t)].mutex,
                   pages |-> [tls[Own(t)].pages EXCEPT ![call[t].pageNum] = Len(pages) + 1]],
                  tls')
           /\ pages' \in Seq(PageSet)
           /\ Len(pages') = Len(pages) + 1
           /\ DOMAIN pages' = DOMAIN pages \cup {Len(pages) + 1}
           /\ \A p \in DOMAIN pages : p \in DOMAIN pages' /\ pages'[p] = pages[p]
           /\ pages'[Len(pages) + 1] = NewPage("write")
<1> DEFINE k == Own(t)
           n == call[t].pageNum
           q == [tls[k].pages EXCEPT ![n] = Len(pages) + 1]
<1>1. k \in DOMAIN tls /\ n \in DOMAIN tls[k].pages
  BY PageFetched DEF Install, Moves
<1>2. tls[k].pages \in Seq(Nat) /\ tls \in Seq(Storages)
  BY <1>1, ElementIn, StorageFields DEF StateInv, StorageTypes
<1>3. pages \in Seq(PageSet) /\ Len(pages) \in Nat
  BY DEF StateInv, PageTypes
<1>4. NewPage("write") \in PageSet
  BY NewPageType
<1>5. /\ pages' = Append(pages, NewPage("write"))
      /\ tls' = [tls EXCEPT ![k].pages[n] = Len(pages) + 1]
  BY DEF Install
<1> HIDE DEF k, n
<1>6. q \in Seq(Nat)
  <2>1. Len(pages) + 1 \in Nat
    BY <1>3
  <2>2. Put(Nat, tls[k].pages, n, Len(pages) + 1, q)
    BY <1>1, <1>2, <2>1, Replaced, Zenon
  <2>3. QED
    BY <2>2, Zenon DEF Put
<1>7. tls' = [tls EXCEPT ![k].pages = q]
  BY <1>5
<1> HIDE DEF q
<1>8. Put(Storages, tls, k, [page_num |-> tls[k].page_num, mutex |-> tls[k].mutex,
                             pages |-> q], tls')
  BY <1>1, <1>2, <1>6, <1>7, PagesPut, Zenon
<1>9. /\ pages' \in Seq(PageSet)
      /\ Len(pages') = Len(pages) + 1
      /\ DOMAIN pages' = DOMAIN pages \cup {Len(pages) + 1}
      /\ \A p \in DOMAIN pages : p \in DOMAIN pages' /\ pages'[p] = pages[p]
      /\ pages'[Len(pages) + 1] = NewPage("write")
  BY <1>3, <1>4, <1>5
<1>10. QED
  BY <1>1, <1>8, <1>9 DEF k, n, q

LEMMA StrayStep ==
    ASSUME NEW t \in Threads, StateInv, Stray(t)
    PROVE  \/ UNCHANGED pages
           \/ \E p \in DOMAIN pages, data \in [0..(PAGE_SIZE - 1) -> Byte] :
                Fills(pages, p, data, pages')
<1>1. PICK p \in UNION {PagesOf(u) : u \in Threads} :
        \/ pages' = [pages EXCEPT ![p].data[0] = t]
        \/ UNCHANGED pages
  BY Zenon DEF Stray
<1>2. PICK u \in Threads : p \in PagesOf(u)
  BY Zenon
<1>3. PICK i \in Slot(u) : ttpArray[i].tls # 0 /\ p \in {tls[ttpArray[i].tls].pages[n] :
                                               n \in DOMAIN tls[ttpArray[i].tls].pages}
  BY <1>2, Zenon DEF PagesOf
<1>4. i \in Slots
  BY DEF Slot
<1>5. ttpArray[i].tls \in DOMAIN tls
  BY <1>3, <1>4 DEF StateInv, Leads, TableTypes, Entries, StorageTypes
<1>6. p \in DOMAIN pages
  BY <1>3, <1>5, Zenon DEF StateInv, Leads
<1>7. pages \in Seq(PageSet) /\ pages[p].data \in [0..(PAGE_SIZE - 1) -> Byte]
  BY <1>6, ElementIn, PageFields DEF StateInv, PageTypes
<1> DEFINE data == [pages[p].data EXCEPT ![0] = t]
<1>8. data \in [0..(PAGE_SIZE - 1) -> Byte]
  BY <1>7 DEF Byte
<1>9. pages' = [pages EXCEPT ![p].data[0] = t] => pages' = [pages EXCEPT ![p].data = data]
  OBVIOUS
<1> HIDE DEF data
<1>10. QED
  BY <1>1, <1>6, <1>7, <1>8, <1>9, FillsPage, Zenon
----------------------------------------------------------------------------
(* The stage a call goes on to, and its arguments there. *)

LEMMA GoesTo ==
    ASSUME NEW t \in Threads, CallTypes, NEW stage, Goto(t, stage)
    PROVE  pc'[t] = stage
BY DEF Goto, CallTypes

LEMMA MovesTo ==
    ASSUME NEW t \in Threads, CallTypes, NEW from, NEW to, Moves(t, from, to)
    PROVE  pc[t] = from /\ pc'[t] = to
BY GoesTo, Zenon DEF Moves

LEMMA Handled ==
    ASSUME NEW t \in Threads, CallTypes, NEW p, sfHandle(t, p)
    PROVE  \/ pc'[t] = "exited" /\ UNCHANGED crashed
           \/ pc' = pc /\ crashed' = t
BY GoesTo, Zenon DEF sfHandle, Crash

LEMMA StageKept ==
    ASSUME NEW t \in Threads, CallTypes, StageOK(t), Proceed(t), call'[t] = call[t],
           calls' = calls,
           ~ Rewrites(t)
    PROVE  pc'[t] \in Stages /\ StageOK(t)'
<1> USE MovesTo, GoesTo DEF StageOK, Stages, Settled
<1>1. CASE FirstCall(t) \/ InitDone(t) \/ TakeEntry(t)
  BY <1>1 DEF FirstCall, InitDone, TakeEntry
<1>2. CASE SetTid(t) \/ Publish(t) \/ Fields(t)
  BY <1>2 DEF SetTid, Publish, Fields
<1>3. CASE Lock(t)
  <2>1. call[t].op \in {"create", "read", "write", "clone"}
    BY <1>3 DEF CallTypes, Calls, Lock
  <2>2. pc'[t] = CASE call[t].op = "create" -> "newPages"
                   [] call[t].op = "clone"  -> "lockOther"
                   [] call[t].op = "read"   -> "open"
                   [] call[t].op = "write"  -> "refTest"
    BY <1>3, GoesTo, Zenon DEF Lock
  <2>3. QED
    BY <1>3, <2>1, <2>2 DEF Lock
<1>4. CASE NewPages(t) \/ LockOther(t)
  BY <1>4 DEF NewPages, LockOther
<1>5. CASE Unlock(t) \/ UnlockOther(t)
  BY <1>5 DEF Unlock, UnlockOther
<1>6. CASE Open(t) \/ RefTest(t)
  BY <1>6 DEF Open, RefTest
<1>7. CASE Decrement(t) \/ Install(t) \/ OpenOld(t) \/ CloseOld(t)
  BY <1>7 DEF Decrement, Install, OpenOld, CloseOld
<1>8. CASE CopyOld(t)
  BY <1>8, Handled DEF CopyOld
<1>9. CASE Refuse(t)
  BY <1>9 DEF Refuse, AfterRefusal
<1>10. QED
  BY <1>1, <1>2, <1>3, <1>4, <1>5, <1>6, <1>7, <1>8, <1>9, Zenon DEF Proceed, Rewrites

(* The look-ups. *)
LEMMA KeptIndex ==
    ASSUME NEW c \in Calls, NEW i \in Slots
    PROVE  /\ KeepIndex(c, i) \in Calls
           /\ \A f \in {"op", "size", "offset", "length", "of", "look", "numOfPages",
                        "pageNum", "done", "old"} : KeepIndex(c, i)[f] = c[f]
           /\ KeepIndex(c, i).index = IF c.look = "self" THEN i ELSE c.index
           /\ KeepIndex(c, i).other = IF c.look = "self" THEN c.other ELSE i
<1>1. CASE c.look = "self"
  BY <1>1 DEF KeepIndex, Calls
<1>2. CASE c.look # "self"
  BY <1>2 DEF KeepIndex, Calls
<1>3. QED
  BY <1>1, <1>2

LEMMA EndsLookUp ==
    ASSUME NEW t \in Threads, CallTypes, NEW c \in Calls, EndLookUp(t, c)
    PROVE  /\ call' \in [Threads -> Calls]
           /\ IF c.op = "clone" /\ c.look = "self"
              THEN call'[t] = [c EXCEPT !.look = "of"] /\ pc'[t] = "firstCall"
              ELSE call'[t] = c /\ pc'[t] = "check"
           /\ \A u \in Threads \ {t} : call'[u] = call[u]
<1>1. [c EXCEPT !.look = "of"] \in Calls
  BY DEF Calls
<1>2. PICK d \in Calls : d = [c EXCEPT !.look = "of"]
  BY <1>1
<1>3. CASE c.op = "clone" /\ c.look = "self"
  <2>1. call' = [call EXCEPT ![t] = d] /\ Goto(t, "firstCall")
    BY <1>2, <1>3, Zenon DEF EndLookUp
  <2>2. pc'[t] = "firstCall"
    BY <2>1, GoesTo, Zenon
  <2> HIDE DEF Calls
  <2>3. QED
    BY <1>2, <1>3, <2>1, <2>2 DEF CallTypes
<1>4. CASE ~ (c.op = "clone" /\ c.look = "self")
  <2>1. call' = [call EXCEPT ![t] = c] /\ Goto(t, "check")
    BY <1>4, Zenon DEF EndLookUp
  <2>2. pc'[t] = "check"
    BY <2>1, GoesTo, Zenon
  <2> HIDE DEF Calls
  <2>3. QED
    BY <1>4, <2>1, <2>2 DEF CallTypes
<1>5. QED
  BY <1>3, <1>4

(* What a step makes of the call of t. *)
CallsOn(t) ==
    /\ call' \in [Threads -> Calls]
    /\ pc'[t] \in Stages
    /\ StageOK(t)'

LEMMA TurnsToOther ==
    ASSUME NEW c \in Calls, NEW d, d = [c EXCEPT !.look = "of"]
    PROVE  /\ d \in Calls
           /\ d.look = "of"
           /\ d.op = c.op /\ d.of = c.of /\ d.size = c.size
           /\ d.offset = c.offset /\ d.length = c.length /\ d.done = c.done
           /\ d.index = c.index /\ d.other = c.other
           /\ d.numOfPages = c.numOfPages /\ d.pageNum = c.pageNum /\ d.old = c.old
BY DEF Calls

LEMMA ScanStep ==
    ASSUME NEW t \in Threads, TableTypes, CallTypes, Scan(t)
    PROVE  \/ \E i \in Slots :
                /\ ttpArray[i].tid = Sought(t)
                /\ EndLookUp(t, KeepIndex(call[t], i))
           \/ /\ \A i \in Slots : ttpArray[i].tid # Sought(t)
              /\ pc'[t] = "loadMax"
              /\ call' = [call EXCEPT ![t] = KeepIndex(call[t], maxIndex)]
<1>1. CASE \E i \in Slots : ttpArray[i].tid = Sought(t)
  BY <1>1, Zenon DEF Scan
<1>2. CASE ~ \E i \in Slots : ttpArray[i].tid = Sought(t)
  <2>1. call' = [call EXCEPT ![t] = KeepIndex(@, maxIndex)] /\ Goto(t, "loadMax")
    BY <1>2, Zenon DEF Scan
  <2>2. pc'[t] = "loadMax"
    BY <2>1, GoesTo, Zenon
  <2>3. QED
    BY <1>2, <2>1, <2>2
<1>3. QED
  BY <1>1, <1>2

LEMMA LooksUp ==
    ASSUME NEW t \in Threads, TableTypes, CallTypes, StageOK(t), Scan(t), calls' = calls
    PROVE  CallsOn(t)
<1>1. call[t] \in Calls /\ maxIndex \in Slots /\ pc[t] = "scan"
  BY DEF CallTypes, TableTypes, Scan
<1> DEFINE c(i) == KeepIndex(call[t], i)
<1>2. ASSUME NEW i \in Slots
      PROVE  /\ c(i) \in Calls
             /\ c(i).op = call[t].op /\ c(i).of = call[t].of /\ c(i).look = call[t].look
             /\ c(i).done = call[t].done /\ c(i).length = call[t].length
  <2>1. \A f \in {"op", "size", "offset", "length", "of", "look", "numOfPages",
                  "pageNum", "done", "old"} : c(i)[f] = call[t][f]
    BY <1>1, KeptIndex, Zenon
  <2>2. c(i) \in Calls
    BY <1>1, KeptIndex, Zenon
  <2> HIDE DEF c, Calls
  <2>3. QED
    BY <2>1, <2>2
<1>3. CASE \E i \in Slots :
            /\ ttpArray[i].tid = Sought(t)
            /\ EndLookUp(t, KeepIndex(call[t], i))
  <2>1. PICK i \in Slots : EndLookUp(t, c(i))
    BY <1>3, Zenon
  <2> HIDE DEF c
  <2>2. call' \in [Threads -> Calls]
    BY <1>2, <2>1, EndsLookUp, Zenon
  <2>3. IF c(i).op = "clone" /\ c(i).look = "self"
        THEN call'[t] = [c(i) EXCEPT !.look = "of"] /\ pc'[t] = "firstCall"
        ELSE call'[t] = c(i) /\ pc'[t] = "check"
    BY <1>2, <2>1, EndsLookUp, Zenon
  <2>4. PICK d : d = [c(i) EXCEPT !.look = "of"]
    OBVIOUS
  <2>5. d.op = c(i).op /\ d.of = c(i).of /\ d.done = c(i).done
        /\ d.length = c(i).length /\ d.look = "of"
    BY <1>2, <2>4, TurnsToOther, ZenonT(60)
  <2> HIDE DEF Calls
  <2>6. QED
    BY <1>1, <1>2, <2>2, <2>3, <2>4, <2>5, ZenonT(60) DEF CallsOn, StageOK, Settled, Stages
<1>4. CASE /\ pc'[t] = "loadMax"
           /\ call' = [call EXCEPT ![t] = KeepIndex(call[t], maxIndex)]
  <2>1. call' = [call EXCEPT ![t] = c(maxIndex)]
    BY <1>4, Zenon
  <2> HIDE DEF c, Calls
  <2>2. call' \in [Threads -> Calls] /\ call'[t] = c(maxIndex)
    BY <1>1, <1>2, <2>1 DEF CallTypes
  <2>3. QED
    BY <1>1, <1>2, <1>4, <2>2 DEF CallsOn, StageOK, Settled, Stages
<1>5. QED
  BY <1>3, <1>4, ScanStep, Zenon

LEMMA EndsLookUpOn ==
    ASSUME NEW t \in Threads, CallTypes, StageOK(t), ClearNext(t), calls' = calls
    PROVE  CallsOn(t)
<1>1. call[t] \in Calls /\ pc[t] = "clearNext" /\ EndLookUp(t, call[t])
  BY DEF CallTypes, ClearNext
<1>2. call' \in [Threads -> Calls]
  BY <1>1, EndsLookUp, Zenon
<1>3. IF call[t].op = "clone" /\ call[t].look = "self"
      THEN call'[t] = [call[t] EXCEPT !.look = "of"] /\ pc'[t] = "firstCall"
      ELSE call'[t] = call[t] /\ pc'[t] = "check"
  BY <1>1, EndsLookUp, Zenon
<1>4. PICK d : d = [call[t] EXCEPT !.look = "of"]
  OBVIOUS
<1>5. d.op = call[t].op /\ d.of = call[t].of /\ d.done = call[t].done
      /\ d.length = call[t].length /\ d.look = "of"
  BY <1>1, <1>4, TurnsToOther, Zenon
<1> HIDE DEF Calls
<1>6. QED
  BY <1>1, <1>2, <1>3, <1>4, <1>5 DEF CallsOn, StageOK, Settled, Stages

LEMMA RoundUpNat ==
    ASSUME NEW size \in Nat
    PROVE  roundUp(size) \in Nat
<1>1. PAGE_SIZE \in Nat /\ PAGE_SIZE > 0
  BY TLSAssumption
<1>2. size + PAGE_SIZE - 1 \in Nat
  BY <1>1
<1>3. QED
  BY <1>2, Divisions, Zenon DEF roundUp

LEMMA NumOfPagesNat ==
    ASSUME NEW t \in Threads, StateInv, StageOK(t), pc[t] = "check", ~ Refused(t)
    PROVE  NumOfPages(t) \in Nat
<1>1. call[t] \in Calls /\ call[t].size \in Nat
  BY DEF StateInv, CallTypes, Calls
<1>2. \A s \in DOMAIN tls : tls[s].page_num \in Nat
  BY ElementIn, StorageFields, Zenon DEF StateInv, StorageTypes
<1>3. Own(t) # 0 => Own(t) \in DOMAIN tls
  BY Fetched DEF StateInv
<1>4. Other(t) # 0 => Other(t) \in DOMAIN tls
  BY Fetched DEF StateInv
<1>5. CASE call[t].op = "create"
  <2>1. NumOfPages(t) = roundUp(call[t].size)
    BY <1>5 DEF NumOfPages
  <2>2. QED
    BY <1>1, <2>1, RoundUpNat, Zenon
<1>6. CASE call[t].op = "clone"
  <2>1. NumOfPages(t) = tls[Other(t)].page_num /\ Other(t) # 0
    BY <1>6 DEF NumOfPages, Refused
  <2>2. QED
    BY <1>2, <1>4, <2>1, Zenon
<1>7. CASE call[t].op \notin {"create", "clone"}
  <2>1. NumOfPages(t) = tls[Own(t)].page_num /\ Own(t) # 0
    BY <1>7 DEF NumOfPages, Refused
  <2>2. QED
    BY <1>2, <1>3, <2>1, Zenon
<1>8. QED
  BY <1>5, <1>6, <1>7

LEMMA CheckStep ==
    ASSUME NEW t \in Threads, StateInv, StageOK(t), Check(t)
    PROVE  IF Refused(t)
           THEN pc'[t] = "return" /\ call' = call
           ELSE /\ call' \in [Threads -> Calls]
                /\ call'[t] = [call[t] EXCEPT !.numOfPages = NumOfPages(t)]
                /\ pc'[t] = IF call[t].op \in {"create", "clone"} THEN "setTid" ELSE "lock"
<1>1. CallTypes /\ pc[t] = "check" /\ call[t] \in Calls
  BY DEF StateInv, Check, CallTypes
<1>2. CASE Refused(t)
  BY <1>1, <1>2, GoesTo, Zenon DEF Check
<1>3. CASE ~ Refused(t)
  <2>1. PICK n \in Nat : n = NumOfPages(t)
    BY <1>1, <1>3, NumOfPagesNat, Zenon
  <2>2. PICK d \in Calls : d = [call[t] EXCEPT !.numOfPages = n]
    BY <1>1 DEF Calls
  <2>3. call' = [call EXCEPT ![t].numOfPages = n]
    BY <1>3, <2>1, Zenon DEF Check
  <2>4. Goto(t, IF call[t].op \in {"create", "clone"} THEN "setTid" ELSE "lock")
    BY <1>3, Zenon DEF Check
  <2>5. pc'[t] = IF call[t].op \in {"create", "clone"} THEN "setTid" ELSE "lock"
    BY <1>1, <2>4, GoesTo, Zenon
  <2> HIDE DEF Calls
  <2>6. call' = [call EXCEPT ![t] = d]
    BY <2>2, <2>3
  <2>7. call' \in [Threads -> Calls] /\ call'[t] = d
    BY <1>1, <2>6 DEF CallTypes
  <2>8. QED
    BY <1>3, <2>1, <2>2, <2>5, <2>7
<1>4. QED
  BY <1>2, <1>3

LEMMA ChecksOn ==
    ASSUME NEW t \in Threads, StateInv, StageOK(t), Check(t), calls' = calls
    PROVE  CallsOn(t)
<1>1. CallTypes /\ pc[t] = "check" /\ call[t] \in Calls /\ call \in [Threads -> Calls]
  BY DEF StateInv, Check, CallTypes
<1>2. CASE Refused(t)
  <2>1. pc'[t] = "return" /\ call' = call
    BY <1>2, CheckStep
  <2>2. QED
    BY <1>1, <2>1 DEF CallsOn, StageOK, Settled, Stages
<1>3. CASE ~ Refused(t)
  <2>1. /\ call' \in [Threads -> Calls]
        /\ call'[t] = [call[t] EXCEPT !.numOfPages = NumOfPages(t)]
        /\ pc'[t] = IF call[t].op \in {"create", "clone"} THEN "setTid" ELSE "lock"
    BY <1>3, CheckStep
  <2>2. PICK d : d = call'[t]
    OBVIOUS
  <2>3. d.op = call[t].op /\ d.of = call[t].of /\ d.done = call[t].done
        /\ d.length = call[t].length /\ d.look = call[t].look
    BY <1>1, <2>1, <2>2 DEF Calls
  <2> HIDE DEF Calls
  <2>4. QED
    BY <1>1, <2>1, <2>2, <2>3 DEF CallsOn, StageOK, Settled, Stages
<1>4. QED
  BY <1>2, <1>3

LEMMA LoadsMaxOn ==
    ASSUME NEW t \in Threads, TableTypes, CallTypes, StageOK(t), LoadMax(t), calls' = calls
    PROVE  /\ CallsOn(t)
           /\ pc[t] = "loadMax" /\ pc'[t] = "takeEntry"
           /\ call'[t].loaded = maxIndex
           /\ call'[t].look = call[t].look /\ call'[t].old = call[t].old
<1>1. call[t] \in Calls /\ call \in [Threads -> Calls]
  BY DEF CallTypes
<1>2. pc[t] = "loadMax" /\ pc'[t] = "takeEntry"
  BY MovesTo, Zenon DEF LoadMax
<1>3. PICK n \in Int : n = maxIndex
  BY TLSAssumption DEF TableTypes, Slots
<1>4. PICK d : d = [call[t] EXCEPT !.loaded = n]
  OBVIOUS
<1>5. d \in Calls /\ d.op = call[t].op /\ d.of = call[t].of /\ d.done = call[t].done
      /\ d.length = call[t].length /\ d.look = call[t].look /\ d.old = call[t].old
      /\ d.loaded = n
  BY <1>1, <1>4 DEF Calls
<1>6. call' = [call EXCEPT ![t].loaded = n]
  BY <1>3, Zenon DEF LoadMax
<1> HIDE DEF Calls
<1>7. call' = [call EXCEPT ![t] = d]
  BY <1>4, <1>6
<1>8. call' \in [Threads -> Calls] /\ call'[t] = d
  BY <1>1, <1>5, <1>7
<1>9. CallsOn(t)
  BY <1>1, <1>2, <1>5, <1>8 DEF CallsOn, StageOK, Settled, Stages
<1>10. QED
  BY <1>2, <1>3, <1>5, <1>8, <1>9

(* What is loaded of a count, and of which page. *)
LEMMA LoadsCountOn ==
    ASSUME NEW t \in Threads, StateInv, StageOK(t), ~ Dangling(t), Share(t) \/ LoadCount(t),
           calls' = calls
    PROVE  /\ CallsOn(t)
           /\ pc[t] \in {"share", "loadCount"} /\ pc'[t] \in {"count", "decrement"}
           /\ call'[t].look = call[t].look
           /\ call'[t].old \in DOMAIN pages
<1>1. CallTypes /\ call[t] \in Calls /\ call \in [Threads -> Calls]
  BY DEF StateInv, CallTypes
<1>2. \/ pc[t] = "share" /\ pc'[t] = "count"
      \/ pc[t] = "loadCount" /\ pc'[t] = "decrement"
  BY <1>1, MovesTo, Zenon DEF Share, LoadCount
<1>3. PICK p : p \in DOMAIN pages
                /\ call' = [call EXCEPT ![t].old = p, ![t].loaded = pages[p].ref_count]
  <2>1. CASE Share(t)
    <3>1. PICK p : p = tls[Other(t)].pages[call[t].pageNum]
      OBVIOUS
    <3>2. p \in DOMAIN pages
      BY <2>1, <3>1, ShareStep, Zenon
    <3>3. call' = [call EXCEPT ![t].old = p, ![t].loaded = pages[p].ref_count]
      BY <2>1, <3>1, Zenon DEF Share
    <3>4. QED
      BY <3>2, <3>3
  <2>2. CASE LoadCount(t)
    <3>1. Page(t) \in DOMAIN pages
      BY <2>2, LoadCountStep, Zenon
    <3>2. QED
      BY <2>2, <3>1, Zenon DEF LoadCount
  <2>3. QED
    BY <2>1, <2>2
<1>4. PICK n \in Int : n = pages[p].ref_count
  BY <1>3, ElementIn, PageFields DEF StateInv, PageTypes
<1>5. p \in Nat
  BY <1>3 DEF StateInv, PageTypes
<1>6. PICK d : d = [call[t] EXCEPT !.old = p, !.loaded = n]
  OBVIOUS
<1>7. d \in Calls /\ d.op = call[t].op /\ d.of = call[t].of /\ d.done = call[t].done
      /\ d.length = call[t].length /\ d.look = call[t].look /\ d.old = p
  BY <1>1, <1>4, <1>5, <1>6 DEF Calls
<1>8. call' = [call EXCEPT ![t].old = p, ![t].loaded = n]
  BY <1>3, <1>4, Zenon
<1> HIDE DEF Calls
<1>9. call' = [call EXCEPT ![t] = d]
  BY <1>1, <1>6, <1>8
<1>10. call' \in [Threads -> Calls] /\ call'[t] = d
  BY <1>1, <1>7, <1>9
<1>11. CallsOn(t)
  BY <1>1, <1>2, <1>7, <1>10 DEF CallsOn, StageOK, Settled, Stages
<1>12. QED
  BY <1>2, <1>3, <1>7, <1>10, <1>11

LEMMA CountsOn ==
    ASSUME NEW t \in Threads, StateInv, StageOK(t), Count(t), calls' = calls
    PROVE  /\ CallsOn(t)
           /\ pc[t] = "count" /\ pc'[t] \in {"unlock", "share"}
           /\ call'[t].look = call[t].look /\ call'[t].old = call[t].old
<1>1. CallTypes /\ call[t] \in Calls /\ call \in [Threads -> Calls] /\ pc[t] = "count"
  BY DEF StateInv, CallTypes, Count
<1>2. CASE call[t].pageNum = call[t].numOfPages
  <2>1. Goto(t, "unlock") /\ call' = call
    BY <1>2, Zenon DEF Count
  <2>2. pc'[t] = "unlock"
    BY <1>1, <2>1, GoesTo, Zenon
  <2>3. QED
    BY <1>1, <2>1, <2>2 DEF CallsOn, StageOK, Settled, Stages
<1>3. CASE call[t].pageNum # call[t].numOfPages
  <2>1. call' = [call EXCEPT ![t].pageNum = @ + 1] /\ Goto(t, "share")
    BY <1>3, Zenon DEF Count
  <2>2. pc'[t] = "share"
    BY <1>1, <2>1, GoesTo, Zenon
  <2>3. PICK n \in Nat : n = call[t].pageNum + 1
    BY <1>1 DEF Calls
  <2>4. PICK d : d = [call[t] EXCEPT !.pageNum = n]
    OBVIOUS
  <2>5. d \in Calls /\ d.op = call[t].op /\ d.of = call[t].of /\ d.done = call[t].done
        /\ d.length = call[t].length /\ d.look = call[t].look /\ d.old = call[t].old
    BY <1>1, <2>4 DEF Calls
  <2>6. call' = [call EXCEPT ![t].pageNum = n]
    BY <2>1, <2>3
  <2> HIDE DEF Calls
  <2>7. call' = [call EXCEPT ![t] = d]
    BY <2>4, <2>6
  <2>8. call' \in [Threads -> Calls] /\ call'[t] = d
    BY <1>1, <2>5, <2>7
  <2>9. CallsOn(t)
    BY <1>1, <2>2, <2>5, <2>8 DEF CallsOn, StageOK, Settled, Stages
  <2>10. QED
    BY <1>1, <2>2, <2>5, <2>8, <2>9
<1>4. QED
  BY <1>2, <1>3

LEMMA CopiesOn ==
    ASSUME NEW t \in Threads, StateInv, StageOK(t), ~ Dangling(t), Copy(t), calls' = calls
    PROVE  CallsOn(t)
<1>1. CallTypes /\ call[t] \in Calls /\ call \in [Threads -> Calls] /\ pc[t] = "copy"
  BY DEF StateInv, CallTypes, Copy
<1>2. CASE ~ Allows(pages[Page(t)].prot, call[t].op)
  <2>1. sfHandle(t, Page(t)) /\ call' = call
    BY <1>2, CopyStep
  <2>2. pc'[t] \in {"copy", "exited"}
    BY <1>1, <2>1, Handled, Zenon
  <2>3. QED
    BY <1>1, <2>1, <2>2 DEF CallsOn, StageOK, Settled, Stages
<1>3. CASE Allows(pages[Page(t)].prot, call[t].op)
  <2>1. call' = [call EXCEPT ![t].done = @ + Portion(t)] /\ Goto(t, "close")
    BY <1>3, CopyStep
  <2>2. pc'[t] = "close"
    BY <1>1, <2>1, GoesTo, Zenon
  <2>3. Portion(t) \in Nat /\ Portion(t) <= Remaining(t)
    BY <1>1, PortionFits
  <2>4. call[t].done \in Nat /\ call[t].length \in Nat /\ call[t].done <= call[t].length
    BY <1>1 DEF Calls, StageOK
  <2>5. PICK n \in Nat : n = call[t].done + Portion(t) /\ n <= call[t].length
    <3>1. Portion(t) <= call[t].length - call[t].done
      BY <2>3, Zenon DEF Remaining
    <3>2. QED
      BY <2>3, <2>4, <3>1
  <2>6. PICK d : d = [call[t] EXCEPT !.done = n]
    OBVIOUS
  <2>7. d \in Calls /\ d.op = call[t].op /\ d.of = call[t].of /\ d.done = n
        /\ d.length = call[t].length /\ d.look = call[t].look
    BY <1>1, <2>6 DEF Calls
  <2>8. call' = [call EXCEPT ![t].done = n]
    BY <2>1, <2>5
  <2> HIDE DEF Calls
  <2>9. call' = [call EXCEPT ![t] = d]
    BY <2>6, <2>8
  <2>10. call' \in [Threads -> Calls] /\ call'[t] = d
    BY <1>1, <2>7, <2>9
  <2>11. QED
    BY <1>1, <2>2, <2>5, <2>7, <2>10 DEF CallsOn, StageOK, Settled, Stages
<1>4. QED
  BY <1>2, <1>3

LEMMA ClosesOn ==
    ASSUME NEW t \in Threads, StateInv, StageOK(t), Close(t), calls' = calls
    PROVE  CallsOn(t)
<1>1. CallTypes /\ call[t] \in Calls /\ call \in [Threads -> Calls] /\ pc[t] = "close"
  BY DEF StateInv, CallTypes, Close
<1>2. CASE Remaining(t) = 0
  <2>1. Goto(t, "unlock") /\ call' = call
    BY <1>2, Zenon DEF Close
  <2>2. pc'[t] = "unlock"
    BY <1>1, <2>1, GoesTo, Zenon
  <2>3. QED
    BY <1>1, <2>1, <2>2 DEF CallsOn, StageOK, Settled, Stages
<1>3. CASE Remaining(t) # 0
  <2>1. call' = [call EXCEPT ![t].pageNum = @ + 1]
        /\ Goto(t, IF call[t].op = "read" THEN "open" ELSE "refTest")
    BY <1>3, Zenon DEF Close
  <2>2. pc'[t] = IF call[t].op = "read" THEN "open" ELSE "refTest"
    BY <1>1, <2>1, GoesTo, Zenon
  <2>3. PICK n \in Nat : n = call[t].pageNum + 1
    BY <1>1 DEF Calls
  <2>4. PICK d : d = [call[t] EXCEPT !.pageNum = n]
    OBVIOUS
  <2>5. d \in Calls /\ d.op = call[t].op /\ d.of = call[t].of /\ d.done = call[t].done
        /\ d.length = call[t].length /\ d.look = call[t].look
    BY <1>1, <2>4 DEF Calls
  <2>6. call' = [call EXCEPT ![t].pageNum = n]
    BY <2>1, <2>3
  <2> HIDE DEF Calls
  <2>7. call' = [call EXCEPT ![t] = d]
    BY <2>4, <2>6
  <2>8. call' \in [Threads -> Calls] /\ call'[t] = d
    BY <1>1, <2>5, <2>7
  <2>9. QED
    BY <1>1, <2>2, <2>5, <2>8 DEF CallsOn, StageOK, Settled, Stages
<1>4. QED
  BY <1>2, <1>3

LEMMA NoCallType == ASSUME 0 \in Slots PROVE NoCall \in Calls
BY DEF NoCall, Calls

LEMMA Entries0 == 0 \in Slots
<1>1. CALL_LIMIT \in Nat /\ Cardinality(Threads) \in Nat /\ MAX_THREADS \in Nat
      /\ MAX_THREADS > 2 * CALL_LIMIT * Cardinality(Threads)
  BY TLSAssumption, FS_CardinalityType
<1>2. 2 * CALL_LIMIT * Cardinality(Threads) >= 0
  BY <1>1
<1>3. QED
  BY <1>1, <1>2 DEF Slots

LEMMA ReturnsOn ==
    ASSUME NEW t \in Threads, CallTypes, StageOK(t), Return(t), calls' = calls
    PROVE  CallsOn(t) /\ pc'[t] = "idle" /\ call'[t] = NoCall
<1>1. NoCall \in Calls /\ call \in [Threads -> Calls]
  BY Entries0, NoCallType DEF CallTypes
<1>2. pc[t] = "return" /\ pc'[t] = "idle"
  BY MovesTo, Zenon DEF Return
<1>3. NoCall.done = 0 /\ NoCall.length = 0 /\ NoCall.look = "self" /\ NoCall.op = "none"
  BY DEF NoCall
<1> HIDE DEF NoCall, Calls
<1>4. call' \in [Threads -> Calls] /\ call'[t] = NoCall
  BY <1>1 DEF Return
<1>5. QED
  BY <1>1, <1>2, <1>3, <1>4 DEF CallsOn, StageOK, Settled, Stages

(* What begins a call of t, and of no other thread. *)
Begun(t, op, of) ==
    /\ CallsOn(t)
    /\ pc'[t] = "firstCall"
    /\ calls' \in [Threads -> 0..CALL_LIMIT]
    /\ calls'[t] = calls[t] + 1
    /\ call'[t].op = op /\ call'[t].of = of /\ call'[t].look = "self"
    /\ call'[t].old = 0
    /\ \A u \in Threads \ {t} :
        pc'[u] = pc[u] /\ call'[u] = call[u] /\ calls'[u] = calls[u]

LEMMA BeginsOn ==
    ASSUME NEW t \in Threads, CallTypes,
           NEW op \in {"create", "read", "write", "clone"}, NEW size \in Nat,
           NEW offset \in Nat, NEW length \in Nat, NEW of \in Threads \cup {NoThread},
           op = "clone" => of \in Threads,
           Begin(t, op, size, offset, length, of)
    PROVE  Begun(t, op, of)
<1>1. /\ NoCall \in Calls /\ call \in [Threads -> Calls]
      /\ calls \in [Threads -> 0..CALL_LIMIT] /\ pc \in [Threads -> Stages]
  BY Entries0, NoCallType DEF CallTypes
<1>2. PAGE_SIZE \in Nat /\ offset \div PAGE_SIZE \in Nat /\ CALL_LIMIT \in Nat
  BY Divisions, TLSAssumption
<1>3. PICK n \in Nat : n = offset \div PAGE_SIZE + 1
  BY <1>2
<1>4. PICK d : d = [NoCall EXCEPT !.op = op, !.size = size, !.offset = offset,
                       !.length = length, !.pageNum = n, !.of = of]
  OBVIOUS
<1>5. d = [op |-> op, size |-> size, offset |-> offset, length |-> length,
           of |-> of, look |-> "self", index |-> 0, other |-> 0,
           numOfPages |-> 0, pageNum |-> n, done |-> 0, old |-> 0, loaded |-> 0]
  BY <1>4 DEF NoCall
<1>6. d \in Calls
  BY <1>5, Entries0 DEF Calls
<1>7. call' = [call EXCEPT ![t] = d] /\ calls' = [calls EXCEPT ![t] = @ + 1]
      /\ pc' = [pc EXCEPT ![t] = "firstCall"] /\ calls[t] < CALL_LIMIT
  BY <1>3, <1>4, Zenon DEF Begin, Goto
<1> HIDE DEF Calls
<1>8. call' \in [Threads -> Calls] /\ call'[t] = d
      /\ \A u \in Threads \ {t} : call'[u] = call[u]
  BY <1>1, <1>6, <1>7
<1>9. pc'[t] = "firstCall" /\ \A u \in Threads \ {t} : pc'[u] = pc[u]
  BY <1>1, <1>7
<1>10. /\ calls' \in [Threads -> 0..CALL_LIMIT] /\ calls'[t] = calls[t] + 1
       /\ calls'[t] > 0
       /\ \A u \in Threads \ {t} : calls'[u] = calls[u]
  BY <1>1, <1>2, <1>7
<1>11. d.op = op /\ d.of = of /\ d.look = "self" /\ d.done = 0 /\ d.length = length /\ d.old = 0
  BY <1>5
<1>12. CallsOn(t)
  BY <1>8, <1>9, <1>10, <1>11 DEF CallsOn, StageOK, Settled, Stages
<1>13. QED
  BY <1>8, <1>9, <1>10, <1>11, <1>12 DEF Begun
----------------------------------------------------------------------------
(* The types are kept. *)

LEMMA PagesKept ==
    ASSUME NEW t \in Threads, StateInv, StageOK(t), ~ Dangling(t), Proceed(t)
    PROVE  /\ pages' \in Seq(PageSet)
           /\ Len(pages') >= Len(pages)
           /\ \A p \in DOMAIN pages : p \in DOMAIN pages'
<1>1. pages \in Seq(PageSet) /\ Len(pages) \in Nat
  BY DEF StateInv, PageTypes
<1>2. Same(pages, pages') => /\ pages' \in Seq(PageSet)
                             /\ Len(pages') >= Len(pages)
                             /\ \A p \in DOMAIN pages : p \in DOMAIN pages'
  BY <1>1 DEF Same
<1>3. CASE UNCHANGED pages
  BY <1>1, <1>3
<1>4. CASE NewPages(t)
  <2>1. call[t].numOfPages \in Nat
    BY DEF StateInv, CallTypes, Calls
  <2>2. /\ pages' \in Seq(PageSet)
        /\ Len(pages') = Len(pages) + call[t].numOfPages
        /\ \A p \in DOMAIN pages : p \in DOMAIN pages'
    BY <1>4, NewPagesStep, Zenon
  <2>3. QED
    BY <1>1, <2>1, <2>2
<1>5. CASE Count(t) \/ Decrement(t)
  BY <1>2, <1>5, CountStep, Zenon
<1>6. CASE Open(t)
  BY <1>2, <1>6, OpenStep, Zenon DEF Protects
<1>7. CASE LoadCount(t)
  BY <1>2, <1>7, LoadCountStep, Zenon
<1>8. CASE Install(t)
  <2>1. /\ pages' \in Seq(PageSet)
        /\ Len(pages') = Len(pages) + 1
        /\ \A p \in DOMAIN pages : p \in DOMAIN pages'
    BY <1>8, InstallStep, Zenon
  <2>2. QED
    BY <1>1, <2>1
<1>9. CASE OpenOld(t)
  BY <1>2, <1>9, OpenOldStep, Zenon DEF Protects
<1>10. CASE CopyOld(t)
  BY <1>2, <1>3, <1>10, CopyOldStep, Zenon DEF Fills
<1>11. CASE CloseOld(t)
  BY <1>2, <1>11, CloseOldStep, Zenon DEF Protects
<1>12. CASE Copy(t)
  BY <1>2, <1>3, <1>12, CopyStep, Zenon DEF Fills
<1>13. CASE Close(t)
  BY <1>2, <1>13, CloseStep, Zenon DEF Protects
<1>14. QED
  BY <1>3, <1>4, <1>5, <1>6, <1>7, <1>8, <1>9, <1>10, <1>11, <1>12, <1>13,
     PageActions, Zenon

(* The pages of the storages are there. *)
Rooted(s, r) == \A k \in DOMAIN s : \A n \in DOMAIN s[k].pages : s[k].pages[n] \in DOMAIN r

LEMMA PutRooted ==
    ASSUME NEW s, NEW k \in DOMAIN s, NEW e, NEW q, NEW r, Put(Storages, s, k, e, q),
           Rooted(s, r), \A n \in DOMAIN e.pages : e.pages[n] \in DOMAIN r
    PROVE  Rooted(q, r)
BY Zenon DEF Put, Rooted

LEMMA PutFields ==
    ASSUME NEW n, NEW m, NEW q
    PROVE  /\ [page_num |-> n, mutex |-> m, pages |-> q].page_num = n
           /\ [page_num |-> n, mutex |-> m, pages |-> q].mutex = m
           /\ [page_num |-> n, mutex |-> m, pages |-> q].pages = q
OBVIOUS

LEMMA MutexPutRooted ==
    ASSUME NEW s, NEW k \in DOMAIN s, NEW n, NEW m, NEW q, NEW r,
           Put(Storages, s, k, [page_num |-> n, mutex |-> m, pages |-> s[k].pages], q),
           Rooted(s, r)
    PROVE  Rooted(q, r)
<1>1. \A i \in DOMAIN s[k].pages : s[k].pages[i] \in DOMAIN r
  BY DEF Rooted
<1>2. QED
  BY <1>1, PutFields, PutRooted, Zenon

LEMMA PagesPutRooted ==
    ASSUME NEW s, NEW k \in DOMAIN s, NEW n, NEW m, NEW o, NEW q, NEW r,
           Put(Storages, s, k, [page_num |-> n, mutex |-> m, pages |-> o], q),
           Rooted(s, r), \A i \in DOMAIN o : o[i] \in DOMAIN r
    PROVE  Rooted(q, r)
<1> DEFINE e == [page_num |-> n, mutex |-> m, pages |-> o]
<1>1. e.pages = o
  OBVIOUS
<1> HIDE DEF e
<1>2. \A i \in DOMAIN e.pages : e.pages[i] \in DOMAIN r
  BY <1>1
<1>3. Put(Storages, s, k, e, q)
  BY DEF e
<1>4. QED
  BY <1>2, <1>3, PutRooted, Zenon

LEMMA StoragesKept ==
    ASSUME NEW t \in Threads, StateInv, StageOK(t), ~ Dangling(t), Proceed(t)
    PROVE  /\ tls' \in Seq(Storages)
           /\ Len(tls') >= Len(tls)
           /\ Rooted(tls', pages')
<1>1. tls \in Seq(Storages) /\ Len(tls) \in Nat
  BY DEF StateInv, StorageTypes
<1>2. \A p \in DOMAIN pages : p \in DOMAIN pages'
  BY PagesKept, Zenon
<1>3. Rooted(tls, pages')
  BY <1>2, Zenon DEF StateInv, Leads, Rooted
<1>4. \A k, e : Put(Storages, tls, k, e, tls') => tls' \in Seq(Storages) /\ Len(tls') >= Len(tls)
  BY <1>1 DEF Put
<1>5. CASE UNCHANGED tls
  BY <1>1, <1>3, <1>5
<1>6. CASE Publish(t)
  <2>1. /\ tls' \in Seq(Storages)
        /\ Len(tls') = Len(tls) + 1
        /\ tls'[Len(tls) + 1] = FreshTLS
        /\ \A s \in DOMAIN tls : s \in DOMAIN tls' /\ tls'[s] = tls[s]
        /\ DOMAIN tls' = DOMAIN tls \cup {Len(tls) + 1}
    BY <1>6, PublishStep, Zenon
  <2>2. DOMAIN FreshTLS.pages = {}
    BY DEF FreshTLS
  <2>3. Rooted(tls', pages')
    BY <1>3, <2>1, <2>2, Zenon DEF Rooted
  <2>4. QED
    BY <1>1, <2>1, <2>3
<1>7. CASE Fields(t)
  BY <1>3, <1>4, <1>7, FieldsStep, MutexPutRooted, Zenon
<1>8. CASE Lock(t)
  BY <1>3, <1>4, <1>8, LockStep, MutexPutRooted, Zenon
<1>9. CASE Unlock(t)
  BY <1>3, <1>4, <1>9, UnlockStep, MutexPutRooted, Zenon
<1>10. CASE UnlockOther(t)
  BY <1>3, <1>4, <1>10, UnlockOtherStep, MutexPutRooted, Zenon
<1>11. CASE LockOther(t)
  <2>1. /\ tls' \in Seq(Storages) /\ Len(tls') = Len(tls) /\ DOMAIN tls' = DOMAIN tls
        /\ \A s \in DOMAIN tls : tls'[s].pages = IF s = Own(t) THEN <<>> ELSE tls[s].pages
    BY <1>11, LockOtherStep
  <2>2. Rooted(tls', pages')
    BY <1>3, <2>1 DEF Rooted
  <2>3. QED
    BY <1>1, <2>1, <2>2
<1>12. CASE NewPages(t)
  <2> DEFINE q == NewIds(call[t].numOfPages)
  <2>1. /\ Own(t) \in DOMAIN tls
        /\ Put(Storages, tls, Own(t), [page_num |-> tls[Own(t)].page_num,
                                       mutex |-> tls[Own(t)].mutex, pages |-> q], tls')
        /\ DOMAIN q = 1..call[t].numOfPages
        /\ \A n \in 1..call[t].numOfPages : q[n] = Len(pages) + n
        /\ DOMAIN pages' = 1..(Len(pages) + call[t].numOfPages)
    BY <1>12, NewPagesStep, Zenon
  <2>2. call[t].numOfPages \in Nat /\ Len(pages) \in Nat
    BY DEF StateInv, CallTypes, Calls, PageTypes
  <2> HIDE DEF q
  <2>3. \A n \in DOMAIN q : q[n] \in DOMAIN pages'
    BY <2>1, <2>2
  <2>4. QED
    BY <1>3, <1>4, <2>1, <2>3, PagesPutRooted, Zenon
<1>13. CASE Share(t)
  <2>2. PICK p : p = tls[Other(t)].pages[call[t].pageNum]
    OBVIOUS
  <2> DEFINE q == Append(tls[Own(t)].pages, p)
  <2>3. /\ Own(t) \in DOMAIN tls
        /\ p \in DOMAIN pages
        /\ Put(Storages, tls, Own(t), [page_num |-> tls[Own(t)].page_num,
                                       mutex |-> tls[Own(t)].mutex, pages |-> q], tls')
    BY <1>13, <2>2, ShareStep, Zenon
  <2>4. tls[Own(t)].pages \in Seq(Nat)
    BY <1>1, <2>3, ElementIn, StorageFields
  <2>5. \A i \in DOMAIN tls[Own(t)].pages : tls[Own(t)].pages[i] \in DOMAIN pages'
    BY <1>3, <2>3 DEF Rooted
  <2>6. p \in DOMAIN pages'
    BY <1>2, <2>3
  <2>7. \A i \in DOMAIN q : q[i] \in DOMAIN pages'
    <3>1. PICK o \in Seq(Nat) : o = tls[Own(t)].pages
      BY <2>4
    <3>2. \A i \in DOMAIN o : o[i] \in DOMAIN pages'
      BY <2>5, <3>1
    <3>3. \A i \in DOMAIN Append(o, p) : Append(o, p)[i] \in DOMAIN pages'
      BY <2>6, <3>2
    <3>4. QED
      BY <3>1, <3>3
  <2> HIDE DEF q
  <2>8. QED
    BY <1>3, <1>4, <2>3, <2>7, PagesPutRooted, Zenon
<1>14. CASE Install(t)
  <2>1. PICK o : o = tls[Own(t)].pages
    OBVIOUS
  <2> DEFINE q == [o EXCEPT ![call[t].pageNum] = Len(pages) + 1]
  <2>2. /\ Own(t) \in DOMAIN tls
        /\ call[t].pageNum \in DOMAIN o
        /\ Put(Storages, tls, Own(t), [page_num |-> tls[Own(t)].page_num,
                                       mutex |-> tls[Own(t)].mutex, pages |-> q], tls')
        /\ DOMAIN pages' = DOMAIN pages \cup {Len(pages) + 1}
    BY <1>14, <2>1, InstallStep, Zenon
  <2>3. \A i \in DOMAIN o : o[i] \in DOMAIN pages'
    BY <1>3, <2>1, <2>2 DEF Rooted
  <2>4. \A i \in DOMAIN q : q[i] \in DOMAIN pages'
    BY <2>2, <2>3
  <2> HIDE DEF q
  <2>5. QED
    BY <1>3, <1>4, <2>2, <2>4, PagesPutRooted, Zenon
<1>15. QED
  BY <1>5, <1>6, <1>7, <1>8, <1>9, <1>10, <1>11, <1>12, <1>13, <1>14,
     StorageActions, Zenon

LEMMA ProceedsOn ==
    ASSUME NEW t \in Threads, StateInv, StageOK(t), ~ Dangling(t), Proceed(t), calls' = calls
    PROVE  CallsOn(t)
<1>1. CallTypes /\ TableTypes
  BY DEF StateInv
<1>2. CASE Rewrites(t)
  BY <1>1, <1>2, LooksUp, LoadsMaxOn, EndsLookUpOn, ChecksOn, ReturnsOn, LoadsCountOn,
     CountsOn, CopiesOn, ClosesOn, Zenon DEF Rewrites
<1>3. CASE ~ Rewrites(t)
  <2>1. call' = call
    BY <1>3, CallActions, Zenon
  <2>2. pc'[t] \in Stages /\ StageOK(t)'
    BY <1>1, <1>3, <2>1, StageKept, Zenon
  <2>3. QED
    BY <1>1, <2>1, <2>2, Zenon DEF CallsOn, CallTypes
<1>4. QED
  BY <1>2, <1>3

LEMMA StageOthers ==
    ASSUME NEW u \in Threads, StageOK(u), pc'[u] = pc[u], call'[u] = call[u],
           calls'[u] = calls[u]
    PROVE  StageOK(u)'
BY DEF StageOK

LEMMA PcIsFunction ==
    ASSUME NEW t \in Threads, CallTypes, Proceed(t)
    PROVE  pc' = [u \in Threads |-> pc'[u]]
<1>1. \A stage : Goto(t, stage) => pc' = [u \in Threads |-> pc'[u]]
  BY DEF Goto, CallTypes
<1>2. \A from, to : Moves(t, from, to) => pc' = [u \in Threads |-> pc'[u]]
  BY <1>1, Zenon DEF Moves
<1>3. UNCHANGED pc => pc' = [u \in Threads |-> pc'[u]]
  BY DEF CallTypes
<1>4. \A p : sfHandle(t, p) => pc' = [u \in Threads |-> pc'[u]]
  BY <1>1, <1>3, Zenon DEF sfHandle
<1>5. \A c : EndLookUp(t, c) => pc' = [u \in Threads |-> pc'[u]]
  BY <1>1, Zenon DEF EndLookUp
<1>6. CASE FirstCall(t) \/ InitDone(t) \/ Scan(t) \/ LoadMax(t) \/ TakeEntry(t)
       \/ ClearNext(t) \/ Check(t) \/ Return(t)
  BY <1>1, <1>2, <1>5, <1>6, Zenon
     DEF FirstCall, InitDone, Scan, LoadMax, TakeEntry, ClearNext, Check, Return
<1>7. CASE SetTid(t) \/ Publish(t) \/ Fields(t) \/ NewPages(t)
       \/ Lock(t) \/ LockOther(t) \/ Share(t) \/ Count(t) \/ Unlock(t) \/ UnlockOther(t)
  BY <1>1, <1>2, <1>7, Zenon DEF SetTid, Publish, Fields, NewPages, Lock, LockOther, Share, Count,
     Unlock, UnlockOther
<1>8. CASE Open(t) \/ RefTest(t) \/ LoadCount(t) \/ Decrement(t) \/ Install(t) \/ OpenOld(t)
  BY <1>1, <1>2, <1>8, Zenon DEF Open, RefTest, LoadCount, Decrement, Install, OpenOld
<1>9. CASE CopyOld(t) \/ CloseOld(t) \/ Refuse(t) \/ Copy(t) \/ Close(t)
  BY <1>1, <1>2, <1>4, <1>9, Zenon DEF CopyOld, CloseOld, Refuse, Copy, Close
<1>10. QED
  BY <1>6, <1>7, <1>8, <1>9, Zenon DEF Proceed, Rewrites

LEMMA CrashedKept ==
    ASSUME NEW t \in Threads, CallTypes, Proceed(t)
    PROVE  crashed' \in {crashed, t}
<1>1. \A p : sfHandle(t, p) => crashed' \in {crashed, t}
  BY Zenon DEF sfHandle, Crash
<1>2. CASE CopyOld(t) \/ Copy(t)
  BY <1>1, <1>2, Zenon DEF CopyOld, Copy
<1>3. CASE ~ (CopyOld(t) \/ Copy(t))
  <2>1. UNCHANGED crashed
    BY <1>3, Zenon DEF Proceed, FirstCall, InitDone, Scan, LoadMax, TakeEntry, ClearNext,
       Check, Return, SetTid, Publish, Fields, NewPages, Lock, LockOther, Share, Count,
       Unlock, UnlockOther, Open, RefTest, LoadCount, Decrement, Install, OpenOld, CloseOld,
       Refuse, Close
  <2>2. QED
    BY <2>1
<1>4. QED
  BY <1>2, <1>3

LEMMA CallsKept ==
    ASSUME NEW t \in Threads, StateInv, StageInv, ~ Dangling(t), Proceed(t),
           calls' = calls
    PROVE  CallTypes' /\ StageInv'
<1>1. CallTypes /\ StageOK(t)
  BY Zenon DEF StateInv, StageInv
<1>2. CallsOn(t)
  BY <1>1, ProceedsOn, Zenon
<1>3. \A u \in Threads \ {t} : pc'[u] = pc[u] /\ call'[u] = call[u] /\ calls'[u] = calls[u]
  BY <1>1, PcOfOthers, CallOfOthers, Zenon
<1>4. \A u \in Threads : StageOK(u)'
  BY <1>2, <1>3, StageOthers, Zenon DEF StageInv, CallsOn
<1>5. \A u \in Threads : pc'[u] \in Stages
  BY <1>1, <1>2, <1>3 DEF CallsOn, CallTypes
<1>6. pc' \in [Threads -> Stages]
  BY <1>1, <1>5, PcIsFunction
<1>7. crashed' \in Threads \cup {NoThread}
  BY <1>1, CrashedKept DEF CallTypes
<1>8. CallTypes'
  BY <1>1, <1>2, <1>6, <1>7 DEF CallTypes, CallsOn
<1>9. QED
  BY <1>4, <1>8, Zenon DEF StageInv

LEMMA BuffersKept ==
    ASSUME NEW t \in Threads, StateInv, StageOK(t), ~ Dangling(t), Proceed(t)
    PROVE  BufferTypes'
<1>1. buffer \in [Threads -> Seq(Byte)]
  BY DEF StateInv, BufferTypes
<1>2. CASE Return(t)
  <2>1. buffer' = [buffer EXCEPT ![t] = <<>>]
    BY <1>2 DEF Return
  <2>2. QED
    BY <1>1, <2>1 DEF BufferTypes
<1>3. CASE Copy(t)
  <2>1. \/ UNCHANGED buffer
        \/ \E bytes \in Seq(Byte) : buffer' = [buffer EXCEPT ![t] = @ \o bytes]
    BY <1>3, CopyStep, Zenon
  <2>2. ASSUME NEW bytes \in Seq(Byte), buffer' = [buffer EXCEPT ![t] = @ \o bytes]
        PROVE  buffer' \in [Threads -> Seq(Byte)]
    <3>1. buffer[t] \o bytes \in Seq(Byte)
      BY <1>1
    <3>2. QED
      BY <1>1, <2>2, <3>1
  <2>3. QED
    BY <1>1, <2>1, <2>2 DEF BufferTypes
<1>4. CASE ~ (Return(t) \/ Copy(t))
  <2>1. UNCHANGED buffer
    BY <1>4, Zenon DEF Proceed, FirstCall, InitDone, Scan, LoadMax, TakeEntry, ClearNext,
       Check, SetTid, Publish, Fields, NewPages, Lock, LockOther, Share, Count,
       Unlock, UnlockOther, Open, RefTest, LoadCount, Decrement, Install, OpenOld, CopyOld,
       CloseOld, Refuse, Close
  <2>2. QED
    BY <1>1, <2>1 DEF BufferTypes
<1>5. QED
  BY <1>2, <1>3, <1>4
----------------------------------------------------------------------------
(* Entries are paid for. *)

(* How a call comes on, seen from its look-ups. *)
Onward(t) ==
    \/ pc'[t] \in Settled
    \/ call'[t].look = call[t].look /\ (pc[t] \notin Searching => pc'[t] \notin Searching)
    \/ call[t].look = "self" /\ call'[t].look = "of"

LEMMA NotSettled ==
    ASSUME NEW t \in Threads, Proceed(t)
    PROVE  pc[t] \notin Settled
BY DEF Settled, Proceed, Moves, FirstCall, InitDone, Scan, LoadMax, TakeEntry, ClearNext,
   Check, Return, SetTid, Publish, Fields, NewPages, Lock, LockOther, Share, Count,
   Unlock, UnlockOther, Open, RefTest, LoadCount, Decrement, Install, OpenOld, CopyOld,
   CloseOld, Refuse, Copy, Close

LEMMA OnwardKept ==
    ASSUME NEW t \in Threads, CallTypes, StageOK(t), Proceed(t), call'[t] = call[t],
           ~ Rewrites(t)
    PROVE  Onward(t)
<1> USE MovesTo, GoesTo DEF Onward, Searching, Settled
<1>1. CASE FirstCall(t) \/ InitDone(t) \/ TakeEntry(t)
  BY <1>1 DEF FirstCall, InitDone, TakeEntry
<1>2. CASE SetTid(t) \/ Publish(t) \/ Fields(t)
  BY <1>2 DEF SetTid, Publish, Fields
<1>3. CASE Lock(t)
  <2>1. call[t].op \in {"create", "read", "write", "clone"}
    BY <1>3 DEF CallTypes, Calls, StageOK, Settled, Lock
  <2>2. pc'[t] = CASE call[t].op = "create" -> "newPages"
                   [] call[t].op = "clone"  -> "lockOther"
                   [] call[t].op = "read"   -> "open"
                   [] call[t].op = "write"  -> "refTest"
    BY <1>3, GoesTo, Zenon DEF Lock
  <2>3. QED
    BY <2>1, <2>2
<1>4. CASE NewPages(t) \/ LockOther(t)
  BY <1>4 DEF NewPages, LockOther
<1>5. CASE Unlock(t) \/ UnlockOther(t)
  BY <1>5 DEF Unlock, UnlockOther
<1>6. CASE Open(t) \/ RefTest(t)
  BY <1>6 DEF Open, RefTest
<1>7. CASE Decrement(t) \/ Install(t) \/ OpenOld(t) \/ CloseOld(t)
  BY <1>7 DEF Decrement, Install, OpenOld, CloseOld
<1>8. CASE CopyOld(t)
  BY <1>8, Handled DEF CopyOld
<1>9. CASE Refuse(t)
  BY <1>9 DEF Refuse, AfterRefusal
<1>10. QED
  BY <1>1, <1>2, <1>3, <1>4, <1>5, <1>6, <1>7, <1>8, <1>9, Zenon DEF Proceed, Rewrites

LEMMA OnwardLookUp ==
    ASSUME NEW t \in Threads, CallTypes, NEW c \in Calls, EndLookUp(t, c),
           c.look = call[t].look
    PROVE  Onward(t)
<1>1. IF c.op = "clone" /\ c.look = "self"
      THEN call'[t] = [c EXCEPT !.look = "of"] /\ pc'[t] = "firstCall"
      ELSE call'[t] = c /\ pc'[t] = "check"
  BY EndsLookUp, Zenon
<1>2. PICK d : d = [c EXCEPT !.look = "of"]
  OBVIOUS
<1>3. d.look = "of"
  BY <1>2, TurnsToOther, Zenon
<1>4. QED
  BY <1>1, <1>2, <1>3 DEF Onward, Searching

LEMMA OnwardStep ==
    ASSUME NEW t \in Threads, StateInv, StageOK(t), ~ Dangling(t), Proceed(t), calls' = calls
    PROVE  Onward(t)
<1>1. CallTypes /\ TableTypes /\ call[t] \in Calls /\ maxIndex \in Slots
  BY DEF StateInv, CallTypes, TableTypes
<1>2. CASE Scan(t)
  <2>1. ASSUME NEW i \in Slots
        PROVE  KeepIndex(call[t], i) \in Calls /\ KeepIndex(call[t], i).look = call[t].look
    <3>1. \A f \in {"op", "size", "offset", "length", "of", "look", "numOfPages",
                    "pageNum", "done", "old"} : KeepIndex(call[t], i)[f] = call[t][f]
      BY <1>1, KeptIndex, Zenon
    <3>2. KeepIndex(call[t], i) \in Calls
      BY <1>1, KeptIndex, Zenon
    <3> HIDE DEF Calls
    <3>3. QED
      BY <3>1, <3>2
  <2>2. CASE \E i \in Slots : EndLookUp(t, KeepIndex(call[t], i))
    BY <1>1, <2>1, <2>2, OnwardLookUp, Zenon
  <2>3. CASE call' = [call EXCEPT ![t] = KeepIndex(call[t], maxIndex)]
    <3>1. call'[t] = KeepIndex(call[t], maxIndex)
      BY <1>1, <2>3 DEF CallTypes
    <3>2. pc[t] = "scan"
      BY <1>2 DEF Scan
    <3>3. QED
      BY <1>1, <2>1, <3>1, <3>2 DEF Onward, Searching
  <2>4. QED
    BY <1>1, <1>2, <2>2, <2>3, ScanStep, Zenon
<1>3. CASE ClearNext(t)
  BY <1>1, <1>3, OnwardLookUp, Zenon DEF ClearNext
<1>4. CASE Check(t)
  <2>1. CASE Refused(t)
    BY <1>4, <2>1, CheckStep DEF Onward, Searching
  <2>2. CASE ~ Refused(t)
    <3>1. /\ call'[t] = [call[t] EXCEPT !.numOfPages = NumOfPages(t)]
          /\ pc'[t] = IF call[t].op \in {"create", "clone"} THEN "setTid" ELSE "lock"
      BY <1>4, <2>2, CheckStep
    <3>2. call'[t].look = call[t].look
      BY <1>1, <3>1 DEF Calls
    <3>3. QED
      BY <3>1, <3>2 DEF Onward, Searching
  <2>3. QED
    BY <2>1, <2>2
<1>5. CASE Return(t)
  <2>1. pc'[t] = "idle"
    BY <1>1, <1>5, ReturnsOn
  <2>2. QED
    BY <2>1 DEF Onward, Settled
<1>6. CASE LoadMax(t) \/ Share(t) \/ LoadCount(t) \/ Count(t)
  <2>1. CASE LoadMax(t)
    BY <1>1, <2>1, LoadsMaxOn DEF Onward, Searching
  <2>2. CASE Share(t) \/ LoadCount(t)
    BY <2>2, LoadsCountOn DEF Onward, Searching
  <2>3. CASE Count(t)
    BY <2>3, CountsOn DEF Onward, Searching
  <2>4. QED
    BY <1>6, <2>1, <2>2, <2>3
<1>7. CASE Copy(t)
  <2>1. CASE ~ Allows(pages[Page(t)].prot, call[t].op)
    <3>1. sfHandle(t, Page(t)) /\ call' = call
      BY <1>7, <2>1, CopyStep
    <3>2. pc'[t] \in {pc[t], "exited"}
      BY <1>1, <3>1, Handled, Zenon
    <3>3. QED
      BY <3>1, <3>2 DEF Onward, Settled
  <2>2. CASE Allows(pages[Page(t)].prot, call[t].op)
    <3>1. call' = [call EXCEPT ![t].done = @ + Portion(t)] /\ Goto(t, "close")
      BY <1>7, <2>2, CopyStep
    <3>2. pc'[t] = "close"
      BY <1>1, <3>1, GoesTo, Zenon
    <3>3. PICK d : d = [call[t] EXCEPT !.done = @ + Portion(t)]
      OBVIOUS
    <3>4. d.look = call[t].look
      BY <1>1, <3>3 DEF Calls
    <3>5. call' = [call EXCEPT ![t] = d]
      BY <3>1, <3>3
    <3>6. call'[t] = d
      BY <1>1, <3>5 DEF CallTypes
    <3>7. QED
      BY <3>2, <3>4, <3>6 DEF Onward, Searching
  <2>3. QED
    BY <2>1, <2>2
<1>8. CASE Close(t)
  <2>1. call' = call \/ call' = [call EXCEPT ![t].pageNum = @ + 1]
    BY <1>8, Zenon DEF Close
  <2>2. Goto(t, "unlock") \/ Goto(t, IF call[t].op = "read" THEN "open" ELSE "refTest")
    BY <1>8, Zenon DEF Close
  <2>3. pc'[t] \in {"unlock", "open", "refTest"}
    <3>1. pc'[t] = "unlock" \/ pc'[t] = IF call[t].op = "read" THEN "open" ELSE "refTest"
      BY <1>1, <2>2, GoesTo, Zenon
    <3>2. QED
      BY <3>1
  <2>4. PICK d : d = [call[t] EXCEPT !.pageNum = @ + 1]
    OBVIOUS
  <2>5. d.look = call[t].look
    BY <1>1, <2>4 DEF Calls
  <2>6. call' = call \/ call' = [call EXCEPT ![t] = d]
    BY <2>1, <2>4
  <2>7. call'[t] \in {call[t], d}
    BY <1>1, <2>6 DEF CallTypes
  <2>8. QED
    BY <2>3, <2>5, <2>7 DEF Onward, Searching
<1>9. CASE ~ Rewrites(t)
  <2>1. call' = call
    BY <1>9, CallActions, Zenon
  <2>2. QED
    BY <1>1, <1>9, <2>1, OnwardKept, Zenon
<1>10. QED
  BY <1>2, <1>3, <1>4, <1>5, <1>6, <1>7, <1>8, <1>9, Zenon DEF Rewrites

(* What is spent stays spent. *)
LEMMA SpentOnward ==
    ASSUME NEW t \in Threads, NEW n, NEW look \in {"self", "of"},
           pc[t] \notin Settled, Onward(t), calls'[t] = calls[t], Spent(t, n, look)
    PROVE  Spent(t, n, look)'
BY DEF Spent, Onward

LEMMA SpentOthers ==
    ASSUME NEW u \in Threads, NEW n, NEW look,
           pc'[u] = pc[u], call'[u] = call[u], calls'[u] = calls[u], Spent(u, n, look)
    PROVE  Spent(u, n, look)'
BY DEF Spent

(* The next call is made when the last has ended. *)
LEMMA SpentBegin ==
    ASSUME NEW t \in Threads, CallTypes, NEW n \in Nat, NEW look,
           calls'[t] = calls[t] + 1, Spent(t, n, look)
    PROVE  Spent(t, n, look)'
<1>1. calls[t] \in Nat
  BY TLSAssumption DEF CallTypes
<1>2. n < calls[t] + 1
  BY <1>1 DEF Spent
<1>3. QED
  BY <1>2 DEF Spent

LEMMA TokensFinite ==
    /\ IsFiniteSet(Tokens)
    /\ Cardinality(Tokens) = Cardinality(Threads) * (CALL_LIMIT * 2)
    /\ Cardinality(Tokens) < MAX_THREADS
<1>1. CALL_LIMIT \in Nat /\ IsFiniteSet(Threads) /\ MAX_THREADS \in Nat
      /\ MAX_THREADS > 2 * CALL_LIMIT * Cardinality(Threads)
  BY TLSAssumption
<1>2. IsFiniteSet(1..CALL_LIMIT) /\ Cardinality(1..CALL_LIMIT) = CALL_LIMIT
  BY <1>1, FS_Interval
<1>3. IsFiniteSet({"self", "of"}) /\ Cardinality({"self", "of"}) = 2
  <2>1. IsFiniteSet({"self"}) /\ Cardinality({"self"}) = 1
    BY FS_Singleton, Zenon
  <2>2. /\ IsFiniteSet({"self"} \cup {"of"})
        /\ Cardinality({"self"} \cup {"of"}) =
             IF "of" \in {"self"} THEN Cardinality({"self"}) ELSE Cardinality({"self"}) + 1
    BY <2>1, FS_AddElement, Zenon
  <2>3. {"self"} \cup {"of"} = {"self", "of"}
    OBVIOUS
  <2>4. "of" \notin {"self"}
    OBVIOUS
  <2>5. QED
    BY <2>1, <2>2, <2>3, <2>4
<1>4. /\ IsFiniteSet((1..CALL_LIMIT) \X {"self", "of"})
      /\ Cardinality((1..CALL_LIMIT) \X {"self", "of"}) = CALL_LIMIT * 2
  <2>1. Cardinality((1..CALL_LIMIT) \X {"self", "of"})
            = Cardinality(1..CALL_LIMIT) * Cardinality({"self", "of"})
        /\ IsFiniteSet((1..CALL_LIMIT) \X {"self", "of"})
    BY <1>2, <1>3, FS_Product, Zenon
  <2>2. QED
    BY <1>2, <1>3, <2>1
<1>5. Cardinality(Threads) \in Nat
  BY <1>1, FS_CardinalityType
<1>6. QED
  <2>1. Cardinality(Tokens) = Cardinality(Threads) * Cardinality((1..CALL_LIMIT) \X {"self", "of"})
        /\ IsFiniteSet(Tokens)
    BY <1>1, <1>4, FS_Product, Zenon DEF Tokens
  <2>2. Cardinality(Tokens) = Cardinality(Threads) * (CALL_LIMIT * 2)
    BY <1>4, <2>1
  <2>3. \A a, b \in Nat : a * (b * 2) = 2 * b * a
    OBVIOUS
  <2>4. QED
    BY <1>1, <1>5, <2>1, <2>2, <2>3

(* An entry is taken with a look-up that has taken none before. *)
LEMMA EntriesTaken ==
    ASSUME NEW t \in Threads, StateInv, StageOK(t), EntriesInv, TakeEntry(t), calls' = calls,
           \A u \in Threads, n \in 1..CALL_LIMIT, look \in {"self", "of"} :
                Spent(u, n, look) => Spent(u, n, look)'
    PROVE  EntriesInv' /\ maxIndex' \in Slots
<1>1. PICK taken \in SUBSET Tokens :
        /\ maxIndex <= Cardinality(taken)
        /\ \A u \in Threads : pc[u] = "takeEntry" =>
            0 <= call[u].loaded /\ call[u].loaded <= Cardinality(taken)
        /\ \A u \in Threads, n \in 1..CALL_LIMIT, look \in {"self", "of"} :
            <<u, <<n, look>>>> \in taken => Spent(u, n, look)
  BY Zenon DEF EntriesInv
<1>a. PICK m : m = calls[t]
  OBVIOUS
<1>b. PICK l : l = call[t].look
  OBVIOUS
<1> DEFINE x == <<t, <<m, l>>>>
<1>2. /\ pc[t] = "takeEntry" /\ pc'[t] = "clearNext"
      /\ maxIndex' = call[t].loaded + 1
      /\ call' = call
      /\ \A u \in Threads \ {t} : pc'[u] = pc[u]
  BY MovesTo DEF TakeEntry, StateInv, Moves, Goto, CallTypes
<1>3. m \in 1..CALL_LIMIT /\ l \in {"self", "of"}
  BY <1>2, <1>a, <1>b DEF StateInv, CallTypes, Calls, StageOK, Settled
<1>4. ~ Spent(t, m, l) /\ Spent(t, m, l)'
  <2>1. m \in Int
    BY <1>3
  <2>2. ~ (m < m)
    BY <2>1
  <2>3. QED
    BY <1>2, <1>3, <1>a, <1>b, <2>2 DEF Spent, Searching, Settled
<1>5. x \in Tokens /\ x \notin taken
  BY <1>1, <1>3, <1>4, Zenon DEF Tokens
<1>6. IsFiniteSet(taken) /\ Cardinality(taken) <= Cardinality(Tokens)
      /\ (Cardinality(Tokens) = Cardinality(taken) => Tokens = taken)
  BY TokensFinite, FS_Subset, Zenon
<1>7. Cardinality(taken \cup {x}) = Cardinality(taken) + 1
  <2>1. Cardinality(taken \cup {x}) = IF x \in taken THEN Cardinality(taken)
                                      ELSE Cardinality(taken) + 1
    BY <1>6, FS_AddElement, Zenon
  <2>2. QED
    BY <1>5, <2>1
<1>c. PICK k : k = call[t].loaded
  OBVIOUS
<1>d. /\ k \in Int /\ 0 <= k /\ k <= Cardinality(taken)
      /\ maxIndex' = k + 1 /\ Cardinality(taken) \in Nat
      /\ \A u \in Threads : call[u].loaded \in Int
  <2>1. Cardinality(taken) \in Nat
    BY <1>6, FS_CardinalityType
  <2>2. \A u \in Threads : call[u].loaded \in Int
    BY DEF StateInv, CallTypes, Calls
  <2>3. QED
    BY <1>1, <1>2, <1>c, <2>1, <2>2
<1>8. taken \cup {x} \in SUBSET Tokens
  BY <1>5
<1>9. \A u \in Threads, n \in 1..CALL_LIMIT, look \in {"self", "of"} :
            <<u, <<n, look>>>> \in taken \cup {x} => Spent(u, n, look)'
  <2>1. SUFFICES ASSUME NEW u \in Threads, NEW n \in 1..CALL_LIMIT, NEW look \in {"self", "of"},
                        <<u, <<n, look>>>> \in taken \cup {x}
                 PROVE  Spent(u, n, look)'
    BY Zenon
  <2>2. CASE <<u, <<n, look>>>> \in taken
    BY <1>1, <2>2, Zenon
  <2>3. CASE <<u, <<n, look>>>> = x
    <3>1. u = t /\ n = m /\ look = l
      BY <2>3
    <3>2. QED
      BY <1>4, <3>1
  <2>4. QED
    BY <2>1, <2>2, <2>3
<1>10. EntriesInv'
  <2>1. maxIndex' <= Cardinality(taken \cup {x})
    BY <1>7, <1>d
  <2>2. \A u \in Threads : pc'[u] = "takeEntry" =>
            0 <= call'[u].loaded /\ call'[u].loaded <= Cardinality(taken \cup {x})
    <3>1. SUFFICES ASSUME NEW u \in Threads, pc'[u] = "takeEntry"
                   PROVE  /\ 0 <= call'[u].loaded
                          /\ call'[u].loaded <= Cardinality(taken \cup {x})
      OBVIOUS
    <3>2. pc[u] = "takeEntry" /\ call'[u] = call[u]
      BY <1>2, <3>1
    <3>3. PICK v \in Int : v = call[u].loaded
      BY <1>d
    <3>4. 0 <= v /\ v <= Cardinality(taken)
      BY <1>1, <3>2, <3>3, Zenon
    <3>5. v <= Cardinality(taken \cup {x})
      BY <1>7, <1>d, <3>4
    <3>6. QED
      BY <3>2, <3>3, <3>4, <3>5, Zenon
  <2>3. QED
    BY <1>8, <1>9, <2>1, <2>2, Zenon DEF EntriesInv, Tokens
<1>11. maxIndex' \in Slots
  <2>1. Cardinality(taken \cup {x}) <= Cardinality(Tokens)
    BY <1>8, TokensFinite, FS_Subset, Zenon
  <2>2. MAX_THREADS \in Nat /\ Cardinality(Tokens) \in Nat
    BY TokensFinite, TLSAssumption, FS_CardinalityType
  <2>3. k + 1 < MAX_THREADS
    BY <1>7, <1>d, <2>1, <2>2, TokensFinite
  <2>4. QED
    BY <1>d, <2>2, <2>3 DEF Slots
<1>12. QED
  BY <1>10, <1>11

LEMMA EntriesSame ==
    ASSUME EntriesInv, maxIndex' = maxIndex, maxIndex \in Slots,
           \A u \in Threads : pc'[u] = "takeEntry" =>
                \/ pc[u] = "takeEntry" /\ call'[u].loaded = call[u].loaded
                \/ call'[u].loaded = maxIndex,
           \A u \in Threads, n \in 1..CALL_LIMIT, look \in {"self", "of"} :
                Spent(u, n, look) => Spent(u, n, look)'
    PROVE  EntriesInv'
<1>1. PICK taken \in SUBSET Tokens :
        /\ maxIndex <= Cardinality(taken)
        /\ \A u \in Threads : pc[u] = "takeEntry" =>
            0 <= call[u].loaded /\ call[u].loaded <= Cardinality(taken)
        /\ \A u \in Threads, n \in 1..CALL_LIMIT, look \in {"self", "of"} :
            <<u, <<n, look>>>> \in taken => Spent(u, n, look)
  BY Zenon DEF EntriesInv
<1>2. 0 <= maxIndex
  BY TLSAssumption DEF Slots
<1>3. \A u \in Threads : pc'[u] = "takeEntry" =>
            0 <= call'[u].loaded /\ call'[u].loaded <= Cardinality(taken)
  BY <1>1, <1>2, Zenon
<1>4. maxIndex' <= Cardinality(taken)
  BY <1>1
<1>5. \A u \in Threads, n \in 1..CALL_LIMIT, look \in {"self", "of"} :
            <<u, <<n, look>>>> \in taken => Spent(u, n, look)'
  BY <1>1, Zenon
<1>6. taken \in SUBSET (Tokens')
  BY <1>1 DEF Tokens
<1>7. QED
  BY <1>3, <1>4, <1>5, <1>6, ZenonT(60) DEF EntriesInv

(* Only the load of maxIndex leads to its store. *)
LEMMA OnlyLoadMax ==
    ASSUME NEW t \in Threads, CallTypes, StageOK(t), Proceed(t), pc'[t] = "takeEntry"
    PROVE  LoadMax(t)
<1> USE MovesTo, GoesTo
<1>1. CASE FirstCall(t) \/ InitDone(t) \/ TakeEntry(t)
  BY <1>1 DEF FirstCall, InitDone, TakeEntry
<1>2. \A c : EndLookUp(t, c) => pc'[t] # "takeEntry"
  <2>1. \A c : EndLookUp(t, c) => Goto(t, "firstCall") \/ Goto(t, "check")
    BY Zenon DEF EndLookUp
  <2>2. QED
    BY <2>1
<1>3. CASE Scan(t) \/ ClearNext(t)
  <2>1. CASE Scan(t)
    <3>1. (\E c : EndLookUp(t, c)) \/ Goto(t, "loadMax")
      BY <2>1, Zenon DEF Scan
    <3>2. QED
      BY <1>2, <3>1
  <2>2. CASE ClearNext(t)
    BY <1>2, <2>2, Zenon DEF ClearNext
  <2>3. QED
    BY <1>3, <2>1, <2>2
<1>4. CASE Check(t)
  BY <1>4 DEF Check
<1>5. CASE Return(t)
  BY <1>5 DEF Return
<1>6. CASE SetTid(t) \/ Publish(t) \/ Fields(t)
  BY <1>6 DEF SetTid, Publish, Fields
<1>7. CASE Lock(t)
  <2>1. call[t].op \in {"create", "read", "write", "clone"}
    BY <1>7 DEF CallTypes, Calls, StageOK, Settled, Lock
  <2>2. pc'[t] = CASE call[t].op = "create" -> "newPages"
                   [] call[t].op = "clone"  -> "lockOther"
                   [] call[t].op = "read"   -> "open"
                   [] call[t].op = "write"  -> "refTest"
    BY <1>7, GoesTo, Zenon DEF Lock
  <2>3. QED
    BY <2>1, <2>2
<1>8. CASE NewPages(t) \/ LockOther(t) \/ Share(t)
  BY <1>8 DEF NewPages, LockOther, Share
<1>9. CASE Count(t)
  BY <1>9 DEF Count
<1>10. CASE Unlock(t) \/ UnlockOther(t)
  BY <1>10 DEF Unlock, UnlockOther
<1>11. CASE Open(t) \/ RefTest(t) \/ LoadCount(t)
  BY <1>11 DEF Open, RefTest, LoadCount
<1>12. CASE Decrement(t) \/ Install(t) \/ OpenOld(t) \/ CloseOld(t)
  BY <1>12 DEF Decrement, Install, OpenOld, CloseOld
<1>13. CASE CopyOld(t)
  BY <1>13, Handled DEF CopyOld
<1>14. CASE Refuse(t)
  BY <1>14 DEF Refuse, AfterRefusal
<1>15. CASE Copy(t)
  <2>1. pc[t] = "copy" /\ (Goto(t, "close") \/ \E p : sfHandle(t, p))
    BY <1>15, Zenon DEF Copy
  <2>2. QED
    BY <2>1, Handled
<1>16. CASE Close(t)
  BY <1>16 DEF Close
<1>17. QED
  BY <1>1, <1>3, <1>4, <1>5, <1>6, <1>7, <1>8, <1>9, <1>10, <1>11, <1>12, <1>13, <1>14,
     <1>15, <1>16, Zenon DEF Proceed

(* The table itself. *)
LEMMA TableKept ==
    ASSUME NEW t \in Threads, StateInv, StageOK(t), EntriesInv, ~ Dangling(t), Proceed(t),
           calls' = calls
    PROVE  /\ EntriesInv'
           /\ TableTypes'
           /\ \A i \in Slots : ttpArray'[i].tls <= Len(tls')
<1>1. /\ ttpArray \in [Slots -> Entries]
      /\ maxIndex \in Slots /\ firstCall \in BOOLEAN
      /\ CallTypes
  BY DEF StateInv, TableTypes
<1>2. call[t].index \in Slots
  BY <1>1 DEF CallTypes, Calls
<1>3. \A i \in Slots : ttpArray[i].tls <= Len(tls)
  BY Zenon DEF StateInv, Leads
<1>4. Len(tls) \in Nat /\ Len(tls') \in Nat /\ Len(tls') >= Len(tls)
  <2>1. tls \in Seq(Storages) /\ tls' \in Seq(Storages) /\ Len(tls') >= Len(tls)
    BY StoragesKept, Zenon DEF StateInv, StorageTypes
  <2>2. QED
    BY <2>1, LenInNat, Zenon
<1>5. emptyTLS \in Entries /\ emptyTLS.tls = 0
  BY DEF emptyTLS, Entries
<1>6. \A i \in Slots : ttpArray[i].tls <= Len(tls') /\ ttpArray[i].tls \in Nat
  BY <1>1, <1>3, <1>4 DEF Entries
<1>7. \A u \in Threads, n \in 1..CALL_LIMIT, look \in {"self", "of"} :
            Spent(u, n, look) => Spent(u, n, look)'
  <2>1. Onward(t) /\ pc[t] \notin Settled /\ calls'[t] = calls[t]
    BY OnwardStep, NotSettled, Zenon
  <2>2. \A u \in Threads \ {t} : pc'[u] = pc[u] /\ call'[u] = call[u] /\ calls'[u] = calls[u]
    BY <1>1, PcOfOthers, CallOfOthers, Zenon
  <2>3. QED
    BY <2>1, <2>2, SpentOnward, SpentOthers, Zenon
<1>8. ASSUME maxIndex' = maxIndex PROVE EntriesInv'
  <2>1. \A u \in Threads \ {t} : pc'[u] = pc[u] /\ call'[u] = call[u]
    BY <1>1, PcOfOthers, CallOfOthers, Zenon
  <2>2. pc'[t] = "takeEntry" => call'[t].loaded = maxIndex
    <3>1. TableTypes
      BY DEF StateInv
    <3>2. QED
      BY <1>1, <3>1, OnlyLoadMax, LoadsMaxOn, Zenon
  <2>3. QED
    BY <1>1, <1>7, <1>8, <2>1, <2>2, EntriesSame, Zenon
<1>9. ASSUME NEW i \in Slots, ttpArray' = [ttpArray EXCEPT ![i] = emptyTLS]
      PROVE  /\ ttpArray' \in [Slots -> Entries]
             /\ \A j \in Slots : ttpArray'[j].tls <= Len(tls')
  <2>1. \A j \in Slots : ttpArray'[j] = IF i = j THEN emptyTLS ELSE ttpArray[j]
    BY <1>1, <1>9
  <2>2. ttpArray' \in [Slots -> Entries]
    BY <1>1, <1>5, <1>9
  <2> HIDE DEF emptyTLS, Entries
  <2>3. QED
    BY <1>4, <1>5, <1>6, <2>1, <2>2
<1>10. CASE FirstCall(t)
  <2>1. /\ ttpArray' = ttpArray \/ ttpArray' = [ttpArray EXCEPT ![0] = emptyTLS]
        /\ UNCHANGED <<firstCall, maxIndex>>
    BY <1>10, Zenon DEF FirstCall
  <2>2. QED
    BY <1>1, <1>6, <1>8, <1>9, <2>1, Entries0 DEF TableTypes
<1>11. CASE InitDone(t)
  <2>1. firstCall' = FALSE /\ UNCHANGED <<maxIndex, ttpArray>>
    BY <1>11 DEF InitDone
  <2>2. QED
    BY <1>1, <1>6, <1>8, <2>1 DEF TableTypes
<1>12. CASE TakeEntry(t)
  <2>1. UNCHANGED <<firstCall, ttpArray>>
    BY <1>12 DEF TakeEntry
  <2>2. EntriesInv' /\ maxIndex' \in Slots
    BY <1>7, <1>12, EntriesTaken, Zenon
  <2>3. QED
    BY <1>1, <1>6, <2>1, <2>2 DEF TableTypes
<1>13. CASE ClearNext(t)
  <2>1. /\ ttpArray' = [ttpArray EXCEPT ![maxIndex] = emptyTLS]
        /\ UNCHANGED <<firstCall, maxIndex>>
    BY <1>13 DEF ClearNext
  <2>2. QED
    BY <1>1, <1>8, <1>9, <2>1 DEF TableTypes
<1>14. CASE SetTid(t)
  <2>1. /\ ttpArray' = [ttpArray EXCEPT ![call[t].index].tid = t]
        /\ UNCHANGED <<firstCall, maxIndex>>
    BY <1>14 DEF SetTid
  <2>2. PICK i \in Slots : i = call[t].index
    BY <1>2
  <2>3. ttpArray' \in [Slots -> Entries]
        /\ \A j \in Slots : ttpArray'[j].tls = ttpArray[j].tls
    BY <1>1, <2>1, <2>2 DEF Entries
  <2>4. QED
    BY <1>1, <1>6, <1>8, <2>1, <2>3 DEF TableTypes
<1>15. CASE Publish(t)
  <2>1. /\ ttpArray' = [ttpArray EXCEPT ![call[t].index].tls = Len(tls) + 1]
        /\ UNCHANGED <<firstCall, maxIndex>>
    BY <1>15 DEF Publish
  <2>2. PICK i \in Slots : i = call[t].index
    BY <1>2
  <2>3. PICK n \in Nat : n = Len(tls) + 1
    BY <1>4
  <2>4. ttpArray' \in [Slots -> Entries]
        /\ \A j \in Slots : ttpArray'[j].tls = IF i = j THEN n ELSE ttpArray[j].tls
    BY <1>1, <2>1, <2>2, <2>3 DEF Entries
  <2>5. Len(tls') = n
    BY <1>15, <2>3, PublishStep, Zenon
  <2>6. QED
    BY <1>1, <1>4, <1>6, <1>8, <2>1, <2>3, <2>4, <2>5 DEF TableTypes
<1>16. CASE UNCHANGED <<firstCall, maxIndex, ttpArray>>
  BY <1>1, <1>6, <1>8, <1>16 DEF TableTypes
<1>17. QED
  BY <1>10, <1>11, <1>12, <1>13, <1>14, <1>15, <1>16, TableActions, Zenon

LEMMA NotFromOutside ==
    ASSUME NEW t \in Threads, CallTypes, StageOK(t), Proceed(t), call'[t] = call[t],
           ~ Rewrites(t),
           pc'[t] \in Replacing
    PROVE  pc[t] \in Replacing
<1> USE MovesTo, GoesTo DEF Replacing
<1>1. CASE FirstCall(t) \/ InitDone(t) \/ TakeEntry(t)
  BY <1>1 DEF FirstCall, InitDone, TakeEntry
<1>2. CASE SetTid(t) \/ Publish(t) \/ Fields(t)
  BY <1>2 DEF SetTid, Publish, Fields
<1>3. CASE Lock(t)
  <2>1. call[t].op \in {"create", "read", "write", "clone"}
    BY <1>3 DEF CallTypes, Calls, StageOK, Settled, Lock
  <2>2. pc'[t] = CASE call[t].op = "create" -> "newPages"
                   [] call[t].op = "clone"  -> "lockOther"
                   [] call[t].op = "read"   -> "open"
                   [] call[t].op = "write"  -> "refTest"
    BY <1>3, GoesTo, Zenon DEF Lock
  <2>3. QED
    BY <2>1, <2>2
<1>4. CASE NewPages(t) \/ LockOther(t)
  BY <1>4 DEF NewPages, LockOther
<1>5. CASE Unlock(t) \/ UnlockOther(t)
  BY <1>5 DEF Unlock, UnlockOther
<1>6. CASE Open(t) \/ RefTest(t)
  BY <1>6 DEF Open, RefTest
<1>7. CASE Decrement(t) \/ Install(t) \/ OpenOld(t) \/ CloseOld(t)
  BY <1>7 DEF Decrement, Install, OpenOld, CloseOld
<1>8. CASE CopyOld(t)
  BY <1>8, Handled DEF CopyOld
<1>9. CASE Refuse(t)
  BY <1>9 DEF Refuse, AfterRefusal
<1>10. QED
  BY <1>1, <1>2, <1>3, <1>4, <1>5, <1>6, <1>7, <1>8, <1>9, Zenon DEF Proceed, Rewrites

LEMMA OldKept ==
    ASSUME NEW t \in Threads, StateInv, StageInv, ~ Dangling(t), Proceed(t), calls' = calls
    PROVE  \A u \in Threads :
                /\ call'[u].old <= Len(pages')
                /\ pc'[u] \in Replacing => call'[u].old > 0
<1>1. CallTypes /\ TableTypes /\ StageOK(t) /\ call[t] \in Calls
  BY Zenon DEF StateInv, StageInv, CallTypes
<1>2. \A u \in Threads : /\ call[u].old \in Nat
                         /\ call[u].old <= Len(pages)
                         /\ pc[u] \in Replacing
                                => call[u].old > 0
  BY <1>1 DEF CallTypes, Calls, StateInv, Leads, Replacing
<1>3. Len(pages) \in Nat /\ Len(pages') \in Nat /\ Len(pages') >= Len(pages)
  <2>1. pages \in Seq(PageSet) /\ pages' \in Seq(PageSet) /\ Len(pages') >= Len(pages)
    BY <1>1, PagesKept, Zenon DEF StateInv, PageTypes
  <2>2. QED
    BY <2>1, LenInNat, Zenon
<1>4. \A u \in Threads \ {t} : pc'[u] = pc[u] /\ call'[u] = call[u]
  BY <1>1, PcOfOthers, CallOfOthers, Zenon
<1>5. \A u \in Threads \ {t} :
                /\ call'[u].old <= Len(pages')
                /\ pc'[u] \in Replacing => call'[u].old > 0
  BY <1>2, <1>3, <1>4
<1>6. ASSUME call'[t].old = call[t].old,
             pc'[t] \in Replacing
                => pc[t] \in Replacing
      PROVE  /\ call'[t].old <= Len(pages')
             /\ pc'[t] \in Replacing => call'[t].old > 0
  BY <1>2, <1>3, <1>6
<1> USE DEF Replacing
<1>7. CASE LoadMax(t) \/ Share(t) \/ LoadCount(t) \/ Count(t)
  <2>1. CASE LoadMax(t)
    BY <1>1, <1>5, <1>6, <2>1, LoadsMaxOn
  <2>2. CASE Share(t) \/ LoadCount(t)
    <3>1. call'[t].old \in DOMAIN pages
      BY <1>1, <2>2, LoadsCountOn
    <3>2. call'[t].old \in 1..Len(pages)
      BY <3>1 DEF StateInv, PageTypes
    <3>3. QED
      BY <1>3, <1>5, <3>2
  <2>3. CASE Count(t)
    BY <1>1, <1>5, <1>6, <2>3, CountsOn
  <2>4. QED
    BY <1>7, <2>1, <2>2, <2>3
<1>8. ASSUME NEW c \in Calls, c.old = call[t].old, EndLookUp(t, c)
      PROVE  call'[t].old = call[t].old
             /\ pc'[t] \notin Replacing
  <2>1. IF c.op = "clone" /\ c.look = "self"
        THEN call'[t] = [c EXCEPT !.look = "of"] /\ pc'[t] = "firstCall"
        ELSE call'[t] = c /\ pc'[t] = "check"
    BY <1>1, <1>8, EndsLookUp, Zenon
  <2>2. PICK d : d = [c EXCEPT !.look = "of"]
    OBVIOUS
  <2>3. d.old = c.old
    BY <2>2, TurnsToOther, Zenon
  <2>4. QED
    BY <1>8, <2>1, <2>2, <2>3
<1>9. CASE Scan(t)
  <2>1. ASSUME NEW i \in Slots
        PROVE  KeepIndex(call[t], i) \in Calls /\ KeepIndex(call[t], i).old = call[t].old
    <3>1. \A f \in {"op", "size", "offset", "length", "of", "look", "numOfPages",
                    "pageNum", "done", "old"} : KeepIndex(call[t], i)[f] = call[t][f]
      BY <1>1, KeptIndex, Zenon
    <3>2. KeepIndex(call[t], i) \in Calls
      BY <1>1, KeptIndex, Zenon
    <3> HIDE DEF Calls
    <3>3. QED
      BY <3>1, <3>2
  <2>2. CASE \E i \in Slots : EndLookUp(t, KeepIndex(call[t], i))
    BY <1>5, <1>6, <1>8, <2>1, <2>2
  <2>3. CASE pc'[t] = "loadMax" /\ call' = [call EXCEPT ![t] = KeepIndex(call[t], maxIndex)]
    <3>1. call'[t] = KeepIndex(call[t], maxIndex) /\ maxIndex \in Slots
      BY <1>1, <2>3 DEF CallTypes, TableTypes
    <3>2. QED
      BY <1>5, <1>6, <2>1, <2>3, <3>1
  <2>4. QED
    BY <1>1, <1>9, <2>2, <2>3, ScanStep, Zenon
<1>10. CASE ClearNext(t)
  <2>1. EndLookUp(t, call[t])
    BY <1>10 DEF ClearNext
  <2>2. QED
    BY <1>1, <1>5, <1>6, <1>8, <2>1
<1>11. CASE Check(t)
  <2>1. CASE Refused(t)
    BY <1>1, <1>5, <1>6, <1>11, <2>1, CheckStep
  <2>2. CASE ~ Refused(t)
    <3>1. /\ call'[t] = [call[t] EXCEPT !.numOfPages = NumOfPages(t)]
          /\ pc'[t] = IF call[t].op \in {"create", "clone"} THEN "setTid" ELSE "lock"
      BY <1>1, <1>11, <2>2, CheckStep
    <3>2. call'[t].old = call[t].old
      BY <1>1, <3>1 DEF Calls
    <3>3. QED
      BY <1>5, <1>6, <3>1, <3>2
  <2>3. QED
    BY <2>1, <2>2
<1>12. CASE Return(t)
  <2>1. pc'[t] = "idle" /\ call'[t] = NoCall
    BY <1>1, <1>12, ReturnsOn
  <2>2. QED
    BY <1>3, <1>5, <2>1 DEF NoCall
<1>13. CASE Copy(t)
  <2>1. call' = call \/ call' = [call EXCEPT ![t].done = @ + Portion(t)]
    BY <1>1, <1>13, CopyStep, Zenon
  <2>2. call'[t].old = call[t].old
    BY <1>1, <2>1 DEF CallTypes, Calls
  <2>3. sfHandle(t, Page(t)) \/ Goto(t, "close")
    BY <1>1, <1>13, CopyStep, Zenon
  <2>4. pc'[t] \in {pc[t], "exited", "close"}
    <3>1. sfHandle(t, Page(t)) => pc'[t] = pc[t] \/ pc'[t] = "exited"
      BY <1>1, Handled, Zenon
    <3>2. Goto(t, "close") => pc'[t] = "close"
      BY <1>1, GoesTo, Zenon
    <3>3. QED
      BY <2>3, <3>1, <3>2
  <2>5. QED
    BY <1>5, <1>6, <2>2, <2>4
<1>14. CASE Close(t)
  <2>1. call' = call \/ call' = [call EXCEPT ![t].pageNum = @ + 1]
    BY <1>14, Zenon DEF Close
  <2>2. call'[t].old = call[t].old
    BY <1>1, <2>1 DEF CallTypes, Calls
  <2>3. Goto(t, "unlock") \/ Goto(t, IF call[t].op = "read" THEN "open" ELSE "refTest")
    BY <1>14, Zenon DEF Close
  <2>4. pc'[t] = "unlock" \/ pc'[t] = IF call[t].op = "read" THEN "open" ELSE "refTest"
    BY <1>1, <2>3, GoesTo, Zenon
  <2>5. QED
    BY <1>5, <1>6, <2>2, <2>4
<1>15. CASE ~ Rewrites(t)
  <2>1. call' = call
    BY <1>15, CallActions, Zenon
  <2>2. pc'[t] \in Replacing => pc[t] \in Replacing
    <3> HIDE DEF Replacing
    <3>1. QED
      BY <1>1, <1>15, <2>1, NotFromOutside, Zenon
  <2>3. QED
    BY <1>5, <1>6, <2>1, <2>2
<1>16. QED
  BY <1>7, <1>9, <1>10, <1>11, <1>12, <1>13, <1>14, <1>15, Zenon DEF Rewrites

LEMMA StateProceeds ==
    ASSUME NEW t \in Threads, StateInv, StageInv, EntriesInv, ~ Dangling(t), Proceed(t),
           calls' = calls
    PROVE  StateInv' /\ StageInv' /\ EntriesInv'
<1>1. StageOK(t)
  BY Zenon DEF StageInv
<1>2. CallTypes' /\ StageInv'
  BY CallsKept, Zenon
<1>3. BufferTypes'
  BY <1>1, BuffersKept, Zenon
<1>4. pages' \in Seq(PageSet)
  BY <1>1, PagesKept, Zenon
<1>5. tls' \in Seq(Storages) /\ Rooted(tls', pages')
  BY <1>1, StoragesKept, Zenon
<1>6. EntriesInv' /\ TableTypes' /\ \A i \in Slots : ttpArray'[i].tls <= Len(tls')
  BY <1>1, TableKept, Zenon
<1>7. \A u \in Threads :
                /\ call'[u].old <= Len(pages')
                /\ pc'[u] \in Replacing => call'[u].old > 0
  BY OldKept, Zenon
<1>8. Leads'
  BY <1>5, <1>6, <1>7, Zenon DEF Leads, Rooted
<1>9. QED
  BY <1>2, <1>3, <1>4, <1>5, <1>6, <1>8, Zenon DEF StateInv, StorageTypes, PageTypes

(* What begins a call. *)
Called(t, op, of) ==
    \E size, offset, length \in Nat : Begin(t, op, size, offset, length, of)

LEMMA WhatIsCalled ==
    ASSUME NEW t \in Threads, tls_create(t) \/ tls_read(t) \/ tls_write(t) \/ tls_clone(t)
    PROVE  \E op \in {"create", "read", "write", "clone"}, of \in Threads \cup {NoThread} :
                (op = "clone" => of \in Threads) /\ Called(t, op, of)
<1>1. /\ \A n \in Sizes : n \in Nat
      /\ \A n \in Offsets : n \in Nat
      /\ \A n \in ReadLengths : n \in Nat
      /\ \A n \in WriteLengths : n \in Nat
      /\ 0 \in Nat
  BY TLSAssumption
<1>2. CASE tls_create(t)
  BY <1>1, <1>2, Zenon DEF tls_create, Called
<1>3. CASE tls_read(t)
  BY <1>1, <1>3, Zenon DEF tls_read, Called
<1>4. CASE tls_write(t)
  BY <1>1, <1>4, Zenon DEF tls_write, Called
<1>5. CASE tls_clone(t)
  BY <1>1, <1>5, Zenon DEF tls_clone, Called
<1>6. QED
  BY <1>2, <1>3, <1>4, <1>5

LEMMA CallBegins ==
    ASSUME NEW t \in Threads, CallTypes,
           NEW op \in {"create", "read", "write", "clone"}, NEW of \in Threads \cup {NoThread},
           op = "clone" => of \in Threads, Called(t, op, of)
    PROVE  /\ CallsOn(t)
           /\ pc[t] = "idle" /\ pc'[t] = "firstCall"
           /\ calls' \in [Threads -> 0..CALL_LIMIT]
           /\ calls'[t] = calls[t] + 1
           /\ call'[t].op = op /\ call'[t].of = of /\ call'[t].look = "self"
           /\ call'[t].old = 0
           /\ \A u \in Threads \ {t} :
                pc'[u] = pc[u] /\ call'[u] = call[u] /\ calls'[u] = calls[u]
           /\ MayCall(t, op, of)
           /\ pc' \in [Threads -> Stages]
           /\ UNCHANGED <<firstCall, maxIndex, ttpArray, tls, pages, buffer, crashed>>
<1>1. PICK size \in Nat, offset \in Nat, length \in Nat : Begin(t, op, size, offset, length, of)
  BY Zenon DEF Called
<1>2. /\ pc[t] = "idle" /\ MayCall(t, op, of)
      /\ Goto(t, "firstCall")
      /\ UNCHANGED <<firstCall, maxIndex, ttpArray, tls, pages, buffer, crashed>>
  BY <1>1, Zenon DEF Begin
<1>3. pc' \in [Threads -> Stages]
  BY <1>2 DEF Goto, CallTypes, Stages
<1>4. /\ CallsOn(t) /\ pc'[t] = "firstCall"
      /\ calls' \in [Threads -> 0..CALL_LIMIT] /\ calls'[t] = calls[t] + 1
      /\ call'[t].op = op /\ call'[t].of = of /\ call'[t].look = "self"
      /\ call'[t].old = 0
      /\ \A u \in Threads \ {t} :
            pc'[u] = pc[u] /\ call'[u] = call[u] /\ calls'[u] = calls[u]
  <2>1. Begun(t, op, of)
    BY <1>1, BeginsOn, Zenon
  <2>2. QED
    BY <2>1, Zenon DEF Begun
<1>5. QED
  BY <1>2, <1>3, <1>4

LEMMA StateBegins ==
    ASSUME NEW t \in Threads, StateInv, StageInv, EntriesInv,
           NEW op \in {"create", "read", "write", "clone"}, NEW of \in Threads \cup {NoThread},
           op = "clone" => of \in Threads, Called(t, op, of)
    PROVE  StateInv' /\ StageInv' /\ EntriesInv'
<1>1. CallTypes
  BY DEF StateInv
<1>2. /\ CallsOn(t)
      /\ pc[t] = "idle" /\ pc'[t] = "firstCall"
      /\ calls' \in [Threads -> 0..CALL_LIMIT]
      /\ calls'[t] = calls[t] + 1
      /\ call'[t].old = 0
      /\ \A u \in Threads \ {t} :
                pc'[u] = pc[u] /\ call'[u] = call[u] /\ calls'[u] = calls[u]
      /\ pc' \in [Threads -> Stages]
      /\ UNCHANGED <<firstCall, maxIndex, ttpArray, tls, pages, buffer, crashed>>
  BY <1>1, CallBegins, ZenonT(60)
<1>3. \A u \in Threads : StageOK(u)'
  BY <1>2, StageOthers, Zenon DEF StageInv, CallsOn
<1>4. CallTypes'
  BY <1>1, <1>2 DEF CallTypes, CallsOn
<1>5. \A u \in Threads, n \in 1..CALL_LIMIT, look \in {"self", "of"} :
            Spent(u, n, look) => Spent(u, n, look)'
  <2>1. \A n \in 1..CALL_LIMIT : n \in Nat
    BY TLSAssumption
  <2>2. QED
    BY <1>1, <1>2, <2>1, SpentBegin, SpentOthers, Zenon
<1>6. EntriesInv'
  <2>1. \A u \in Threads : pc'[u] = "takeEntry" => pc[u] = "takeEntry" /\ call'[u] = call[u]
    BY <1>2
  <2>2. maxIndex \in Slots /\ maxIndex' = maxIndex
    BY <1>2 DEF StateInv, TableTypes
  <2>3. QED
    BY <1>5, <2>1, <2>2, EntriesSame, Zenon
<1>7. Leads'
  <2>1. Len(pages) \in Nat
    BY DEF StateInv, PageTypes
  <2>2. \A u \in Threads :
            /\ call[u].old <= Len(pages)
            /\ pc[u] \in Replacing => call[u].old > 0
    BY Zenon DEF StateInv, Leads
  <2>3. \A u \in Threads :
            /\ call'[u].old <= Len(pages)
            /\ pc'[u] \in Replacing => call'[u].old > 0
    BY <1>2, <2>1, <2>2 DEF Replacing
  <2>4. QED
    BY <1>2, <2>3, Zenon DEF StateInv, Leads
<1>8. QED
  BY <1>2, <1>3, <1>4, <1>6, <1>7, Zenon
     DEF StateInv, StageInv, TableTypes, BufferTypes, StorageTypes, PageTypes

(* A fault, or one thread's write to a page of another. *)
LEMMA StateStrays ==
    ASSUME NEW t \in Threads, StateInv, StageInv, EntriesInv, Stray(t)
    PROVE  StateInv' /\ StageInv' /\ EntriesInv'
<1>1. CallTypes /\ PageTypes
  BY DEF StateInv
<1>2. /\ pc[t] = "idle" /\ calls[t] < CALL_LIMIT
      /\ calls' = [calls EXCEPT ![t] = @ + 1]
      /\ UNCHANGED <<firstCall, maxIndex, ttpArray, tls, call, buffer>>
  BY Zenon DEF Stray
<1>3. UNCHANGED <<pc, crashed>> \/ \E p : sfHandle(t, p)
  BY Zenon DEF Stray
<1>4. /\ pc' \in [Threads -> Stages]
      /\ crashed' \in Threads \cup {NoThread}
      /\ pc'[t] \in {"idle", "exited"}
      /\ \A u \in Threads \ {t} : pc'[u] = pc[u]
  <2>1. CASE UNCHANGED <<pc, crashed>>
    BY <1>1, <1>2, <2>1 DEF CallTypes
  <2>2. CASE \E p : sfHandle(t, p)
    <3>1. (Goto(t, "exited") /\ UNCHANGED crashed) \/ (Crash(t) /\ UNCHANGED pc)
      BY <2>2, Zenon DEF sfHandle
    <3>2. pc \in [Threads -> Stages] /\ crashed \in Threads \cup {NoThread}
      BY <1>1 DEF CallTypes
    <3>3. CASE Goto(t, "exited") /\ UNCHANGED crashed
      BY <1>2, <3>2, <3>3 DEF Goto, Stages
    <3>4. CASE Crash(t) /\ UNCHANGED pc
      BY <1>2, <3>2, <3>4 DEF Crash
    <3>5. QED
      BY <3>1, <3>3, <3>4
  <2>3. QED
    BY <1>3, <2>1, <2>2
<1>5. /\ calls' \in [Threads -> 0..CALL_LIMIT]
      /\ calls'[t] = calls[t] + 1
      /\ \A u \in Threads \ {t} : calls'[u] = calls[u]
  <2>1. CALL_LIMIT \in Nat
    BY TLSAssumption
  <2>2. QED
    BY <1>1, <1>2, <2>1 DEF CallTypes
<1>6. CallTypes'
  BY <1>1, <1>2, <1>4, <1>5 DEF CallTypes
<1>7. \A u \in Threads : StageOK(u)'
  <2>1. StageOK(t)'
    BY <1>2, <1>4 DEF StageInv, StageOK, Settled
  <2>2. QED
    BY <1>2, <1>4, <1>5, <2>1, StageOthers, Zenon DEF StageInv
<1>8. \A u \in Threads, n \in 1..CALL_LIMIT, look \in {"self", "of"} :
            Spent(u, n, look) => Spent(u, n, look)'
  <2>1. \A n \in 1..CALL_LIMIT : n \in Nat
    BY TLSAssumption
  <2>2. call' = call
    BY <1>2
  <2>3. QED
    BY <1>1, <1>4, <1>5, <2>1, <2>2, SpentBegin, SpentOthers, Zenon
<1>9. EntriesInv'
  <2>1. \A u \in Threads : pc'[u] = "takeEntry" => pc[u] = "takeEntry" /\ call'[u] = call[u]
    BY <1>2, <1>4
  <2>2. maxIndex \in Slots /\ maxIndex' = maxIndex
    BY <1>2 DEF StateInv, TableTypes
  <2>3. QED
    BY <1>8, <2>1, <2>2, EntriesSame, Zenon
<1>10. pages' \in Seq(PageSet) /\ Len(pages') = Len(pages) /\ DOMAIN pages' = DOMAIN pages
  <2>1. UNCHANGED pages \/ Same(pages, pages')
    BY StrayStep, Zenon DEF Fills
  <2>2. QED
    BY <1>1, <2>1 DEF Same, PageTypes
<1>11. Leads'
  <2>1. \A u \in Threads : pc'[u] \in Replacing => pc'[u] = pc[u]
    BY <1>2, <1>4 DEF Replacing
  <2>2. \A u \in Threads :
            /\ call'[u].old <= Len(pages')
            /\ pc'[u] \in Replacing => call'[u].old > 0
    BY <1>2, <1>10, <2>1 DEF StateInv, Leads
  <2>3. QED
    BY <1>2, <1>10, <2>2, Zenon DEF StateInv, Leads
<1>12. QED
  BY <1>2, <1>6, <1>7, <1>9, <1>10, <1>11, Zenon
     DEF StateInv, StageInv, TableTypes, BufferTypes, StorageTypes, PageTypes

(* Steps that move nothing but calls and crashed. *)
LEMMA StateIdles ==
    ASSUME NEW t \in Threads, StateInv, StageInv, EntriesInv,
           UNCHANGED <<firstCall, maxIndex, ttpArray, tls, pages, pc, call, buffer>>,
           \/ calls' = calls /\ crashed' \in {crashed, t}
           \/ /\ calls[t] < CALL_LIMIT /\ calls' = [calls EXCEPT ![t] = @ + 1]
              /\ pc[t] = "idle" /\ crashed' = crashed
    PROVE  StateInv' /\ StageInv' /\ EntriesInv'
<1>1. CallTypes /\ CALL_LIMIT \in Nat
  BY TLSAssumption DEF StateInv
<1>2. crashed' \in Threads \cup {NoThread}
  BY <1>1 DEF CallTypes
<1>3. /\ calls' \in [Threads -> 0..CALL_LIMIT]
      /\ calls'[t] = calls[t] \/ calls'[t] = calls[t] + 1
      /\ \A u \in Threads \ {t} : calls'[u] = calls[u]
  BY <1>1 DEF CallTypes
<1>4. CallTypes'
  BY <1>1, <1>2, <1>3, Zenon DEF CallTypes
<1>5. \A u \in Threads : StageOK(u)'
  <2>1. StageOK(t)'
    <3>1. calls[t] > 0 => calls'[t] > 0
      BY <1>1, <1>3 DEF CallTypes
    <3>2. QED
      BY <3>1, Zenon DEF StageInv, StageOK
  <2>2. QED
    BY <1>3, <2>1, StageOthers, Zenon DEF StageInv
<1>6. \A u \in Threads, n \in 1..CALL_LIMIT, look \in {"self", "of"} :
            Spent(u, n, look) => Spent(u, n, look)'
  <2>1. \A n \in 1..CALL_LIMIT : n \in Nat
    BY <1>1
  <2>2. QED
    BY <1>1, <1>3, <2>1, SpentBegin, SpentOthers, Zenon
<1>7. EntriesInv'
  <2>1. maxIndex \in Slots
    BY DEF StateInv, TableTypes
  <2>2. QED
    BY <1>6, <2>1, EntriesSame, Zenon
<1>8. QED
  BY <1>4, <1>5, <1>7, Zenon
     DEF StateInv, StageInv, TableTypes, BufferTypes, StorageTypes, PageTypes, Leads

LEMMA StateInit ==
    Init => StateInv /\ StageInv /\ EntriesInv
<1> SUFFICES ASSUME Init PROVE StateInv /\ StageInv /\ EntriesInv
  OBVIOUS
<1> USE DEF Init
<1>1. 0 \in Slots /\ NoCall \in Calls /\ CALL_LIMIT \in Nat
  BY Entries0, NoCallType, TLSAssumption
<1>2. TableTypes
  BY <1>1 DEF TableTypes, Entries, emptyTLS
<1>3. CallTypes
  <2> HIDE DEF NoCall, Calls
  <2>1. QED
    BY <1>1 DEF CallTypes, Stages
<1>4. BufferTypes /\ StorageTypes /\ PageTypes
  BY DEF BufferTypes, StorageTypes, PageTypes
<1>5. Leads
  BY DEF Leads, NoCall, emptyTLS, Replacing
<1>6. StageInv
  BY DEF StageInv, StageOK, NoCall, Settled
<1>7. EntriesInv
  <2>1. {} \in SUBSET Tokens /\ maxIndex <= Cardinality({})
    BY FS_EmptySet
  <2>2. \A t \in Threads : pc[t] # "takeEntry"
    OBVIOUS
  <2>3. QED
    BY <2>1, <2>2, Zenon DEF EntriesInv
<1>8. QED
  BY <1>2, <1>3, <1>4, <1>5, <1>6, <1>7, Zenon DEF StateInv

LEMMA StateStep ==
    StateInv /\ StageInv /\ EntriesInv /\ [Next]_tlsVars => StateInv' /\ StageInv' /\ EntriesInv'
<1> SUFFICES ASSUME StateInv, StageInv, EntriesInv, [Next]_tlsVars
             PROVE  StateInv' /\ StageInv' /\ EntriesInv'
  OBVIOUS
<1>1. CASE UNCHANGED tlsVars
  BY <1>1, ZenonT(60)
     DEF tlsVars, StateInv, StageInv, StageOK, EntriesInv, Spent, TableTypes, CallTypes, BufferTypes,
     StorageTypes, PageTypes, Leads, Tokens, Settled, Searching
<1>2. ASSUME NEW t \in Threads, tls_create(t) \/ tls_read(t) \/ tls_write(t) \/ tls_clone(t)
      PROVE  StateInv' /\ StageInv' /\ EntriesInv'
  BY <1>2, WhatIsCalled, StateBegins, Zenon
<1>3. ASSUME NEW t \in Threads, tls_destroy(t)
      PROVE  StateInv' /\ StageInv' /\ EntriesInv'
  BY <1>3, StateIdles, Zenon DEF tls_destroy
<1>4. ASSUME NEW t \in Threads, Step(t)
      PROVE  StateInv' /\ StageInv' /\ EntriesInv'
  <2>1. CASE NullDeref(t)
    <3>1. /\ crashed' \in {crashed, t}
          /\ UNCHANGED <<firstCall, maxIndex, ttpArray, tls, pages, pc, call, buffer>>
          /\ calls' = calls
      BY <1>4, <2>1 DEF NullDeref, Crash, Step
    <3>2. QED
      BY <3>1, StateIdles, Zenon
  <2>2. CASE Proceed(t)
    BY <1>4, <2>2, StateProceeds, Zenon DEF Step, Proceed
  <2>3. QED
    BY <1>4, <2>1, <2>2, Zenon DEF Step
<1>5. ASSUME NEW t \in Threads, Stray(t)
      PROVE  StateInv' /\ StageInv' /\ EntriesInv'
  BY <1>5, StateStrays, Zenon
<1>6. QED
  BY <1>1, <1>2, <1>3, <1>4, <1>5, Zenon DEF Next, Finished

(* The pages left open are there. *)
OpenInv == leftOpen \subseteq DOMAIN pages

LEMMA LeftOpenStep ==
    StateInv /\ StageInv /\ OpenInv /\ [Next]_tlsVars => OpenInv'
<1> SUFFICES ASSUME StateInv, StageInv, OpenInv, [Next]_tlsVars PROVE OpenInv'
  OBVIOUS
<1>1. CASE UNCHANGED <<leftOpen, pages>>
  BY <1>1, Zenon DEF OpenInv
<1>2. ASSUME NEW t \in Threads, tls_create(t) \/ tls_read(t) \/ tls_write(t) \/ tls_clone(t)
      PROVE  OpenInv'
  <2>1. UNCHANGED <<leftOpen, pages>>
    BY <1>2, Zenon DEF tls_create, tls_read, tls_write, tls_clone, Begin
  <2>2. QED
    BY <1>1, <2>1, Zenon
<1>3. ASSUME NEW t \in Threads, tls_destroy(t) \/ NullDeref(t)
      PROVE  OpenInv'
  BY <1>1, <1>3, Zenon DEF tls_destroy, NullDeref
<1>4. ASSUME NEW t \in Threads, Proceed(t)
      PROVE  OpenInv'
  <2>1. StageOK(t) /\ ~ Dangling(t)
    BY <1>4, Zenon DEF StageInv, Proceed
  <2>2. \A p \in DOMAIN pages : p \in DOMAIN pages'
    BY <1>4, <2>1, PagesKept, Zenon
  <2>3. pc[t] = "copy" => Page(t) \in DOMAIN pages
    BY <2>1, PageFetched
  <2>4. \A p \in leftOpen' : p \in leftOpen \/ (pc[t] = "copy" /\ p = Page(t))
    BY <1>4 DEF Proceed
  <2>5. QED
    BY <2>2, <2>3, <2>4, Zenon DEF OpenInv
<1>5. ASSUME NEW t \in Threads, Stray(t)
      PROVE  OpenInv'
  <2>1. UNCHANGED pages \/ Same(pages, pages')
    BY <1>5, StrayStep, Zenon DEF Fills, StateInv, StageInv
  <2>2. DOMAIN pages' = DOMAIN pages
    BY <2>1 DEF Same, StateInv, PageTypes
  <2>3. leftOpen' = leftOpen
    BY <1>5, Zenon DEF Stray
  <2>4. QED
    BY <2>2, <2>3, Zenon DEF OpenInv
<1>6. CASE UNCHANGED tlsVars
  BY <1>1, <1>6 DEF tlsVars
<1>7. QED
  BY <1>2, <1>3, <1>4, <1>5, <1>6, Zenon DEF Next, Step, Finished

LEMMA TypesFollow ==
    StateInv /\ OpenInv => TTypeOK
<1> SUFFICES ASSUME StateInv, OpenInv PROVE TTypeOK
  OBVIOUS
<1>1. ttpArray \in [Slots -> [tid : Threads \cup {NoThread}, tls : 0..Len(tls)]]
  <2>1. ttpArray \in [Slots -> Entries] /\ \A i \in Slots : ttpArray[i].tls <= Len(tls)
    BY Zenon DEF StateInv, TableTypes, Leads
  <2>2. Len(tls) \in Nat
    BY LenInNat, Zenon DEF StateInv, StorageTypes
  <2>3. \A i \in Slots : ttpArray[i] \in [tid : Threads \cup {NoThread}, tls : 0..Len(tls)]
    BY <2>1, <2>2 DEF Entries
  <2>4. QED
    BY <2>1, <2>3
<1>2. ASSUME NEW s \in DOMAIN tls
      PROVE  /\ tls[s].page_num \in Nat
             /\ tls[s].mutex \in Threads \cup {NoThread}
             /\ tls[s].pages \in Seq(DOMAIN pages)
  <2>1. /\ tls[s].page_num \in Nat /\ tls[s].mutex \in Threads \cup {NoThread}
        /\ tls[s].pages \in Seq(Nat)
    BY ElementIn, StorageFields, Zenon DEF StateInv, StorageTypes
  <2>2. \A n \in DOMAIN tls[s].pages : tls[s].pages[n] \in DOMAIN pages
    BY Zenon DEF StateInv, Leads
  <2>3. tls[s].pages \in Seq(DOMAIN pages)
    BY <2>1, <2>2
  <2>4. QED
    BY <2>1, <2>3
<1>3. ASSUME NEW p \in DOMAIN pages
      PROVE  /\ pages[p].ref_count \in Int
             /\ pages[p].prot \in {"none", "read", "write"}
             /\ pages[p].data \in [0..(PAGE_SIZE - 1) -> Byte]
  <2>1. pages[p] \in PageSet
    BY ElementIn, Zenon DEF StateInv, PageTypes
  <2>2. QED
    BY <2>1 DEF PageSet
<1>4. QED
  BY <1>1, <1>2, <1>3, Zenon
     DEF TTypeOK, StateInv, TableTypes, CallTypes, BufferTypes, OpenInv

(* Whoever calls the library, and whenever: the table keeps to the entries *)
(* it has, though maxIndex is counted up without a lock (lines 141-145); a *)
(* pointer in it leads to a storage, and one in a storage to a page (lines *)
(* 346-361, 495-509); and no thread needs more than two look-ups a call.   *)
THEOREM TablesKeepTypes == Spec => []TTypeOK
<1>1. Init => StateInv /\ StageInv /\ EntriesInv /\ OpenInv
  BY StateInit DEF Init, OpenInv
<1>2. StateInv /\ StageInv /\ EntriesInv /\ OpenInv /\ [Next]_tlsVars
        => StateInv' /\ StageInv' /\ EntriesInv' /\ OpenInv'
  BY StateStep, LeftOpenStep, Zenon
<1>3. QED
  BY <1>1, <1>2, TypesFollow, PTL DEF Spec

=============================================================================
