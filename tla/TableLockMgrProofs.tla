------------------------- MODULE TableLockMgrProofs -------------------------
(***************************************************************************)
(* The lock manager keeps its invariant for any number of threads, tags    *)
(* and partitions, whatever the modes the threads ask for: the safety      *)
(* properties of TableLockMgr follow.                                      *)
(***************************************************************************)
EXTENDS TableLockSteps, LockEntryProofs

\* The operations on an entry do what TableLockSteps takes them to do.
LEMMA LawsHold == EntryLaws
  BY EnqueueCorrect, DequeueCorrect, RemovedIfUnused DEF EntryLaws

\* A partition whose counter is 0 has no mark.
LEMMA CountedSeen ==
  ASSUME MarksCounted
  PROVE  MarksSeen
  <1> SUFFICES ASSUME NEW g \in Tag, strong[PartOf[g]] = 0, NEW u \in Thread, NEW n \in StrongMode,
                      HasMark(u, g, n)
               PROVE  FALSE
    BY DEF MarksSeen
  <1>1. PartOf[g] \in Partition BY TagAssumption
  <1>2. IsFiniteSet(Marks(PartOf[g])) /\ Cardinality(Marks(PartOf[g])) = 0
    BY <1>1 DEF MarksCounted
  <1>3. Marks(PartOf[g]) = {} BY <1>2, FS_EmptySet
  <1>4. <<u, g, n>> \in Marks(PartOf[g]) BY DEF Marks
  <1>5. QED BY <1>3, <1>4

\* A step that makes or removes at most one mark and counts it keeps the count.
LEMMA CountKept ==
  ASSUME strong \in [Partition -> Nat], MarksCounted, MarksStep
  PROVE  MarksCounted' /\ strong' \in [Partition -> Nat]
  <1>1. CASE MarksKept
    <2>1. ASSUME NEW p \in Partition PROVE Marks(p)' = Marks(p)
      <3>1. \A x \in Thread \X Tag \X StrongMode : HasMark(x[1], x[2], x[3])' <=> HasMark(x[1], x[2], x[3])
        BY <1>1 DEF MarksKept
      <3>2. \A x : x \in Marks(p)' <=> x \in Marks(p) BY <3>1 DEF Marks
      <3>3. QED BY <3>2, Zenon
    <2>2. strong' = strong BY <1>1 DEF MarksKept
    <2>3. QED BY <2>1, <2>2 DEF MarksCounted
  <1>2. ASSUME NEW t \in Thread, NEW tag \in Tag, NEW m \in StrongMode, NEW p \in Partition,
               OtherMarks(t, tag, m)
        PROVE  \A x : x # <<t, tag, m>> \/ p # PartOf[tag] => (x \in Marks(p)' <=> x \in Marks(p))
    <2>1. \A x \in Thread \X Tag \X StrongMode :
            x # <<t, tag, m>> => (HasMark(x[1], x[2], x[3])' <=> HasMark(x[1], x[2], x[3]))
      BY <1>2 DEF OtherMarks
    <2>2. \A x : x # <<t, tag, m>> => (x \in Marks(p)' <=> x \in Marks(p)) BY <2>1 DEF Marks
    <2>3. p # PartOf[tag] => <<t, tag, m>> \notin Marks(p)' /\ <<t, tag, m>> \notin Marks(p)
      BY DEF Marks
    <2>4. QED BY <2>2, <2>3, Zenon
  <1>3. ASSUME NEW t \in Thread, NEW tag \in Tag, NEW m \in StrongMode, MarkMade(t, tag, m)
        PROVE  MarksCounted' /\ strong' \in [Partition -> Nat]
    <2> DEFINE x == <<t, tag, m>>
    <2>1. /\ strong' = [strong EXCEPT ![PartOf[tag]] = @ + 1]
          /\ ~ HasMark(t, tag, m) /\ HasMark(t, tag, m)' /\ OtherMarks(t, tag, m)
      BY <1>3 DEF MarkMade
    <2>2. PartOf[tag] \in Partition BY TagAssumption
    <2>3. x \notin Marks(PartOf[tag]) /\ x \in Marks(PartOf[tag])' BY <2>1 DEF Marks
    <2>4. ASSUME NEW p \in Partition PROVE (IsFiniteSet(Marks(p)) /\ strong[p] = Cardinality(Marks(p)))'
      <3>1. IsFiniteSet(Marks(p)) /\ strong[p] = Cardinality(Marks(p)) BY DEF MarksCounted
      <3>2. \A y : y # x \/ p # PartOf[tag] => (y \in Marks(p)' <=> y \in Marks(p)) BY <1>2, <2>1
      <3>3. CASE p # PartOf[tag]
        <4>1. Marks(p)' = Marks(p) BY <3>2, <3>3, Zenon
        <4>2. strong'[p] = strong[p] BY <2>1, <2>2, <3>3
        <4>3. QED BY <3>1, <4>1, <4>2
      <3>4. CASE p = PartOf[tag]
        <4>1. \A y : y \in Marks(p)' <=> y \in Marks(p) \cup {x} BY <2>3, <3>2, <3>4
        <4>2. Marks(p)' = Marks(p) \cup {x} BY <4>1, Zenon
        <4>3. x \notin Marks(p) BY <2>3, <3>4
        <4>4. /\ IsFiniteSet(Marks(p) \cup {x})
              /\ Cardinality(Marks(p) \cup {x}) = Cardinality(Marks(p)) + 1
          BY <3>1, <4>3, FS_AddElement
        <4>5. strong'[p] = strong[p] + 1 BY <2>1, <2>2, <3>4
        <4>6. QED BY SMTT(20), <3>1, <4>2, <4>4, <4>5
      <3>5. QED BY <3>3, <3>4
    <2>5. MarksCounted' BY <2>4 DEF MarksCounted
    <2>6. strong' \in [Partition -> Nat] BY SMTT(20), <2>1, <2>2
    <2>7. QED BY <2>5, <2>6
  <1>4. ASSUME NEW t \in Thread, NEW tag \in Tag, NEW m \in StrongMode, MarkGone(t, tag, m)
        PROVE  MarksCounted' /\ strong' \in [Partition -> Nat]
    <2> DEFINE x == <<t, tag, m>>
    <2>1. /\ strong' = [strong EXCEPT ![PartOf[tag]] = @ - 1]
          /\ HasMark(t, tag, m) /\ ~ HasMark(t, tag, m)' /\ OtherMarks(t, tag, m)
      BY <1>4 DEF MarkGone
    <2>2. PartOf[tag] \in Partition BY TagAssumption
    <2>3. x \in Marks(PartOf[tag]) /\ x \notin Marks(PartOf[tag])' BY <2>1 DEF Marks
    <2>4. ASSUME NEW p \in Partition
          PROVE  (IsFiniteSet(Marks(p)) /\ strong[p] = Cardinality(Marks(p)))' /\ strong'[p] \in Nat
      <3>1. IsFiniteSet(Marks(p)) /\ strong[p] = Cardinality(Marks(p)) BY DEF MarksCounted
      <3>2. \A y : y # x \/ p # PartOf[tag] => (y \in Marks(p)' <=> y \in Marks(p)) BY <1>2, <2>1
      <3>3. CASE p # PartOf[tag]
        <4>1. Marks(p)' = Marks(p) BY <3>2, <3>3, Zenon
        <4>2. strong'[p] = strong[p] BY <2>1, <2>2, <3>3
        <4>3. QED BY SMTT(20), <3>1, <4>1, <4>2
      <3>4. CASE p = PartOf[tag]
        <4>1. \A y : y \in Marks(p)' <=> y \in Marks(p) \ {x} BY <2>3, <3>2, <3>4
        <4>2. Marks(p)' = Marks(p) \ {x} BY <4>1, Zenon
        <4>3. x \in Marks(p) BY <2>3, <3>4
        <4>4. /\ IsFiniteSet(Marks(p) \ {x})
              /\ Cardinality(Marks(p) \ {x}) = Cardinality(Marks(p)) - 1
          BY <3>1, <4>3, FS_RemoveElement
        <4>5. Cardinality(Marks(p) \ {x}) \in Nat BY <4>4, FS_CardinalityType
        <4>6. strong'[p] = strong[p] - 1 BY <2>1, <2>2, <3>4
        <4>7. QED BY SMTT(20), <3>1, <4>2, <4>4, <4>5, <4>6
      <3>5. QED BY <3>3, <3>4
    <2>5. MarksCounted' BY <2>4 DEF MarksCounted
    <2>6. strong' \in [Partition -> Nat] BY Zenon, <2>1, <2>4
    <2>7. QED BY <2>5, <2>6
  <1>5. QED BY <1>1, <1>3, <1>4 DEF MarksStep

-----------------------------------------------------------------------------
(* The invariant.                                                          *)

\* Init establishes the invariant.
LEMMA InitIInv ==
  ASSUME Init
  PROVE  IInv
  <1>1. EntryInv(EmptyEntry) BY EmptyEntryInv
  <1>2. EmptyEntry \in Entry BY <1>1 DEF EntryInv, Counted
  <1>3. /\ table = [tag \in Tag |-> EmptyEntry]
        /\ granted = [t \in Thread |-> [tag \in Tag |-> [m \in LockMode |-> 0]]]
        /\ fast = [t \in Thread |-> [tag \in Tag |-> {}]]
        /\ strong = [p \in Partition |-> 0]
        /\ isWaiting = [t \in Thread |-> FALSE]
        /\ call = [t \in Thread |-> IdleCall]
    BY DEF Init
  <1>4. IdleCall \in CallRecord BY DEF IdleCall, CallRecord, PCs
  <1>5. CallShape(IdleCall) /\ IdleCall.pc = "idle" BY DEF CallShape, IdleCall
  <1>6. 0 \in 0..MaxGranted BY CallAssumption
  <1>7. /\ table \in [Tag -> Entry]
        /\ granted \in [Thread -> [Tag -> [LockMode -> 0..MaxGranted]]]
        /\ fast \in [Thread -> [Tag -> SUBSET WeakMode]]
        /\ isWaiting \in [Thread -> BOOLEAN]
        /\ call \in [Thread -> CallRecord]
        /\ strong \in [Partition -> Nat]
    BY SMTT(20), <1>2, <1>3, <1>4, <1>6
  <1>8. Types BY <1>3, <1>5, <1>7 DEF Types, Fields
  <1>9. Entries BY <1>1, <1>3 DEF Entries
  <1>10. \A t \in Thread : call[t].pc = "idle" BY <1>3, <1>5
  <1>11. EmptyEntry.granted = {} /\ Waiters(EmptyEntry) = {} BY DEF EmptyEntry, Waiters
  <1>12. ASSUME NEW t \in Thread, NEW tag \in Tag, NEW m \in LockMode
         PROVE  /\ ~ InTable(t, tag, m) /\ ~ InQueue(t, tag, m)
                /\ granted[t][tag][m] = 0 /\ fast[t][tag] = {}
    BY <1>3, <1>11 DEF InTable, InQueue
  <1>13. Places BY <1>10, <1>12 DEF Places, Place, Settled, Here
  <1>14. FastClosed
    <2>1. \A u \in Thread, tag \in Tag : fast[u][tag] = {} BY <1>3
    <2>2. QED BY <1>10, <2>1 DEF FastClosed
  <1>15. MarksCounted
    <2>1. \A t \in Thread, tag \in Tag, m \in StrongMode : ~ HasMark(t, tag, m)
      BY <1>10, <1>12 DEF HasMark, StrongMode
    <2>2. \A p \in Partition : Marks(p) = {} BY <2>1 DEF Marks
    <2>3. IsFiniteSet({}) /\ Cardinality({}) = 0 BY FS_EmptySet
    <2>4. QED BY Zenon, <1>3, <2>2, <2>3 DEF MarksCounted
  <1>16. QED BY SMTT(20), <1>8, <1>9, <1>13, <1>14, <1>15 DEF IInv

\* Every step keeps it.
LEMMA NextIInv ==
  ASSUME IInv, [Next]_vars
  PROVE  IInv'
  <1>1. CASE Next
    <2>1. Before /\ MarksCounted /\ strong \in [Partition -> Nat] BY DEF IInv, Before, Types
    <2>2. MarksSeen BY <2>1, CountedSeen
    <2>3. Kept /\ MarksStep BY SMTT(20), <1>1, <2>1, <2>2, LawsHold, NextKept
    <2>4. MarksCounted' /\ strong' \in [Partition -> Nat] BY <2>1, <2>3, CountKept
    <2>5. QED BY <2>3, <2>4 DEF IInv, Kept, Types
  <1>2. CASE UNCHANGED vars
    <2>1. /\ table' = table /\ granted' = granted /\ fast' = fast /\ strong' = strong
          /\ isWaiting' = isWaiting /\ call' = call
      BY <1>2 DEF vars
    <2>2. Types' BY <2>1 DEF IInv, Types, Fields
    <2>3. Entries' BY <2>1 DEF IInv, Entries
    <2>4. Places'
      <3>1. ASSUME NEW u \in Thread, NEW g \in Tag, NEW n \in LockMode PROVE Place(u, g, n)'
        <4>1. Untouched(u, g, n) BY SMTT(20), <2>1 DEF Untouched, InTable, InQueue, Here, R
        <4>2. QED BY <4>1, UntouchedPlace DEF IInv, Places
      <3>2. QED BY <3>1 DEF Places
    <2>5. MarksCounted' BY SMTT(20), <2>1 DEF IInv, MarksCounted, Marks, HasMark
    <2>6. FastClosed' BY <2>1 DEF IInv, FastClosed, Here, InTable, InQueue, R
    <2>7. QED BY SMTT(20), <2>2, <2>3, <2>4, <2>5, <2>6 DEF IInv
  <1>3. QED BY <1>1, <1>2

\* The invariant holds in every reachable state.
THEOREM LockInvariant == Spec => []IInv
  <1>1. Init => IInv BY InitIInv
  <1>2. IInv /\ [Next]_vars => IInv' BY NextIInv
  <1>3. QED BY <1>1, <1>2, PTL DEF Spec

\* Every variable has its type.
THEOREM LockTypes == Spec => []TypeOK
  <1>1. IInv => TypeOK
    <2> SUFFICES ASSUME IInv PROVE TypeOK OBVIOUS
    <2>1. Types BY DEF IInv
    <2>2. \A tag \in Tag : table[tag] \in Entry BY <2>1 DEF Types, Fields
    <2>3. \A tag \in Tag :
            /\ table[tag].granted \subseteq Request
            /\ table[tag].waiting \in Seq(Request)
            /\ table[tag].grantedCnt \in [LockMode -> Nat]
            /\ table[tag].waitingCnt \in [LockMode -> Nat]
      BY <2>2 DEF Entry
    <2>4. QED BY <2>1, <2>3 DEF TypeOK, Types, Fields, CallRecord
  <1>2. QED BY <1>1, LockInvariant, PTL

\* A mode that conflicts with a weak one is strong.
LEMMA WeakConflicts ==
  ASSUME NEW m \in LockMode, NEW n \in WeakMode, HasConflictWithMode(m, n) \/ HasConflictWithMode(n, m)
  PROVE  m \in StrongMode
  <1>1. n \in LockMode BY DEF WeakMode
  <1>2. HasConflictWithMode(n, m) BY <1>1, ConflictSymmetric
  <1>3. m \in 1..8 /\ n \in 1..3 BY ModeFacts
  <1>4. m >= 5 BY SMTT(20), <1>1, <1>2, <1>3, ConflictTable
  <1>5. QED BY <1>3, <1>4, ModeFacts

\* A lock in the fast path conflicts with none in the table or in a queue.
LEMMA FastFits ==
  ASSUME IInv, NEW tag \in Tag, NEW t \in Thread, NEW n \in fast[t][tag],
         NEW u \in Thread, NEW m \in LockMode, InTable(u, tag, m) \/ InQueue(u, tag, m)
  PROVE  ~ HasConflictWithMode(m, n) /\ ~ HasConflictWithMode(n, m)
  <1> SUFFICES ASSUME HasConflictWithMode(m, n) \/ HasConflictWithMode(n, m) PROVE FALSE
    OBVIOUS
  <1>1. n \in WeakMode BY DEF IInv, Types, Fields
  <1>2. m \in StrongMode BY <1>1, WeakConflicts
  <1>3. tag \in TableTag BY DEF IInv, FastClosed
  <1>4. fast[t][tag] = {} BY SMTT(20), <1>2, <1>3 DEF IInv, FastClosed, IsStrong
  <1>5. QED BY <1>4

\* No two threads hold conflicting modes, in the table or through the fast path.
THEOREM LocksCompatible == Spec => []HoldersCompatible
  <1>1. IInv => HoldersCompatible
    <2> SUFFICES ASSUME IInv, NEW tag \in Tag, NEW r \in Holders(tag), NEW s \in Holders(tag),
                        r.thr # s.thr, HasConflictWithMode(r.mode, s.mode)
                 PROVE  FALSE
      BY DEF HoldersCompatible
    <2>1. table[tag] \in Entry /\ EntryInv(table[tag]) BY DEF IInv, Types, Fields, Entries
    <2>2. r \in Request /\ s \in Request BY <2>1 DEF Holders, Entry
    <2>3. /\ r.thr \in Thread /\ r.mode \in LockMode /\ r = R(r.thr, r.mode)
          /\ s.thr \in Thread /\ s.mode \in LockMode /\ s = R(s.thr, s.mode)
      BY <2>2 DEF Request, R
    <2>4. HasConflictWithMode(s.mode, r.mode) BY <2>3, ConflictSymmetric
    <2>5. CASE r \in table[tag].granted /\ s \in table[tag].granted
      <3>1. ~ Blocks(table[tag].granted, r) BY <2>1, <2>5 DEF EntryInv, Compatible
      <3>2. QED BY <2>5, <3>1 DEF Blocks
    <2>6. CASE r.mode \in fast[r.thr][tag] /\ s \in table[tag].granted
      <3>1. InTable(s.thr, tag, s.mode) BY <2>3, <2>6, Zenon DEF InTable
      <3>2. QED BY SMTT(20), <2>3, <2>6, <3>1, FastFits
    <2>7. CASE r \in table[tag].granted /\ s.mode \in fast[s.thr][tag]
      <3>1. InTable(r.thr, tag, r.mode) BY <2>3, <2>7, Zenon DEF InTable
      <3>2. QED BY SMTT(20), <2>3, <2>7, <3>1, FastFits
    <2>8. CASE r.mode \in fast[r.thr][tag] /\ s.mode \in fast[s.thr][tag]
      <3>1. r.mode \in WeakMode /\ s.mode \in WeakMode BY <2>3, <2>8 DEF IInv, Types, Fields
      <3>2. r.mode \in StrongMode BY SMTT(20), <2>3, <3>1, WeakConflicts
      <3>3. QED BY SMTT(20), <3>1, <3>2, ModeFacts
    <2>9. QED BY SMTT(20), <2>5, <2>6, <2>7, <2>8 DEF Holders
  <1>2. QED BY <1>1, LockInvariant, PTL

\* The record of a thread outside a call is what the table and the fast path hold for it.
THEOREM RecordsAreRight == Spec => []RecordsMatchTable
  <1>1. IInv => RecordsMatchTable
    <2> SUFFICES ASSUME IInv, NEW t \in Thread, call[t].pc = "idle", NEW tag \in Tag, NEW m \in LockMode
                 PROVE  /\ granted[t][tag][m] > 0 <=> R(t, m) \in Holders(tag)
                        /\ ~ (R(t, m) \in table[tag].granted /\ m \in fast[t][tag])
      BY DEF RecordsMatchTable, R
    <2>1. Place(t, tag, m) BY DEF IInv, Places
    <2>2. Settled(t, tag, m) BY <2>1 DEF Place, Here
    <2>3. R(t, m) \in Request /\ R(t, m).thr = t /\ R(t, m).mode = m BY RequestType
    <2>4. R(t, m) \in Holders(tag) <=> InTable(t, tag, m) \/ m \in fast[t][tag]
      BY SMTT(20), <2>3 DEF Holders, InTable
    <2>5. QED BY <2>2, <2>4 DEF Settled, InTable
  <1>2. QED BY <1>1, LockInvariant, PTL

\* No fast-path lock conflicts with a request that waits.
THEOREM FastPathIsQuiet == Spec => []FastPathQuiet
  <1>1. IInv => FastPathQuiet
    <2> SUFFICES ASSUME IInv, NEW tag \in Tag, NEW i \in DOMAIN table[tag].waiting, NEW t \in Thread,
                        HasConflictWithMask(table[tag].waiting[i].mode, fast[t][tag])
                 PROVE  FALSE
      BY DEF FastPathQuiet
    <2> DEFINE w == table[tag].waiting[i]
    <2>1. PICK n \in fast[t][tag] : HasConflictWithMode(w.mode, n) BY ConflictWithMask
    <2>2. w \in Waiters(table[tag]) BY DEF Waiters
    <2>3. Before BY DEF IInv, Before
    <2> HIDE DEF w
    <2>4. w.thr \in Thread /\ w.mode \in LockMode /\ InQueue(w.thr, tag, w.mode)
      BY SMTT(20), <2>2, <2>3, WaiterShape
    <2>5. QED BY <2>1, <2>4, FastFits
  <1>2. QED BY <1>1, LockInvariant, PTL

\* A partition's counter counts the marks not yet removed.
THEOREM StrongCountIsExact == Spec => []StrongCountExact
  <1>1. IInv => StrongCountExact BY DEF IInv, MarksCounted, Marks, StrongCountExact
  <1>2. QED BY <1>1, LockInvariant, PTL

\* The first waiter of a queue waits for a lock another thread holds.
THEOREM HeadWaitsForAHolder == Spec => []HeadIsBlocked
  <1>1. IInv => HeadIsBlocked
    <2> SUFFICES ASSUME IInv, NEW tag \in Tag, table[tag].waiting # <<>>
                 PROVE  Blocks(table[tag].granted, Head(table[tag].waiting))
      BY DEF HeadIsBlocked, Blocks
    <2>1. EntryInv(table[tag]) BY DEF IInv, Entries
    <2>2. table[tag].waiting \in Seq(Request) BY DEF IInv, Types, Fields, Entry
    <2>3. Head(table[tag].waiting) = table[tag].waiting[1] BY SMTT(20), <2>2
    <2>4. QED BY <2>1, <2>3 DEF EntryInv
  <1>2. QED BY <1>1, LockInvariant, PTL

\* No wakeup is lost and none comes without the lock.
THEOREM FlagsAreRight == Spec => []FlagMatchesQueue
  <1>1. IInv => FlagMatchesQueue
    <2> SUFFICES ASSUME IInv, NEW t \in Thread, call[t].pc \in {"waiting", "give_up"}
                 PROVE  /\ isWaiting[t] <=> IsWaiter(table[call[t].tag], Req(t))
                        /\ ~ isWaiting[t] <=> Req(t) \in table[call[t].tag].granted
      BY DEF FlagMatchesQueue
    <2>1. CallShape(call[t]) BY DEF IInv, Types, Fields
    <2>2. PICK tag \in Tag, m \in LockMode : call[t].tag = tag /\ call[t].mode = m
      BY <2>1 DEF CallShape
    <2>3. Here(t, tag, m) BY <2>2 DEF Here
    <2>4. Busy(t, tag, m) BY <2>3 DEF IInv, Places, Place
    <2>5. /\ isWaiting[t] <=> InQueue(t, tag, m)
          /\ ~ isWaiting[t] <=> InTable(t, tag, m)
      BY <2>4 DEF Busy
    <2>6. Req(t) = R(t, m) BY <2>2 DEF Req, R
    <2>7. IsWaiter(table[tag], R(t, m)) <=> InQueue(t, tag, m) BY WaiterFound DEF InQueue
    <2>8. R(t, m) \in table[tag].granted <=> InTable(t, tag, m) BY DEF InTable
    <2>9. isWaiting[t] <=> IsWaiter(table[call[t].tag], Req(t)) BY <2>2, <2>5, <2>6, <2>7, Zenon
    <2>10. ~ isWaiting[t] <=> Req(t) \in table[call[t].tag].granted BY <2>2, <2>5, <2>6, <2>8, Zenon
    <2>11. QED BY <2>9, <2>10, Zenon
  <1>2. QED BY <1>1, LockInvariant, PTL

\* A queue holds, once each, the requests of threads that wait.
THEOREM QueuesAreRight == Spec => []QueueMatchesCalls
  <1>1. IInv => QueueMatchesCalls
    <2>1. ASSUME IInv, NEW tag \in Tag, NEW i \in DOMAIN table[tag].waiting,
                 NEW w, w = table[tag].waiting[i]
          PROVE  /\ call[w.thr].pc \in {"waiting", "give_up"}
                 /\ call[w.thr].tag = tag /\ call[w.thr].mode = w.mode
                 /\ w = R(w.thr, w.mode)
      <3>1. w \in Waiters(table[tag]) BY <2>1 DEF Waiters
      <3>2. Before BY <2>1 DEF IInv, Before
      <3>3. /\ w.thr \in Thread /\ w.mode \in LockMode /\ w = R(w.thr, w.mode)
            /\ InQueue(w.thr, tag, w.mode)
        BY SMTT(20), <3>1, <3>2, WaiterShape
      <3>4. Here(w.thr, tag, w.mode) /\ call[w.thr].pc \in {"waiting", "give_up"}
        BY SMTT(20), <3>2, <3>3, QueuedWaits
      <3>5. QED BY <3>3, <3>4 DEF Here
    <2>2. ASSUME IInv, NEW tag \in Tag, NEW i \in DOMAIN table[tag].waiting,
                 NEW j \in DOMAIN table[tag].waiting,
                 table[tag].waiting[i].thr = table[tag].waiting[j].thr
          PROVE  i = j
      <3> DEFINE v == table[tag].waiting[i]
                 w == table[tag].waiting[j]
      <3>1. v.mode = w.mode /\ v = R(v.thr, v.mode) /\ w = R(w.thr, w.mode) BY <2>1, <2>2
      <3>2. v = w BY <2>2, <3>1
      <3>3. EntryInv(table[tag]) BY SMTT(20), <2>2 DEF IInv, Entries
      <3>4. QED BY SMTT(20), <3>2, <3>3 DEF EntryInv, Counted
    <2>3. ASSUME IInv, NEW tag \in Tag, NEW i \in DOMAIN table[tag].waiting
          PROVE  /\ call[table[tag].waiting[i].thr].pc \in {"waiting", "give_up"}
                 /\ call[table[tag].waiting[i].thr].tag = tag
                 /\ call[table[tag].waiting[i].thr].mode = table[tag].waiting[i].mode
      BY SMTT(20), <2>1, <2>3
    <2>4. QED BY ZenonT(40), <2>2, <2>3 DEF QueueMatchesCalls
  <1>2. QED BY <1>1, LockInvariant, PTL

\* The counters of every entry count its holders and its waiters, mode by mode.
THEOREM CountersAreExact == Spec => []CountersExact
  <1>1. IInv => CountersExact
    <2> SUFFICES ASSUME IInv, NEW tag \in Tag, NEW m \in LockMode, NEW e, e = table[tag]
                 PROVE  /\ e.grantedCnt[m] = Cardinality({r \in e.granted : r.mode = m})
                        /\ e.waitingCnt[m] =
                             Cardinality({i \in DOMAIN e.waiting : e.waiting[i].mode = m})
      BY DEF CountersExact
    <2>1. Counted(e) BY DEF IInv, Entries, EntryInv
    <2>2. /\ e.grantedCnt[m] = Cardinality(OfMode(e.granted, m))
          /\ e.waitingCnt[m] = Cardinality(OfMode(Waiters(e), m))
      BY <2>1 DEF Counted, Exact
    <2>3. Cardinality({i \in DOMAIN e.waiting : e.waiting[i].mode = m})
            = Cardinality(OfMode(Waiters(e), m))
      BY <2>1, CountWaiters DEF Counted
    <2>4. OfMode(e.granted, m) = {r \in e.granted : r.mode = m} BY DEF OfMode
    <2>5. QED BY SMTT(20), <2>2, <2>3, <2>4
  <1>2. QED BY <1>1, LockInvariant, PTL

-----------------------------------------------------------------------------
(* The order of grants.                                                    *)

(* What became of an entry, e, respects the order of its queue. *)
InOrder(tag, e) ==
  \A r \in e.granted \ table[tag].granted, i \in DOMAIN table[tag].waiting :
    /\ \E k \in DOMAIN e.waiting : e.waiting[k] = table[tag].waiting[i]
    /\ HasConflictWithMode(r.mode, table[tag].waiting[i].mode)
    => \/ \E j \in DOMAIN table[tag].waiting : j < i /\ table[tag].waiting[j] = r
       \/ \E k \in BlockedWaiters(table[tag], r.thr) : k <= i

\* A step on one entry, and on none.
LEMMA EntryInOrder ==
  ASSUME Types, NEW tag \in Tag, NEW e, EntryBecomes(tag, e), InOrder(tag, e)
  PROVE  GrantsInOrder
  <1>1. table \in [Tag -> Entry] BY DEF Types, Fields
  <1>2. table'[tag] = e /\ \A g \in Tag : g # tag => table'[g] = table[g]
    BY <1>1 DEF EntryBecomes
  <1>3. QED BY Zenon, <1>2 DEF GrantsInOrder, InOrder

\* A step that leaves the table alone grants nothing.
LEMMA SameInOrder ==
  ASSUME table' = table
  PROVE  GrantsInOrder
  BY Zenon DEF GrantsInOrder

\* A request that enters the table.
LEMMA EnqueueInOrder ==
  ASSUME Before, EntryLaws, NEW tag \in Tag, NEW r \in Request, NEW dontWait \in BOOLEAN, NEW res,
         res = EnqueueLockRequest(table[tag], r, dontWait), NEW e,
         e.granted = res.entry.granted, e.waiting = res.entry.waiting
  PROVE  InOrder(tag, e)
  <1>1. EntryInv(table[tag]) BY Zenon DEF Before, Entries
  <1>2. EnqueueOK(table[tag], r, dontWait, res) BY Zenon, <1>1 DEF EntryLaws
  <1>3. /\ res.ret \in {"granted", "waiting", "not_avail", "deadlock"}
        /\ res.ret = "granted" =>
             /\ res.entry.granted = table[tag].granted \cup {r}
             /\ \A i \in DOMAIN table[tag].waiting :
                  HasConflictWithMode(r.mode, table[tag].waiting[i].mode) =>
                    \E k \in BlockedWaiters(table[tag], r.thr) : k <= i
        /\ res.ret = "waiting" => res.entry.granted = table[tag].granted
        /\ res.ret \in {"not_avail", "deadlock"} => res.entry = table[tag]
    BY Zenon, <1>2 DEF EnqueueOK
  <1>4. CASE res.ret = "granted" BY Zenon, <1>3, <1>4 DEF InOrder
  <1>5. CASE res.ret # "granted"
    <2>1. e.granted = table[tag].granted BY <1>3, <1>5
    <2>2. QED BY Zenon, <2>1 DEF InOrder
  <1>6. QED BY Zenon, <1>4, <1>5

\* A request that leaves the table.
LEMMA DequeueInOrder ==
  ASSUME Before, EntryLaws, NEW tag \in Tag, NEW r, NEW res,
         res = DequeueLockRequest(table[tag], r), NEW e,
         e.granted = res.entry.granted, e.waiting = res.entry.waiting
  PROVE  InOrder(tag, e)
  <1> DEFINE q == IF r \in table[tag].granted THEN Waiters(table[tag])
                                              ELSE Waiters(table[tag]) \ {r}
  <1>1. EntryInv(table[tag]) BY Zenon DEF Before, Entries
  <1>2. DequeueOK(table[tag], r, res) BY Zenon, <1>1 DEF EntryLaws
  <1>3. PICK W \in SUBSET q :
          /\ res.entry.granted = (table[tag].granted \ {r}) \cup W
          /\ \A i \in DOMAIN table[tag].waiting : table[tag].waiting[i] \in Waiters(res.entry) =>
               \A w \in W : \E j \in DOMAIN table[tag].waiting : j < i /\ table[tag].waiting[j] = w
    BY <1>2, Zenon DEF DequeueOK
  <1>4. \A x \in e.granted \ table[tag].granted : x \in W BY Zenon, <1>3
  <1>5. \A i \in DOMAIN table[tag].waiting :
          (\E k \in DOMAIN e.waiting : e.waiting[k] = table[tag].waiting[i])
            => table[tag].waiting[i] \in Waiters(res.entry)
    BY Zenon DEF Waiters
  <1>6. QED BY Zenon, <1>3, <1>4, <1>5 DEF InOrder

\* Every step grants in order.
LEMMA NextInOrder ==
  ASSUME Before, EntryLaws, Next
  PROVE  GrantsInOrder
  <1>1. ASSUME NEW e, EntryInv(e)
        PROVE  RemoveIfUnused(e).granted = e.granted /\ RemoveIfUnused(e).waiting = e.waiting
    BY <1>1 DEF EntryLaws
  <1>2. ASSUME NEW t \in Thread, call[t].pc # "idle"
        PROVE  /\ call[t].tag \in Tag /\ call[t].mode \in LockMode /\ call[t].dontWait \in BOOLEAN
               /\ Req(t) \in Request /\ EntryInv(table[call[t].tag])
    <2>1. CallShape(call[t]) /\ call[t] \in CallRecord BY DEF Before, Types, Fields
    <2>2. call[t].tag \in Tag /\ call[t].mode \in LockMode BY <1>2, <2>1 DEF CallShape
    <2>3. QED BY Zenon, <2>1, <2>2 DEF CallRecord, Req, Request, Before, Entries
  <1>3. ASSUME NEW t \in Thread, NEW u \in Thread, TransferOneWeakLock(t, u)
        PROVE  GrantsInOrder
    <2> DEFINE tag == call[t].tag
               n   == CHOOSE k \in fast[u][tag] : \A j \in fast[u][tag] : k <= j
               res == EnqueueLockRequest(table[tag], [thr |-> u, mode |-> n], TRUE)
    <2>1. /\ fast[u][tag] # {} /\ call[t].pc # "idle"
          /\ table' = table \/ table' = [table EXCEPT ![tag] = res.entry]
      BY <1>3, Zenon DEF TransferOneWeakLock
    <2>2. tag \in Tag BY Zenon, <1>2, <2>1
    <2>3. fast[u][tag] \subseteq WeakMode BY <2>2 DEF Before, Types, Fields
    <2>4. n \in LockMode BY Zenon, <2>1, <2>3, LeastMode DEF WeakMode
    <2> HIDE DEF n, tag
    <2>5. [thr |-> u, mode |-> n] \in Request BY <2>4 DEF Request
    <2> HIDE DEF res
    <2>6. InOrder(tag, res.entry) BY Zenon, <2>2, <2>5, EnqueueInOrder DEF res
    <2>7. QED BY SMTT(20), <2>1, <2>2, <2>6, EntryInOrder, SameInOrder DEF EntryBecomes, Before
  <1>4. ASSUME NEW t \in Thread, LockRequestEnqueue(t)
        PROVE  GrantsInOrder
    <2> DEFINE tag == call[t].tag
               res == EnqueueLockRequest(table[tag], Req(t), call[t].dontWait)
               e   == RemoveIfUnused(res.entry)
    <2>1. call[t].pc # "idle" /\ (table' = table \/ table' = [table EXCEPT ![tag] = e])
      BY <1>4, Zenon DEF LockRequestEnqueue
    <2>2. /\ tag \in Tag /\ call[t].dontWait \in BOOLEAN /\ Req(t) \in Request
          /\ EntryInv(table[tag])
      BY Zenon, <1>2, <2>1
    <2> HIDE DEF tag
    <2>3. EnqueueOK(table[tag], Req(t), call[t].dontWait, res) BY Zenon, <2>2 DEF EntryLaws
    <2> HIDE DEF res
    <2>4. e.granted = res.entry.granted /\ e.waiting = res.entry.waiting
      BY Zenon, <1>1, <2>3 DEF EnqueueOK
    <2> HIDE DEF e
    <2>5. InOrder(tag, e) BY Zenon, <2>2, <2>4, EnqueueInOrder DEF res
    <2>6. QED BY SMTT(20), <2>1, <2>2, <2>5, EntryInOrder, SameInOrder DEF EntryBecomes, Before
  <1>5. ASSUME NEW t \in Thread, call[t].pc # "idle", LockRequestDequeue(t)
        PROVE  GrantsInOrder
    <2> DEFINE tag == call[t].tag
               res == DequeueLockRequest(table[tag], Req(t))
               e   == RemoveIfUnused(res.entry)
    <2>1. table' = [table EXCEPT ![tag] = e] BY <1>5, Zenon DEF LockRequestDequeue
    <2>2. tag \in Tag /\ EntryInv(table[tag]) BY SMTT(20), <1>2, <1>5
    <2> HIDE DEF tag
    <2>3. DequeueOK(table[tag], Req(t), res) BY <2>2 DEF EntryLaws
    <2> HIDE DEF res
    <2>4. EntryInv(res.entry) BY <2>3, Zenon DEF DequeueOK
    <2>5. e.granted = res.entry.granted /\ e.waiting = res.entry.waiting BY SMTT(20), <1>1, <2>4
    <2> HIDE DEF e
    <2>6. InOrder(tag, e) BY Zenon, <2>2, <2>5, DequeueInOrder DEF res
    <2>7. QED BY Zenon, <2>1, <2>2, <2>6, EntryInOrder DEF EntryBecomes, Before
  <1>6. PICK t \in Thread : Lock(t) \/ Unlock(t) \/ BatchUnlock(t) \/ StopWaiting(t) \/ CallStep(t)
    BY DEF Next
  <1>7. CASE Lock(t) \/ Unlock(t) \/ BatchUnlock(t) \/ StopWaiting(t)
    <2>1. table' = table BY Zenon, <1>7 DEF Lock, Unlock, BatchUnlock, StopWaiting
    <2>2. QED BY SMTT(20), <2>1, SameInOrder
  <1>8. CASE CallStep(t)
    <2>1. CASE \E u \in Thread : TransferOneWeakLock(t, u) BY SMTT(20), <1>3, <2>1
    <2>2. CASE LockRequestEnqueue(t) BY SMTT(20), <1>4, <2>2
    <2>3. CASE DequeueAfterWait(t) \/ UnlockInMainLockTable(t)
      <3>1. call[t].pc # "idle" /\ LockRequestDequeue(t)
        BY Zenon, <2>3 DEF DequeueAfterWait, UnlockInMainLockTable
      <3>2. QED BY SMTT(20), <1>5, <3>1
    <2>4. CASE \/ MarkStrongLockInFastPath(t) \/ EndTransfer(t) \/ NormalWakeup(t)
               \/ (\E u \in Thread : SkipThread(t, u))
               \/ UnmarkStrongLockInFastPath(t) \/ RecordLockResult(t) \/ RemoveLockRecord(t)
      <3>1. table' = table
        BY Zenon, <2>4 DEF MarkStrongLockInFastPath, EndTransfer, NormalWakeup, SkipThread,
                    UnmarkStrongLockInFastPath, RecordLockResult, RemoveLockRecord
      <3>2. QED BY <3>1, SameInOrder
    <2>5. QED BY <1>8, <2>1, <2>2, <2>3, <2>4, Zenon DEF CallStep
  <1>9. QED BY SMTT(20), <1>6, <1>7, <1>8

\* No grant overtakes a conflicting waiter, but for a thread that already blocks one.
THEOREM GrantsKeepOrder == Spec => NoOvertaking
  <1>1. IInv /\ [Next]_vars => [GrantsInOrder]_vars
    <2>1. ASSUME IInv, Next PROVE GrantsInOrder
      <3>1. Before BY <2>1 DEF IInv, Before
      <3>2. QED BY SMTT(20), <2>1, <3>1, LawsHold, NextInOrder
    <2>2. QED BY <2>1
  <1>2. QED BY <1>1, LockInvariant, PTL DEF Spec, NoOvertaking

=============================================================================
