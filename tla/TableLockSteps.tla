--------------------------- MODULE TableLockSteps ---------------------------
(***************************************************************************)
(* What the steps of the lock manager change, and what they keep of        *)
(* TableLockMgrInv's invariant.  The steps that go to the main table take  *)
(* what they need of the entry's operations as an assumption; the proofs   *)
(* of those are in LockEntryProofs.                                        *)
(***************************************************************************)
EXTENDS TableLockMgrInv, TLAPS

-----------------------------------------------------------------------------
(* What a step leaves alone.                                               *)

(* A step that does not touch the lock of u on g in mode n. *)
Untouched(u, g, n) ==
  /\ granted'[u][g][n] = granted[u][g][n]
  /\ n \in fast'[u][g] <=> n \in fast[u][g]
  /\ InTable(u, g, n)' <=> InTable(u, g, n)
  /\ InQueue(u, g, n)' <=> InQueue(u, g, n)
  /\ Here(u, g, n)' <=> Here(u, g, n)
  /\ Here(u, g, n) =>
       /\ call'[u].pc = call[u].pc /\ call'[u].ok = call[u].ok /\ call'[u].batch = call[u].batch
       /\ isWaiting'[u] = isWaiting[u]

(* A step that touches one lock of one thread only. *)
Frame(t, tag, m) ==
  \A u \in Thread, g \in Tag, n \in LockMode :
    u # t \/ g # tag \/ n # m => Untouched(u, g, n)

(* A step of t that leaves the main table alone and touches, besides its   *)
(* call, only its own record of one lock, the one the call is about.       *)
LocalStep(t, tag, m) ==
  /\ table' = table
  /\ isWaiting' \in [Thread -> BOOLEAN]
  /\ call' \in [Thread -> CallRecord]
  /\ granted' \in [Thread -> [Tag -> [LockMode -> Int]]]
  /\ fast' \in [Thread -> [Tag -> SUBSET WeakMode]]
  /\ \A u \in Thread : u # t =>
       /\ call'[u] = call[u] /\ granted'[u] = granted[u] /\ fast'[u] = fast[u]
       /\ isWaiting'[u] = isWaiting[u]
  /\ \A g \in Tag, n \in LockMode : g # tag \/ n # m =>
       granted'[t][g][n] = granted[t][g][n] /\ (n \in fast'[t][g] <=> n \in fast[t][g])
  /\ call[t].pc = "idle" \/ (call[t].tag = tag /\ call[t].mode = m)
  /\ call'[t].pc = "idle" \/ (call'[t].tag = tag /\ call'[t].mode = m)

\* Facts about the modes.
LEMMA ModeFacts ==
  /\ LockMode = 1..8 /\ WeakMode = 1..3 /\ StrongMode = 5..8
  /\ \A tag, m : ~ (IsWeak(tag, m) /\ IsStrong(tag, m))
  <1>1. LockMode = 1..8 BY DEF LockMode
  <1>2. WeakMode = 1..3 BY <1>1 DEF WeakMode, ShareUpdateExclusive
  <1>3. StrongMode = 5..8 BY <1>1 DEF StrongMode, ShareUpdateExclusive
  <1>4. QED BY <1>1, <1>2, <1>3 DEF IsWeak, IsStrong

(* Outcomes of a step for the call and for the record of its thread. *)
CallFrame(t) ==
  /\ call' \in [Thread -> CallRecord]
  /\ \A u \in Thread : u # t => call'[u] = call[u]

Started(t, pc, tag, m, dontWait, batch) ==
  /\ CallFrame(t)
  /\ call'[t].pc = pc /\ call'[t].tag = tag /\ call'[t].mode = m
  /\ call'[t].dontWait = dontWait /\ call'[t].batch = batch
  /\ call'[t].ok = FALSE /\ call'[t].todo = {} /\ call'[t].cur = {}

(* The call keeps its arguments. *)
Became(t, pc, ok, todo, cur) ==
  /\ CallFrame(t)
  /\ call'[t].pc = pc /\ call'[t].tag = call[t].tag /\ call'[t].mode = call[t].mode
  /\ call'[t].dontWait = call[t].dontWait /\ call'[t].batch = call[t].batch
  /\ call'[t].ok = ok /\ call'[t].todo = todo /\ call'[t].cur = cur

AddGrants(t, tag, m, d) == granted' = [granted EXCEPT ![t][tag][m] = @ + d]

GrantsAdded(t, tag, m, d) ==
  /\ granted' \in [Thread -> [Tag -> [LockMode -> Int]]]
  /\ \A u \in Thread : u # t => granted'[u] = granted[u]
  /\ \A g \in Tag, n \in LockMode : g # tag \/ n # m => granted'[t][g][n] = granted[t][g][n]
  /\ granted'[t][tag][m] = granted[t][tag][m] + d

\* A call that starts.
LEMMA StartEffect ==
  ASSUME Types, NEW t \in Thread, NEW pc \in PCs, NEW tag \in Tag, NEW m \in LockMode,
         NEW dontWait \in BOOLEAN, NEW batch \in BOOLEAN, StartCall(t, pc, tag, m, dontWait, batch)
  PROVE  Started(t, pc, tag, m, dontWait, batch)
  <1> DEFINE c == [IdleCall EXCEPT !.pc = pc, !.tag = tag, !.mode = m,
                                   !.dontWait = dontWait, !.batch = batch]
  <1>1. call \in [Thread -> CallRecord] BY DEF Types, Fields
  <1>2. /\ c.pc = pc /\ c.tag = tag /\ c.mode = m /\ c.dontWait = dontWait /\ c.batch = batch
        /\ c.ok = FALSE /\ c.todo = {} /\ c.cur = {} /\ c \in CallRecord
    BY Zenon DEF IdleCall, CallRecord
  <1>3. call' = [call EXCEPT ![t] = c] BY DEF StartCall
  <1> HIDE DEF c
  <1>4. QED BY <1>1, <1>2, <1>3 DEF Started, CallFrame

\* A call that returns.
LEMMA ReturnEffect ==
  ASSUME Types, NEW t \in Thread, Return(t)
  PROVE  CallFrame(t) /\ call'[t] = IdleCall
  <1>1. call \in [Thread -> CallRecord] BY DEF Types, Fields
  <1>2. IdleCall \in CallRecord BY DEF IdleCall, CallRecord, PCs
  <1>3. QED BY <1>1, <1>2 DEF Return, CallFrame

\* A call that goes to its next step.
LEMMA GotoEffect ==
  ASSUME Types, NEW t \in Thread, NEW pc \in PCs, Goto(t, pc)
  PROVE  Became(t, pc, call[t].ok, call[t].todo, call[t].cur)
  <1>1. call \in [Thread -> CallRecord] BY DEF Types, Fields
  <1>2. QED BY <1>1 DEF Goto, CallRecord, Became, CallFrame

\* A call that learns what became of its request.
LEMMA SetPcOk ==
  ASSUME call \in [Thread -> CallRecord], NEW t \in Thread, NEW pc \in PCs, NEW ok \in BOOLEAN,
         call' = [call EXCEPT ![t].pc = pc, ![t].ok = ok]
  PROVE  Became(t, pc, ok, call[t].todo, call[t].cur)
  <1> DEFINE c == [call[t] EXCEPT !.pc = pc, !.ok = ok]
  <1>1. call[t] \in CallRecord /\ call'[t] = c /\ \A u \in Thread : u # t => call'[u] = call[u]
    OBVIOUS
  <1>2. c.pc = pc /\ c.ok = ok
    BY <1>1 DEF CallRecord
  <1>3. c.tag = call[t].tag /\ c.mode = call[t].mode /\ c.dontWait = call[t].dontWait /\ c.batch = call[t].batch /\ c.todo = call[t].todo /\ c.cur = call[t].cur
    BY <1>1 DEF CallRecord
  <1>4. c \in CallRecord BY Zenon, <1>1 DEF CallRecord
  <1>5. call' \in [Thread -> CallRecord] BY <1>4
  <1> HIDE DEF c
  <1>6. QED BY <1>1, <1>2, <1>3, <1>5 DEF Became, CallFrame

\* A call whose lock is granted goes on to record it.
LEMMA GrantedEffect ==
  ASSUME Types, NEW t \in Thread, Granted(t)
  PROVE  Became(t, "record", TRUE, call[t].todo, call[t].cur)
  <1>1. call \in [Thread -> CallRecord] BY DEF Types, Fields
  <1>2. "record" \in PCs /\ TRUE \in BOOLEAN BY DEF PCs
  <1>3. call' = [call EXCEPT ![t].pc = "record", ![t].ok = TRUE] BY DEF Granted
  <1>4. QED BY ONLY Zenon, <1>1, <1>2, <1>3, SetPcOk, t \in Thread

\* A call that fails gives its strong mark back first, if it set one.
LEMMA FailedEffect ==
  ASSUME Types, NEW t \in Thread, Failed(t)
  PROVE  Became(t, IF IsStrong(call[t].tag, call[t].mode) THEN "unmark_failed" ELSE "record",
                FALSE, call[t].todo, call[t].cur)
  <1> DEFINE pc == IF IsStrong(call[t].tag, call[t].mode) THEN "unmark_failed" ELSE "record"
  <1>1. call \in [Thread -> CallRecord] BY DEF Types, Fields
  <1>2. pc \in PCs /\ FALSE \in BOOLEAN BY DEF PCs
  <1>3. call' = [call EXCEPT ![t].pc = pc, ![t].ok = FALSE] BY DEF Failed
  <1> HIDE DEF pc
  <1>4. Became(t, pc, FALSE, call[t].todo, call[t].cur)
    BY ONLY Zenon, <1>1, <1>2, <1>3, SetPcOk, t \in Thread
  <1>5. QED BY Zenon, <1>4 DEF pc

\* A grant and a release in the thread's own record.
LEMMA GrantEffect ==
  ASSUME Types, NEW t \in Thread, NEW tag \in Tag, NEW m \in LockMode, NEW d \in Int,
         AddGrants(t, tag, m, d)
  PROVE  GrantsAdded(t, tag, m, d)
  <1>1. granted \in [Thread -> [Tag -> [LockMode -> 0..MaxGranted]]] /\ MaxGranted \in Nat
    BY CallAssumption DEF Types, Fields
  <1>2. granted \in [Thread -> [Tag -> [LockMode -> Int]]] BY <1>1
  <1> HIDE DEF Types
  <1>3. QED BY <1>2 DEF AddGrants, GrantsAdded

-----------------------------------------------------------------------------
(* What a step keeps by leaving locks alone.                               *)

\* A lock that a step does not touch stays where it is, and keeps its mark.
LEMMA UntouchedPlace ==
  ASSUME NEW u \in Thread, NEW g \in Tag, NEW n \in LockMode, Untouched(u, g, n), Place(u, g, n)
  PROVE  Place(u, g, n)'
  <1>1. CASE Here(u, g, n)
    <2>1. Busy(u, g, n) /\ Here(u, g, n)' BY <1>1 DEF Place, Untouched
    <2>2. Busy(u, g, n)' BY <1>1, <2>1 DEF Untouched, Busy
    <2>3. QED BY <2>1, <2>2 DEF Place
  <1>2. CASE ~ Here(u, g, n)
    <2>1. Settled(u, g, n) /\ ~ Here(u, g, n)' BY <1>2 DEF Place, Untouched
    <2>2. Settled(u, g, n)' BY <2>1 DEF Untouched, Settled
    <2>3. QED BY <2>1, <2>2 DEF Place
  <1>3. QED BY <1>1, <1>2

\* A step that touches one lock keeps the places of all locks if it keeps that one's.
LEMMA FramePlaces ==
  ASSUME Places, NEW t \in Thread, NEW tag \in Tag, NEW m \in LockMode,
         Frame(t, tag, m), Place(t, tag, m)'
  PROVE  Places'
  <1> SUFFICES ASSUME NEW u \in Thread, NEW g \in Tag, NEW n \in LockMode
               PROVE  Place(u, g, n)'
    BY DEF Places
  <1>1. Place(u, g, n) BY DEF Places
  <1>2. CASE u # t \/ g # tag \/ n # m BY <1>1, <1>2, UntouchedPlace DEF Frame
  <1>3. QED BY <1>2

\* A local step touches only the lock it is about.
LEMMA LocalFrame ==
  ASSUME Types, NEW t \in Thread, NEW tag \in Tag, NEW m \in LockMode, LocalStep(t, tag, m)
  PROVE  Frame(t, tag, m)
  <1> SUFFICES ASSUME NEW u \in Thread, NEW g \in Tag, NEW n \in LockMode,
                      u # t \/ g # tag \/ n # m
               PROVE  Untouched(u, g, n)
    BY DEF Frame
  <1>1. InTable(u, g, n)' = InTable(u, g, n) /\ InQueue(u, g, n)' = InQueue(u, g, n)
    BY DEF LocalStep, InTable, InQueue, R
  <1>2. CASE u # t BY <1>1, <1>2 DEF LocalStep, Untouched, Here
  <1>3. CASE u = t BY <1>1, <1>3 DEF LocalStep, Untouched, Here
  <1>4. QED BY <1>2, <1>3

\* The types after a local step.
LEMMA LocalFields ==
  ASSUME Types, NEW t \in Thread, NEW tag \in Tag, NEW m \in LockMode, LocalStep(t, tag, m),
         CallShape(call'[t]), granted'[t][tag][m] \in 0..MaxGranted
  PROVE  Fields'
  <1>1. granted \in [Thread -> [Tag -> [LockMode -> 0..MaxGranted]]] /\ Fields
    BY DEF Types, Fields
  <1>2. \A u \in Thread : CallShape(call'[u])
    BY Zenon, <1>1 DEF LocalStep, Fields
  <1>3. ASSUME NEW u \in Thread, NEW g \in Tag, NEW n \in LockMode
        PROVE  granted'[u][g][n] \in 0..MaxGranted
    <2>1. granted[u][g][n] \in 0..MaxGranted BY <1>1
    <2>2. CASE u # t BY <2>1, <2>2 DEF LocalStep
    <2>3. CASE u = t /\ (g # tag \/ n # m)
      <3>1. granted'[t][g][n] = granted[t][g][n] BY <2>3 DEF LocalStep
      <3>2. QED BY <2>1, <2>3, <3>1
    <2>4. QED BY <2>2, <2>3
  <1>4. granted' \in [Thread -> [Tag -> [LockMode -> 0..MaxGranted]]]
    BY <1>3 DEF LocalStep
  <1>5. QED BY <1>1, <1>2, <1>4 DEF LocalStep, Fields

(* The fast path only loses locks. *)
FastShrinks == \A u \in Thread, g \in Tag : fast'[u][g] \subseteq fast[u][g]

(* A call c has no fast-path lock on its tag to fear. *)
TransferOK(c, f) ==
  c.pc = "transfer" => \A u \in Thread : u \in c.todo \cup c.cur \/ f[u][c.tag] = {}
ArrivedOK(c, f) ==
  c.pc = "enqueue" /\ IsStrong(c.tag, c.mode) => \A u \in Thread : f[u][c.tag] = {}

(* The marks that stand before and after a step. *)
OtherMarks(t, tag, m) ==
  \A u \in Thread, g \in Tag, n \in StrongMode :
    u # t \/ g # tag \/ n # m => (HasMark(u, g, n)' <=> HasMark(u, g, n))

MarksKept ==
  /\ strong' = strong
  /\ \A u \in Thread, g \in Tag, n \in StrongMode : HasMark(u, g, n)' <=> HasMark(u, g, n)

MarkMade(t, tag, m) ==
  /\ strong' = [strong EXCEPT ![PartOf[tag]] = @ + 1]
  /\ ~ HasMark(t, tag, m) /\ HasMark(t, tag, m)'
  /\ OtherMarks(t, tag, m)

MarkGone(t, tag, m) ==
  /\ strong' = [strong EXCEPT ![PartOf[tag]] = @ - 1]
  /\ HasMark(t, tag, m) /\ ~ HasMark(t, tag, m)'
  /\ OtherMarks(t, tag, m)

MarksStep ==
  \/ MarksKept
  \/ \E t \in Thread, tag \in Tag, m \in StrongMode : MarkMade(t, tag, m) \/ MarkGone(t, tag, m)

(* What every step keeps, and how it changes the marks. *)
Before == Types /\ Entries /\ Places /\ FastClosed
Kept   == Fields' /\ Entries' /\ Places' /\ FastClosed'

\* The marks of other locks after a step that touches one lock.
LEMMA FrameMarks ==
  ASSUME NEW t \in Thread, NEW tag \in Tag, NEW m \in LockMode, Frame(t, tag, m)
  PROVE  OtherMarks(t, tag, m)
  \* A lock a step does not touch keeps its strong mark.
  <1>Mark. ASSUME NEW u \in Thread, NEW g \in Tag, NEW n \in LockMode, Untouched(u, g, n)
           PROVE  HasMark(u, g, n)' <=> HasMark(u, g, n)
    BY <1>Mark DEF Untouched, HasMark, Here
  <1>1. \A n \in StrongMode : n \in LockMode BY DEF StrongMode
  <1>2. QED BY <1>1, <1>Mark DEF Frame, OtherMarks

\* A step about one lock that keeps its mark and the strong counters keeps all marks.
LEMMA FrameMarksKept ==
  ASSUME NEW t \in Thread, NEW tag \in Tag, NEW m \in LockMode, Frame(t, tag, m),
         strong' = strong, HasMark(t, tag, m)' <=> HasMark(t, tag, m)
  PROVE  MarksKept
  <1>1. OtherMarks(t, tag, m) BY FrameMarks
  <1>2. QED BY <1>1 DEF OtherMarks, MarksKept

\* A local step of t, in all.
LEMMA LocalKept ==
  ASSUME Before, NEW t \in Thread, NEW tag \in Tag, NEW m \in LockMode, LocalStep(t, tag, m),
         CallShape(call'[t]), granted'[t][tag][m] \in 0..MaxGranted, Place(t, tag, m)',
         FastShrinks, TransferOK(call'[t], fast'), ArrivedOK(call'[t], fast')
  PROVE  Kept
  \* The fast path after a local step that adds nothing to it.
  <1>Fast. ASSUME Types, FastClosed
           PROVE  FastClosed'
    <2> USE <1>Fast
    <2>0. /\ call' \in [Thread -> CallRecord] /\ \A u \in Thread : u # t => call'[u] = call[u]
          /\ table' = table
      BY DEF LocalStep
    <2>1. \A u \in Thread, g \in Tag : fast'[u][g] # {} => g \in TableTag
      BY DEF FastClosed, FastShrinks
    <2>2. ASSUME NEW v \in Thread, NEW u \in Thread, call'[v].pc = "transfer"
          PROVE  u \in call'[v].todo \cup call'[v].cur \/ fast'[u][call'[v].tag] = {}
      <3>1. CASE v = t BY <2>2, <3>1 DEF TransferOK
      <3>2. CASE v # t
        <4>1. call'[v] = call[v] BY <2>0, <3>2
        <4>2. call[v].tag \in Tag BY <2>2, <4>1 DEF Types, Fields, CallShape
        <4>3. u \in call[v].todo \cup call[v].cur \/ fast[u][call[v].tag] = {}
          BY <2>2, <4>1 DEF FastClosed
        <4>4. fast'[u][call[v].tag] \subseteq fast[u][call[v].tag] BY <4>2 DEF FastShrinks
        <4>5. QED BY <4>1, <4>3, <4>4
      <3>3. QED BY <3>1, <3>2
    <2>3. ASSUME NEW v \in Thread, NEW g \in Tag, NEW n \in LockMode, IsStrong(g, n),
                 \/ InTable(v, g, n)' \/ InQueue(v, g, n)'
                 \/ Here(v, g, n)' /\ call'[v].pc = "enqueue",
                 NEW u \in Thread
          PROVE  fast'[u][g] = {}
      <3>1. InTable(v, g, n)' = InTable(v, g, n) /\ InQueue(v, g, n)' = InQueue(v, g, n)
        BY <2>0 DEF InTable, InQueue
      <3>2. CASE v = t /\ Here(v, g, n)' /\ call'[v].pc = "enqueue"
        BY <2>3, <3>2 DEF ArrivedOK, Here
      <3>3. CASE ~ (v = t /\ Here(v, g, n)' /\ call'[v].pc = "enqueue")
        <4>1. \/ InTable(v, g, n) \/ InQueue(v, g, n)
              \/ Here(v, g, n) /\ call[v].pc = "enqueue"
          BY SMTT(20), <2>0, <2>3, <3>1, <3>3 DEF Here
        <4>2. fast[u][g] = {} BY <2>3, <4>1 DEF FastClosed
        <4>3. QED BY <4>2 DEF FastShrinks
      <3>4. QED BY <3>2, <3>3
    <2>4. QED BY <2>1, <2>2, <2>3 DEF FastClosed
  <1>1. Fields' BY LocalFields DEF Before
  <1>2. Frame(t, tag, m) BY LocalFrame DEF Before
  <1>3. Places' BY <1>2, FramePlaces DEF Before
  <1>4. FastClosed' BY <1>Fast DEF Before
  <1>5. Entries' BY DEF LocalStep, Before, Entries
  <1>6. QED BY <1>1, <1>3, <1>4, <1>5 DEF Kept

(* A step of a call that changes nothing but the call, and the own flag. *)
OwnStep(t) ==
  /\ call[t].pc # "idle"
  /\ table' = table /\ granted' = granted /\ fast' = fast
  /\ isWaiting' \in [Thread -> BOOLEAN]
  /\ \A u \in Thread : u # t => isWaiting'[u] = isWaiting[u]
  /\ CallFrame(t)
  /\ call'[t].pc = "idle" \/ (call'[t].tag = call[t].tag /\ call'[t].mode = call[t].mode)

\* A step of a call on its own fields is a local step for the lock it asks for.
LEMMA OwnLocal ==
  ASSUME Types, NEW t \in Thread, OwnStep(t)
  PROVE  \E tag \in Tag, m \in LockMode :
           /\ call[t].tag = tag /\ call[t].mode = m
           /\ LocalStep(t, tag, m)
           /\ FastShrinks
           /\ granted'[t][tag][m] \in 0..MaxGranted
  <1>1. PICK tag \in Tag, m \in LockMode : call[t].tag = tag /\ call[t].mode = m
    BY DEF Types, Fields, CallShape, OwnStep
  <1>2. /\ granted \in [Thread -> [Tag -> [LockMode -> 0..MaxGranted]]] /\ MaxGranted \in Nat
        /\ fast \in [Thread -> [Tag -> SUBSET WeakMode]]
    BY CallAssumption DEF Types, Fields
  <1>3. granted \in [Thread -> [Tag -> [LockMode -> Int]]] BY <1>2
  <1>4. FastShrinks BY DEF OwnStep, FastShrinks
  <1>5. LocalStep(t, tag, m) BY <1>1, <1>2, <1>3 DEF OwnStep, LocalStep, CallFrame
  <1>6. granted'[t][tag][m] \in 0..MaxGranted BY <1>1, <1>2 DEF OwnStep
  <1>7. QED BY <1>1, <1>4, <1>5, <1>6

\* A step of a call on its own fields keeps the invariant if it keeps the place of its lock.
LEMMA OwnKept ==
  ASSUME Before, NEW t \in Thread, NEW tag \in Tag, NEW m \in LockMode, OwnStep(t),
         call[t].tag = tag, call[t].mode = m,
         CallShape(call'[t]), Place(t, tag, m)',
         call'[t].pc # "transfer", ArrivedOK(call'[t], fast')
  PROVE  Kept /\ Frame(t, tag, m)
  <1>1. LocalStep(t, tag, m) /\ FastShrinks /\ granted'[t][tag][m] \in 0..MaxGranted
    BY OwnLocal DEF Before
  <1>2. TransferOK(call'[t], fast') BY DEF TransferOK
  <1>3. Kept BY <1>1, <1>2, LocalKept
  <1>4. Frame(t, tag, m) BY <1>1, LocalFrame DEF Before
  <1>5. QED BY <1>3, <1>4

-----------------------------------------------------------------------------
(* What each of these steps changes.                                       *)

\* A thread that is in no call satisfies all that is said of calls.
LEMMA IdleCallFacts ==
  /\ IdleCall.pc = "idle" /\ IdleCall.cur = {} /\ CallShape(IdleCall)
  /\ \A f : TransferOK(IdleCall, f) /\ ArrivedOK(IdleCall, f)
  BY Zenon DEF IdleCall, CallShape, TransferOK, ArrivedOK

\* What the signs of counts say of the counts 0 and 1.
LEMMA Signs == ~ (0 > 0) /\ 1 > 0
  OBVIOUS

-----------------------------------------------------------------------------
(* Steps that change nothing but the call.                                 *)

\* What such a step leaves alone.
LEMMA OwnBusy ==
  ASSUME Before, NEW t \in Thread, NEW tag \in Tag, NEW m \in LockMode, OwnStep(t),
         call[t].tag = tag, call[t].mode = m
  PROVE  /\ Here(t, tag, m) /\ Busy(t, tag, m)
         /\ InTable(t, tag, m)' <=> InTable(t, tag, m)
         /\ InQueue(t, tag, m)' <=> InQueue(t, tag, m)
         /\ granted'[t][tag][m] = granted[t][tag][m]
         /\ fast'[t][tag] = fast[t][tag]
  <1>1. Here(t, tag, m) BY DEF OwnStep, Here
  <1>2. Busy(t, tag, m) BY <1>1 DEF Before, Places, Place
  <1>3. QED BY <1>1, <1>2 DEF OwnStep, InTable, InQueue, R

\* EndTransfer: no thread is left with a fast-path lock on the tag.
LEMMA EndTransferKept ==
  ASSUME Before, NEW t \in Thread, EndTransfer(t)
  PROVE  Kept /\ MarksKept
  <1>1. /\ call[t].pc = "transfer" /\ call[t].todo = {} /\ call[t].cur = {} /\ Goto(t, "enqueue")
        /\ table' = table /\ granted' = granted /\ fast' = fast /\ strong' = strong
        /\ isWaiting' = isWaiting
    BY DEF EndTransfer
  <1>2. Became(t, "enqueue", call[t].ok, call[t].todo, call[t].cur)
    <2>1. "enqueue" \in PCs BY DEF PCs
    <2>2. QED BY SMTT(20), <1>1, <2>1, GotoEffect DEF Before
  <1>3. PICK tag \in Tag, m \in LockMode :
          call[t].tag = tag /\ call[t].mode = m /\ IsStrong(tag, m) /\ ~ call[t].ok
    BY <1>1 DEF Before, Types, Fields, CallShape
  <1>4. isWaiting \in [Thread -> BOOLEAN] BY DEF Before, Types, Fields
  <1>5. OwnStep(t) BY <1>1, <1>2, <1>4 DEF OwnStep, Became
  <1>6. CallShape(call'[t]) BY <1>1, <1>2, <1>3 DEF CallShape, Became
  <1>7. /\ Here(t, tag, m) /\ Busy(t, tag, m)
        /\ InTable(t, tag, m)' <=> InTable(t, tag, m)
        /\ InQueue(t, tag, m)' <=> InQueue(t, tag, m)
        /\ granted'[t][tag][m] = granted[t][tag][m] /\ fast'[t][tag] = fast[t][tag]
    BY Zenon, <1>3, <1>5, OwnBusy
  <1>8. Place(t, tag, m)'
    <2>1. Here(t, tag, m)' BY <1>2, <1>3 DEF Here, Became
    <2>2. Busy(t, tag, m)' BY Zenon, <1>1, <1>2, <1>7 DEF Busy, Became
    <2>3. QED BY <2>1, <2>2 DEF Place
  <1>9. \A u \in Thread : fast[u][call[t].tag] = {} BY Zenon, <1>1 DEF Before, FastClosed
  <1>10. ArrivedOK(call'[t], fast') BY Zenon, <1>1, <1>2, <1>9 DEF ArrivedOK, Became
  <1>11. call'[t].pc # "transfer" BY <1>2 DEF Became
  <1>12. Kept /\ Frame(t, tag, m) BY SMTT(20), <1>3, <1>5, <1>6, <1>8, <1>10, <1>11, OwnKept
  <1>13. HasMark(t, tag, m)' <=> HasMark(t, tag, m) BY SMTT(20), <1>1, <1>2, <1>3, <1>7 DEF HasMark, Became
  <1>14. QED BY <1>1, <1>12, <1>13, FrameMarksKept

\* A call that goes on to a step other than a transfer or a request.
LEMMA MovedKept ==
  ASSUME Before, NEW t \in Thread, NEW tag \in Tag, NEW m \in LockMode, OwnStep(t),
         call[t].tag = tag, call[t].mode = m, call'[t].tag = tag, call'[t].mode = m,
         call'[t].pc \notin {"idle", "transfer", "enqueue"},
         CallShape(call'[t]), Busy(t, tag, m)'
  PROVE  Kept /\ Frame(t, tag, m)
  <1>1. Here(t, tag, m)' BY DEF Here
  <1>2. Place(t, tag, m)' BY <1>1 DEF Place
  <1>3. ArrivedOK(call'[t], fast') BY DEF ArrivedOK
  <1>4. QED BY <1>2, <1>3, OwnKept

\* NormalWakeup: the request was granted, and no other step has touched it since.
LEMMA NormalWakeupKept ==
  ASSUME Before, NEW t \in Thread, NormalWakeup(t)
  PROVE  Kept /\ MarksKept
  <1>1. /\ call[t].pc = "waiting" /\ ~ isWaiting[t] /\ Granted(t)
        /\ table' = table /\ granted' = granted /\ fast' = fast /\ strong' = strong
        /\ isWaiting' = isWaiting
    BY DEF NormalWakeup
  <1>2. Became(t, "record", TRUE, call[t].todo, call[t].cur) BY Zenon, <1>1, GrantedEffect DEF Before
  <1>3. PICK tag \in Tag, m \in LockMode : call[t].tag = tag /\ call[t].mode = m
    BY <1>1 DEF Before, Types, Fields, CallShape
  <1>4. isWaiting \in [Thread -> BOOLEAN] BY DEF Before, Types, Fields
  <1>5. OwnStep(t) BY <1>1, <1>2, <1>4 DEF OwnStep, Became
  <1>6. CallShape(call[t]) BY DEF Before, Types, Fields
  <1>7. CallShape(call'[t]) BY SMTT(20), <1>1, <1>2, <1>3, <1>6 DEF CallShape, Became
  <1>8. /\ Here(t, tag, m) /\ Busy(t, tag, m)
        /\ InTable(t, tag, m)' <=> InTable(t, tag, m)
        /\ InQueue(t, tag, m)' <=> InQueue(t, tag, m)
        /\ granted'[t][tag][m] = granted[t][tag][m] /\ fast'[t][tag] = fast[t][tag]
    BY Zenon, <1>3, <1>5, OwnBusy
  <1>9. Busy(t, tag, m)' BY Zenon, <1>1, <1>2, <1>8 DEF Busy, Became
  <1>10. Kept /\ Frame(t, tag, m) BY SMTT(20), <1>2, <1>3, <1>5, <1>7, <1>9, MovedKept DEF Became
  <1>11. HasMark(t, tag, m)' <=> HasMark(t, tag, m) BY <1>1, <1>2, <1>3, <1>8 DEF HasMark, Became
  <1>12. QED BY <1>1, <1>10, <1>11, FrameMarksKept

\* StopWaiting: the request stays where it is until the dequeue.
LEMMA StopWaitingKept ==
  ASSUME Before, NEW t \in Thread, StopWaiting(t)
  PROVE  Kept /\ MarksKept
  <1>1. /\ call[t].pc = "waiting" /\ isWaiting[t] /\ Goto(t, "give_up")
        /\ table' = table /\ granted' = granted /\ fast' = fast /\ strong' = strong
        /\ isWaiting' = isWaiting
    BY DEF StopWaiting
  <1>2. Became(t, "give_up", call[t].ok, call[t].todo, call[t].cur)
    <2>1. "give_up" \in PCs BY DEF PCs
    <2>2. QED BY <1>1, <2>1, GotoEffect DEF Before
  <1>3. PICK tag \in Tag, m \in LockMode : call[t].tag = tag /\ call[t].mode = m
    BY <1>1 DEF Before, Types, Fields, CallShape
  <1>4. isWaiting \in [Thread -> BOOLEAN] BY DEF Before, Types, Fields
  <1>5. OwnStep(t) BY SMTT(20), <1>1, <1>2, <1>4 DEF OwnStep, Became
  <1>6. CallShape(call[t]) BY DEF Before, Types, Fields
  <1>7. CallShape(call'[t]) BY SMTT(20), <1>1, <1>2, <1>3, <1>6 DEF CallShape, Became
  <1>8. /\ Here(t, tag, m) /\ Busy(t, tag, m)
        /\ InTable(t, tag, m)' <=> InTable(t, tag, m)
        /\ InQueue(t, tag, m)' <=> InQueue(t, tag, m)
        /\ granted'[t][tag][m] = granted[t][tag][m] /\ fast'[t][tag] = fast[t][tag]
    BY <1>3, <1>5, OwnBusy
  <1>9. Busy(t, tag, m)' BY Zenon, <1>1, <1>2, <1>8 DEF Busy, Became
  <1>10. Kept /\ Frame(t, tag, m) BY Zenon, <1>2, <1>3, <1>5, <1>7, <1>9, MovedKept DEF Became
  <1>11. HasMark(t, tag, m)' <=> HasMark(t, tag, m) BY Zenon, <1>1, <1>2, <1>3, <1>8 DEF HasMark, Became
  <1>12. QED BY SMTT(20), <1>1, <1>10, <1>11, FrameMarksKept

\* MarkStrongLockInFastPath: the lock gets its mark, and every thread is still to be visited.
LEMMA MarkKept ==
  ASSUME Before, NEW t \in Thread, MarkStrongLockInFastPath(t)
  PROVE  Kept /\ MarksStep
  \* A call that has set its strong mark goes on to the transfer, with every thread to visit.
  <1>Effect. ASSUME Types, call' = [call EXCEPT ![t].pc = "transfer", ![t].todo = Thread]
             PROVE  Became(t, "transfer", call[t].ok, Thread, call[t].cur)
    <2> USE <1>Effect
    \* A strong lock that has been marked.
    <2>Set. ASSUME call \in [Thread -> CallRecord], NEW pc \in PCs, NEW todo \in SUBSET Thread,
                   call' = [call EXCEPT ![t].pc = pc, ![t].todo = todo]
            PROVE  Became(t, pc, call[t].ok, todo, call[t].cur)
      <3> USE <2>Set
      <3> DEFINE c == [call[t] EXCEPT !.pc = pc, !.todo = todo]
      <3>1. call[t] \in CallRecord /\ call'[t] = c /\ \A w \in Thread : w # t => call'[w] = call[w]
        BY Zenon
      <3>2. c.pc = pc /\ c.todo = todo
        BY <3>1 DEF CallRecord
      <3>3. c.tag = call[t].tag /\ c.mode = call[t].mode /\ c.dontWait = call[t].dontWait /\ c.batch = call[t].batch /\ c.ok = call[t].ok /\ c.cur = call[t].cur
        BY <3>1 DEF CallRecord
      <3>4. c \in CallRecord BY Zenon, <3>1 DEF CallRecord
      <3>5. call' \in [Thread -> CallRecord] BY Zenon, <3>4
      <3> HIDE DEF c
      <3>6. QED BY Zenon, <3>1, <3>2, <3>3, <3>5 DEF Became, CallFrame
    <2>1. call \in [Thread -> CallRecord] BY DEF Types, Fields
    <2>2. "transfer" \in PCs /\ Thread \in SUBSET Thread BY DEF PCs
    <2>3. QED BY Zenon, <2>1, <2>2, <2>Set
  <1>1. /\ call[t].pc = "mark" /\ strong' = [strong EXCEPT ![PartOf[call[t].tag]] = @ + 1]
        /\ call' = [call EXCEPT ![t].pc = "transfer", ![t].todo = Thread]
        /\ table' = table /\ granted' = granted /\ fast' = fast /\ isWaiting' = isWaiting
    BY DEF MarkStrongLockInFastPath
  <1>2. Became(t, "transfer", call[t].ok, Thread, call[t].cur) BY Zenon, <1>1, <1>Effect DEF Before
  <1>3. CallShape(call[t]) BY DEF Before, Types, Fields
  <1>4. PICK tag \in Tag, m \in LockMode : call[t].tag = tag /\ call[t].mode = m /\ IsStrong(tag, m)
    BY <1>1, <1>3 DEF CallShape
  <1>5. isWaiting \in [Thread -> BOOLEAN] BY DEF Before, Types, Fields
  <1>6. OwnStep(t) BY <1>1, <1>2, <1>5 DEF OwnStep, Became
  <1>7. CallShape(call'[t]) BY Zenon, <1>1, <1>2, <1>3, <1>4 DEF CallShape, Became
  <1>8. /\ Here(t, tag, m) /\ Busy(t, tag, m)
        /\ InTable(t, tag, m)' <=> InTable(t, tag, m)
        /\ InQueue(t, tag, m)' <=> InQueue(t, tag, m)
        /\ granted'[t][tag][m] = granted[t][tag][m] /\ fast'[t][tag] = fast[t][tag]
    BY <1>4, <1>6, OwnBusy
  <1>9. Place(t, tag, m)'
    <2>1. Busy(t, tag, m)' BY <1>1, <1>2, <1>8 DEF Busy, Became
    <2>2. Here(t, tag, m)' BY <1>2, <1>4 DEF Here, Became
    <2>3. QED BY <2>1, <2>2 DEF Place
  <1>10. TransferOK(call'[t], fast') BY <1>2 DEF TransferOK, Became
  <1>11. ArrivedOK(call'[t], fast') BY <1>2 DEF ArrivedOK, Became
  <1>12. LocalStep(t, tag, m) /\ FastShrinks /\ granted'[t][tag][m] \in 0..MaxGranted
    BY <1>4, <1>6, OwnLocal DEF Before
  <1>13. Kept BY <1>7, <1>9, <1>10, <1>11, <1>12, LocalKept
  <1>14. Frame(t, tag, m) BY <1>12, LocalFrame DEF Before
  <1>15. OtherMarks(t, tag, m) BY <1>14, FrameMarks
  <1>16. granted[t][tag][m] = 0 BY <1>1, <1>8 DEF Busy
  <1>17. ~ HasMark(t, tag, m) /\ HasMark(t, tag, m)' BY <1>1, <1>2, <1>4, <1>8, <1>16 DEF HasMark, Became
  <1>18. MarkMade(t, tag, m) BY <1>1, <1>4, <1>15, <1>17 DEF MarkMade
  <1>19. QED BY <1>4, <1>13, <1>18 DEF MarksStep, IsStrong

\* SkipThread: the thread that is passed has no fast-path lock on the tag.
LEMMA SkipKept ==
  ASSUME Before, NEW t \in Thread, NEW v \in Thread, SkipThread(t, v)
  PROVE  Kept /\ MarksKept
  \* A transfer that passes a thread.
  <1>Effect. ASSUME Types, NEW S, call' = [call EXCEPT ![t].todo = @ \ S]
             PROVE  Became(t, call[t].pc, call[t].ok, call[t].todo \ S, call[t].cur)
    <2> USE <1>Effect
    <2>1. call \in [Thread -> CallRecord] BY DEF Types, Fields
    <2>2. QED BY <2>1 DEF CallRecord, Became, CallFrame
  <1>1. /\ call[t].pc = "transfer" /\ fast[v][call[t].tag] = {}
        /\ call' = [call EXCEPT ![t].todo = @ \ {v}]
        /\ table' = table /\ granted' = granted /\ fast' = fast /\ strong' = strong
        /\ isWaiting' = isWaiting
    BY DEF SkipThread
  <1>2. Became(t, "transfer", call[t].ok, call[t].todo \ {v}, call[t].cur)
    <2>1. Became(t, call[t].pc, call[t].ok, call[t].todo \ {v}, call[t].cur)
      BY Zenon, <1>1, <1>Effect DEF Before
    <2>2. QED BY <1>1, <2>1
  <1>3. CallShape(call[t]) BY DEF Before, Types, Fields
  <1>4. PICK tag \in Tag, m \in LockMode : call[t].tag = tag /\ call[t].mode = m
    BY <1>1, <1>3 DEF CallShape
  <1>5. isWaiting \in [Thread -> BOOLEAN] BY DEF Before, Types, Fields
  <1>6. OwnStep(t) BY <1>1, <1>2, <1>5 DEF OwnStep, Became
  <1>7. CallShape(call'[t]) BY SMTT(20), <1>1, <1>2, <1>3, <1>4 DEF CallShape, Became
  <1>8. /\ Here(t, tag, m) /\ Busy(t, tag, m)
        /\ InTable(t, tag, m)' <=> InTable(t, tag, m)
        /\ InQueue(t, tag, m)' <=> InQueue(t, tag, m)
        /\ granted'[t][tag][m] = granted[t][tag][m] /\ fast'[t][tag] = fast[t][tag]
    BY <1>4, <1>6, OwnBusy
  <1>9. Place(t, tag, m)'
    <2>1. Busy(t, tag, m)' BY <1>1, <1>2, <1>8 DEF Busy, Became
    <2>2. Here(t, tag, m)' BY <1>2, <1>4 DEF Here, Became
    <2>3. QED BY <2>1, <2>2 DEF Place
  <1>10. TransferOK(call'[t], fast')
    <2>1. \A u \in Thread : u \in call[t].todo \cup call[t].cur \/ fast[u][call[t].tag] = {}
      BY <1>1 DEF Before, FastClosed
    <2>2. QED BY <1>1, <1>2, <2>1 DEF TransferOK, Became
  <1>11. ArrivedOK(call'[t], fast') BY <1>2 DEF ArrivedOK, Became
  <1>12. LocalStep(t, tag, m) /\ FastShrinks /\ granted'[t][tag][m] \in 0..MaxGranted
    BY <1>4, <1>6, OwnLocal DEF Before
  <1>13. Kept BY <1>7, <1>9, <1>10, <1>11, <1>12, LocalKept
  <1>14. Frame(t, tag, m) BY <1>12, LocalFrame DEF Before
  <1>15. HasMark(t, tag, m)' <=> HasMark(t, tag, m) BY <1>1, <1>2, <1>4, <1>8 DEF HasMark, Became
  <1>16. QED BY <1>1, <1>13, <1>14, <1>15, FrameMarksKept

\* UnmarkStrongLockInFastPath: a mark is removed once, from a lock that has left the table.
LEMMA UnmarkKept ==
  ASSUME Before, NEW t \in Thread, UnmarkStrongLockInFastPath(t)
  PROVE  Kept /\ MarksStep
  <1>1. /\ call[t].pc \in {"unmark_failed", "unmark"}
        /\ strong' = [strong EXCEPT ![PartOf[call[t].tag]] = @ - 1]
        /\ table' = table /\ granted' = granted /\ fast' = fast /\ isWaiting' = isWaiting
    BY DEF UnmarkStrongLockInFastPath
  <1>2. CallShape(call[t]) BY DEF Before, Types, Fields
  <1>3. PICK tag \in Tag, m \in LockMode : call[t].tag = tag /\ call[t].mode = m /\ IsStrong(tag, m)
    BY <1>1, <1>2 DEF CallShape
  <1>4. isWaiting \in [Thread -> BOOLEAN] BY DEF Before, Types, Fields
  <1>5. SUFFICES Kept /\ Frame(t, tag, m) /\ HasMark(t, tag, m) /\ ~ HasMark(t, tag, m)'
    <2>1. OtherMarks(t, tag, m) BY <1>5, FrameMarks
    <2>2. MarkGone(t, tag, m) BY <1>1, <1>3, <1>5, <2>1 DEF MarkGone
    <2>3. QED BY <1>3, <1>5, <2>2 DEF MarksStep, IsStrong
  <1>6. HasMark(t, tag, m) BY <1>1, <1>3 DEF HasMark
  <1>7. CASE call[t].pc = "unmark_failed"
    <2>1. Became(t, "record", call[t].ok, call[t].todo, call[t].cur)
      <3>1. "record" \in PCs BY DEF PCs
      <3>2. Goto(t, "record") BY <1>7 DEF UnmarkStrongLockInFastPath
      <3>3. QED BY <3>1, <3>2, GotoEffect DEF Before
    <2>2. OwnStep(t) BY <1>1, <1>4, <2>1 DEF OwnStep, Became
    <2>3. ~ call[t].ok BY <1>2, <1>7 DEF CallShape
    <2>4. CallShape(call'[t]) BY <1>2, <1>3, <2>1 DEF CallShape, Became
    <2>5. /\ Here(t, tag, m) /\ Busy(t, tag, m)
          /\ InTable(t, tag, m)' <=> InTable(t, tag, m)
          /\ InQueue(t, tag, m)' <=> InQueue(t, tag, m)
          /\ granted'[t][tag][m] = granted[t][tag][m] /\ fast'[t][tag] = fast[t][tag]
      BY <1>3, <2>2, OwnBusy
    <2>6. Busy(t, tag, m)' BY Zenon, <1>7, <2>1, <2>3, <2>5 DEF Busy, Became
    <2>7. Kept /\ Frame(t, tag, m) BY Zenon, <1>3, <2>1, <2>2, <2>4, <2>6, MovedKept DEF Became
    <2>8. granted[t][tag][m] = 0 BY Zenon, <1>7, <2>5 DEF Busy
    <2>9. ~ HasMark(t, tag, m)'
      <3>1. ~ (granted'[t][tag][m] > 0) BY <2>5, <2>8
      <3>2. call'[t].pc = "record" /\ ~ call'[t].ok BY <2>1, <2>3 DEF Became
      <3>3. QED BY <3>1, <3>2 DEF HasMark
    <2>10. QED BY <1>6, <2>7, <2>9
  <1>8. CASE call[t].pc = "unmark" /\ ~ call[t].batch
    <2>1. Became(t, "remove", call[t].ok, call[t].todo, call[t].cur)
      <3>1. "remove" \in PCs BY DEF PCs
      <3>2. Goto(t, "remove") BY Zenon, <1>8 DEF UnmarkStrongLockInFastPath
      <3>3. QED BY <3>1, <3>2, GotoEffect DEF Before
    <2>2. OwnStep(t) BY <1>1, <1>4, <2>1 DEF OwnStep, Became
    <2>4. CallShape(call'[t]) BY <1>2, <1>3, <1>8, <2>1 DEF CallShape, Became
    <2>5. /\ Here(t, tag, m) /\ Busy(t, tag, m)
          /\ InTable(t, tag, m)' <=> InTable(t, tag, m)
          /\ InQueue(t, tag, m)' <=> InQueue(t, tag, m)
          /\ granted'[t][tag][m] = granted[t][tag][m] /\ fast'[t][tag] = fast[t][tag]
      BY <1>3, <2>2, OwnBusy
    <2>6. Busy(t, tag, m)' BY Zenon, <1>8, <2>1, <2>5 DEF Busy, Became
    <2>7. Kept /\ Frame(t, tag, m) BY Zenon, <1>3, <2>1, <2>2, <2>4, <2>6, MovedKept DEF Became
    <2>8. ~ HasMark(t, tag, m)' BY Zenon, <1>3, <2>1 DEF HasMark, Became
    <2>9. QED BY <1>6, <2>7, <2>8
  <1>9. CASE call[t].pc = "unmark" /\ call[t].batch
    <2>1. Return(t) BY <1>9 DEF UnmarkStrongLockInFastPath
    <2>2. CallFrame(t) /\ call'[t] = IdleCall BY <2>1, ReturnEffect DEF Before
    <2>3. OwnStep(t) BY <1>1, <1>4, <2>2 DEF OwnStep, IdleCall
    <2>4. CallShape(call'[t]) BY <2>2 DEF CallShape, IdleCall
    <2>5. /\ Here(t, tag, m) /\ Busy(t, tag, m)
          /\ InTable(t, tag, m)' <=> InTable(t, tag, m)
          /\ InQueue(t, tag, m)' <=> InQueue(t, tag, m)
          /\ granted'[t][tag][m] = granted[t][tag][m] /\ fast'[t][tag] = fast[t][tag]
      BY <1>3, <2>3, OwnBusy
    <2>6. ~ Here(t, tag, m)' BY <2>2 DEF Here, IdleCall
    <2>7. granted[t][tag][m] = 0 BY Zenon, <1>9, <2>5 DEF Busy
    <2>8. Settled(t, tag, m)' BY Zenon, <1>9, <2>5, <2>7, Signs DEF Busy, Settled
    <2>9. Place(t, tag, m)' BY <2>6, <2>8 DEF Place
    <2>10. call'[t].pc = "idle" /\ ArrivedOK(call'[t], fast') BY Zenon, <2>2, IdleCallFacts
    <2>11. Kept /\ Frame(t, tag, m) BY <1>3, <2>3, <2>4, <2>9, <2>10, OwnKept
    <2>12. ~ HasMark(t, tag, m)' BY Zenon, <2>5, <2>7, <2>10, Signs DEF HasMark
    <2>13. QED BY <1>6, <2>11, <2>12
  <1>10. QED BY <1>1, <1>7, <1>8, <1>9, Zenon

-----------------------------------------------------------------------------
(* Steps that change the thread's own record.                              *)

\* A call that ends with a change of its record.
LEMMA EndedLocal ==
  ASSUME Types, NEW t \in Thread, NEW tag \in Tag, NEW m \in LockMode, NEW d \in Int,
         call[t].pc # "idle", call[t].tag = tag, call[t].mode = m, Return(t),
         GrantsAdded(t, tag, m, d),
         table' = table, fast' = fast, isWaiting' = isWaiting
  PROVE  /\ LocalStep(t, tag, m) /\ FastShrinks /\ ~ Here(t, tag, m)'
         /\ CallShape(call'[t]) /\ TransferOK(call'[t], fast') /\ ArrivedOK(call'[t], fast')
         /\ call'[t].pc = "idle"
         /\ InTable(t, tag, m)' <=> InTable(t, tag, m)
         /\ InQueue(t, tag, m)' <=> InQueue(t, tag, m)
  <1>1. CallFrame(t) /\ call'[t] = IdleCall BY ReturnEffect
  <1>2. isWaiting \in [Thread -> BOOLEAN] /\ fast \in [Thread -> [Tag -> SUBSET WeakMode]]
    BY DEF Types, Fields
  <1>3. LocalStep(t, tag, m)
    BY Zenon, <1>1, <1>2, IdleCallFacts DEF LocalStep, CallFrame, GrantsAdded
  <1>4. FastShrinks BY DEF FastShrinks
  <1>5. ~ Here(t, tag, m)' BY Zenon, <1>1, IdleCallFacts DEF Here
  <1>6. QED BY Zenon, <1>1, <1>3, <1>4, <1>5, IdleCallFacts DEF InTable, InQueue, R

\* RecordLockResult: what the table granted enters the record, what it refused does not.
LEMMA RecordKept ==
  ASSUME Before, NEW t \in Thread, RecordLockResult(t)
  PROVE  Kept /\ MarksKept
  <1>1. /\ call[t].pc = "record" /\ Return(t)
        /\ IF call[t].ok THEN GrantLock(t, call[t].tag, call[t].mode) ELSE granted' = granted
        /\ table' = table /\ fast' = fast /\ strong' = strong /\ isWaiting' = isWaiting
    BY DEF RecordLockResult
  <1>2. PICK tag \in Tag, m \in LockMode : call[t].tag = tag /\ call[t].mode = m
    BY Zenon, <1>1 DEF Before, Types, Fields, CallShape
  <1>3. PICK d \in {0, 1} : (d = 1 <=> call[t].ok) /\ AddGrants(t, tag, m, d)
    <2>1. CASE call[t].ok
      <3>1. AddGrants(t, tag, m, 1) BY <1>1, <1>2, <2>1 DEF GrantLock, AddGrants
      <3>2. QED BY <2>1, <3>1
    <2>2. CASE ~ call[t].ok
      <3>1. granted \in [Thread -> [Tag -> [LockMode -> 0..MaxGranted]]] /\ MaxGranted \in Nat
        BY CallAssumption DEF Before, Types, Fields
      <3>2. granted[t][tag][m] + 0 = granted[t][tag][m] BY <3>1
      <3>3. granted' = granted BY <1>1, <2>2
      <3>4. [granted EXCEPT ![t][tag][m] = @ + 0] = granted BY <3>1, <3>2
      <3>5. AddGrants(t, tag, m, 0) BY <3>3, <3>4 DEF AddGrants
      <3>6. QED BY <2>2, <3>5
    <2>3. QED BY <2>1, <2>2
  <1>4. d \in Int OBVIOUS
  <1>5. GrantsAdded(t, tag, m, d) BY <1>3, <1>4, GrantEffect DEF Before
  <1>6. /\ LocalStep(t, tag, m) /\ FastShrinks /\ ~ Here(t, tag, m)'
        /\ CallShape(call'[t]) /\ TransferOK(call'[t], fast') /\ ArrivedOK(call'[t], fast')
        /\ call'[t].pc = "idle"
        /\ InTable(t, tag, m)' <=> InTable(t, tag, m)
        /\ InQueue(t, tag, m)' <=> InQueue(t, tag, m)
    BY Zenon, <1>1, <1>2, <1>4, <1>5, EndedLocal DEF Before
  <1>7. Here(t, tag, m) BY <1>1, <1>2 DEF Here
  <1>8. Busy(t, tag, m) BY <1>7 DEF Before, Places, Place
  <1>9. granted[t][tag][m] = 0 BY Zenon, <1>1, <1>8 DEF Busy
  <1>10. granted'[t][tag][m] = d BY <1>5, <1>9 DEF GrantsAdded
  <1>11. granted'[t][tag][m] \in 0..MaxGranted BY <1>10, CallAssumption
  <1>12. Settled(t, tag, m)' BY Zenon, <1>1, <1>3, <1>6, <1>8, <1>10, Signs DEF Busy, Settled
  <1>13. Place(t, tag, m)' BY Zenon, <1>6, <1>12 DEF Place
  <1>14. Kept BY Zenon, <1>6, <1>11, <1>13, LocalKept
  <1>15. Frame(t, tag, m) BY Zenon, <1>6, LocalFrame DEF Before
  <1>16. HasMark(t, tag, m)' <=> HasMark(t, tag, m)
    BY Zenon, <1>1, <1>2, <1>3, <1>6, <1>9, <1>10, Signs DEF HasMark
  <1>17. QED BY <1>1, <1>14, <1>15, <1>16, FrameMarksKept

\* RemoveLockRecord: the record loses the lock that has left the table.
LEMMA RemoveKept ==
  ASSUME Before, NEW t \in Thread, RemoveLockRecord(t)
  PROVE  Kept /\ MarksKept
  <1>1. /\ call[t].pc = "remove" /\ Return(t) /\ UnGrantLock(t, call[t].tag, call[t].mode)
        /\ table' = table /\ fast' = fast /\ strong' = strong /\ isWaiting' = isWaiting
    BY DEF RemoveLockRecord
  <1>2. PICK tag \in Tag, m \in LockMode : call[t].tag = tag /\ call[t].mode = m /\ ~ call[t].batch
    BY Zenon, <1>1 DEF Before, Types, Fields, CallShape
  <1>3. AddGrants(t, tag, m, -1)
    <2>1. granted \in [Thread -> [Tag -> [LockMode -> 0..MaxGranted]]] /\ MaxGranted \in Nat
      BY CallAssumption DEF Before, Types, Fields
    <2>2. granted[t][tag][m] - 1 = granted[t][tag][m] + (-1) BY <2>1
    <2>3. QED BY Zenon, <1>1, <1>2, <2>2 DEF UnGrantLock, AddGrants
  <1>4. -1 \in Int OBVIOUS
  <1>5. GrantsAdded(t, tag, m, -1) BY <1>3, <1>4, GrantEffect DEF Before
  <1>6. /\ LocalStep(t, tag, m) /\ FastShrinks /\ ~ Here(t, tag, m)'
        /\ CallShape(call'[t]) /\ TransferOK(call'[t], fast') /\ ArrivedOK(call'[t], fast')
        /\ call'[t].pc = "idle"
        /\ InTable(t, tag, m)' <=> InTable(t, tag, m)
        /\ InQueue(t, tag, m)' <=> InQueue(t, tag, m)
    <2>1. call[t].pc # "idle" BY <1>1
    <2>2. QED BY Zenon, <1>1, <1>2, <1>4, <1>5, <2>1, EndedLocal DEF Before
  <1>7. Here(t, tag, m) BY <1>1, <1>2 DEF Here
  <1>8. Busy(t, tag, m) BY SMTT(20), <1>7 DEF Before, Places, Place
  <1>9. granted[t][tag][m] = 1 BY Zenon, <1>1, <1>2, <1>8 DEF Busy
  <1>10. granted'[t][tag][m] = 0 BY <1>5, <1>9 DEF GrantsAdded
  <1>11. granted'[t][tag][m] \in 0..MaxGranted BY <1>10, CallAssumption
  <1>12. Settled(t, tag, m)' BY Zenon, <1>1, <1>6, <1>8, <1>10, Signs DEF Busy, Settled
  <1>13. Place(t, tag, m)' BY Zenon, <1>6, <1>12 DEF Place
  <1>14. Kept BY Zenon, <1>6, <1>11, <1>13, LocalKept
  <1>15. Frame(t, tag, m) BY Zenon, <1>6, LocalFrame DEF Before
  <1>16. HasMark(t, tag, m)' <=> HasMark(t, tag, m)
    BY Zenon, <1>1, <1>2, <1>6, <1>10, Signs DEF HasMark
  <1>17. QED BY Zenon, <1>1, <1>14, <1>15, <1>16, FrameMarksKept

-----------------------------------------------------------------------------
(* The calls.                                                              *)

(* A partition whose counter is 0 has no mark. *)
MarksSeen ==
  \A g \in Tag : strong[PartOf[g]] = 0 => \A u \in Thread, n \in StrongMode : ~ HasMark(u, g, n)

\* A local step that adds no fast-path lock on its tag adds none at all.
LEMMA FastLess ==
  ASSUME Types, NEW t \in Thread, NEW tag \in Tag, NEW m \in LockMode, LocalStep(t, tag, m),
         fast'[t][tag] \subseteq fast[t][tag]
  PROVE  FastShrinks
  <1> SUFFICES ASSUME NEW u \in Thread, NEW g \in Tag, NEW n \in fast'[u][g]
               PROVE  n \in fast[u][g]
    BY DEF FastShrinks
  <1>1. n \in LockMode
    <2>1. fast'[u][g] \subseteq WeakMode BY DEF LocalStep
    <2>2. QED BY SMTT(20), <2>1 DEF WeakMode
  <1>2. CASE u # t BY <1>2 DEF LocalStep
  <1>3. CASE u = t /\ g = tag BY <1>3
  <1>4. CASE u = t /\ g # tag BY Zenon, <1>1, <1>4 DEF LocalStep
  <1>5. QED BY <1>2, <1>3, <1>4

\* Lock: a lock held already, a fast-path lock, or the start of a call.
LEMMA LockKept ==
  ASSUME Before, MarksSeen, NEW t \in Thread, Lock(t)
  PROVE  Kept /\ MarksKept
  \* A count below its bound that grows by one.
  <1>Grows. ASSUME NEW M \in Nat, NEW n \in 0..M, n < M
            PROVE  n + 1 \in 0..M /\ n + 1 > 0
    BY <1>Grows
  \* A grant by the fast path, which no strong lock on the tag has closed.
  <1>Fast. ASSUME NEW tag \in Tag, NEW m \in LockMode, LocalStep(t, tag, m), call' = call,
                  tag \in TableTag, strong[PartOf[tag]] = 0
           PROVE  FastClosed'
    <2> USE <1>Fast
    \* A strong lock in the table, in a queue or on its way to it has its mark.
    <2>Marked. ASSUME Places, NEW v \in Thread, NEW g \in Tag, NEW n \in LockMode, IsStrong(g, n),
                      \/ InTable(v, g, n) \/ InQueue(v, g, n)
                      \/ Here(v, g, n) /\ call[v].pc \in {"transfer", "enqueue"}, call[v].pc \in PCs
               PROVE  HasMark(v, g, n)
      <3> USE <2>Marked
      <3>1. Place(v, g, n) BY ZenonT(40) DEF Places
      <3>2. CASE Here(v, g, n)
        <4>1. Busy(v, g, n) BY <3>1, <3>2 DEF Place
        <4>2. call[v].tag = g /\ call[v].mode = n BY <3>2 DEF Here
        <4>3. \/ call[v].pc \in {"transfer", "enqueue", "waiting", "give_up", "unlock"}
              \/ call[v].pc = "record" /\ call[v].ok
          BY Zenon, <3>2, <4>1 DEF Busy, PCs, Here
        <4>4. QED BY Zenon, <4>2, <4>3 DEF HasMark
      <3>3. CASE ~ Here(v, g, n)
        <4>1. Settled(v, g, n) BY <3>1, <3>3 DEF Place
        <4>2. granted[v][g][n] > 0 BY <3>3, <4>1 DEF Settled
        <4>3. QED BY SMTT(20), <3>3, <4>2 DEF HasMark, Here
      <3>4. QED BY Zenon, <3>2, <3>3
    <2>0. /\ fast \in [Thread -> [Tag -> SUBSET WeakMode]] /\ \A v \in Thread : call[v].pc \in PCs
          /\ \A v \in Thread : CallShape(call[v])
      BY DEF Before, Types, Fields, CallRecord
    <2>1. ASSUME NEW u \in Thread, NEW g \in Tag, g # tag
          PROVE  fast'[u][g] = fast[u][g]
      <3>1. CASE u # t BY Zenon, <3>1 DEF LocalStep
      <3>2. CASE u = t
        <4>1. \A n \in LockMode : n \in fast'[t][g] <=> n \in fast[t][g] BY Zenon, <2>1 DEF LocalStep
        <4>2. fast'[t][g] \subseteq LockMode /\ fast[t][g] \subseteq LockMode
          BY <2>0 DEF LocalStep, WeakMode
        <4>3. \A n : n \in fast'[t][g] <=> n \in fast[t][g] BY Zenon, <4>1, <4>2
        <4>4. fast'[t][g] = fast[t][g] BY <4>3, Zenon
        <4>5. QED BY <3>2, <4>4
      <3>3. QED BY <3>1, <3>2
    <2>2. \A v \in Thread, n \in StrongMode : ~ HasMark(v, tag, n) BY SMTT(20) DEF MarksSeen
    <2>3. ASSUME NEW v \in Thread, NEW g \in Tag, NEW n \in LockMode, IsStrong(g, n),
                 \/ InTable(v, g, n) \/ InQueue(v, g, n)
                 \/ Here(v, g, n) /\ call[v].pc \in {"transfer", "enqueue"}
          PROVE  g # tag
      <3>1. HasMark(v, g, n) BY ZenonT(40), <2>0, <2>3, <2>Marked DEF Before
      <3>2. n \in StrongMode BY <2>3 DEF IsStrong
      <3>3. QED BY <2>2, <3>1, <3>2
    <2>4. \A u \in Thread, g \in Tag : fast'[u][g] # {} => g \in TableTag
      BY Zenon, <2>1 DEF Before, FastClosed
    <2>5. ASSUME NEW v \in Thread, NEW u \in Thread, call'[v].pc = "transfer"
          PROVE  u \in call'[v].todo \cup call'[v].cur \/ fast'[u][call'[v].tag] = {}
      <3>1. /\ call[v].tag \in Tag /\ call[v].mode \in LockMode /\ IsStrong(call[v].tag, call[v].mode)
            /\ Here(v, call[v].tag, call[v].mode)
        BY Zenon, <2>0, <2>5 DEF CallShape, Here
      <3>2. call[v].tag # tag BY Zenon, <2>3, <2>5, <3>1
      <3>3. fast'[u][call[v].tag] = fast[u][call[v].tag] BY Zenon, <2>1, <3>1, <3>2
      <3>4. QED BY ZenonT(40), <2>5, <3>3 DEF Before, FastClosed
    <2>6. ASSUME NEW v \in Thread, NEW g \in Tag, NEW n \in LockMode, IsStrong(g, n),
                 \/ InTable(v, g, n)' \/ InQueue(v, g, n)'
                 \/ Here(v, g, n)' /\ call'[v].pc = "enqueue",
                 NEW u \in Thread
          PROVE  fast'[u][g] = {}
      <3>1. \/ InTable(v, g, n) \/ InQueue(v, g, n)
            \/ Here(v, g, n) /\ call[v].pc = "enqueue"
        BY Zenon, <2>6 DEF LocalStep, InTable, InQueue, Here
      <3>2. g # tag BY Zenon, <2>3, <2>6, <3>1
      <3>3. fast[u][g] = {} BY Zenon, <2>6, <3>1 DEF Before, FastClosed
      <3>4. QED BY <2>1, <3>2, <3>3
    <2>7. QED BY Zenon, <2>4, <2>5, <2>6 DEF FastClosed
  \* Lock grants again, grants by the fast path, or starts a call.
  <1>Effect. ASSUME Types
             PROVE  \E tag \in Tag, m \in LockMode :
                      /\ LocalStep(t, tag, m)
                      /\ strong' = strong
                      /\ call[t].pc = "idle"
                      /\ granted[t][tag][m] < MaxGranted
                      /\ \/ /\ granted[t][tag][m] > 0
                            /\ granted'[t][tag][m] = granted[t][tag][m] + 1
                            /\ fast' = fast /\ call' = call
                         \/ /\ granted[t][tag][m] = 0 /\ granted'[t][tag][m] = 1
                            /\ IsWeak(tag, m) /\ strong[PartOf[tag]] = 0
                            /\ fast'[t][tag] = fast[t][tag] \cup {m} /\ call' = call
                         \/ /\ granted[t][tag][m] = 0 /\ granted' = granted /\ fast' = fast
                            /\ call'[t].pc = IF IsStrong(tag, m) THEN "mark" ELSE "enqueue"
                            /\ call'[t].tag = tag /\ call'[t].mode = m /\ ~ call'[t].ok
                            /\ call'[t].todo = {} /\ call'[t].cur = {}
    <2> USE <1>Effect
    <2>1. PICK tag \in Tag, m \in CallModes[t], dontWait \in DontWaits :
            /\ granted[t][tag][m] < MaxGranted
            /\ IF IsWeak(tag, m) THEN WeakLockAcquire(t, tag, m, dontWait)
                                 ELSE MainLockAcquire(t, tag, m, dontWait)
      BY DEF Lock
    <2>2. m \in LockMode /\ dontWait \in BOOLEAN BY CallAssumption
    <2>3. /\ call[t].pc = "idle" /\ table' = table /\ strong' = strong /\ isWaiting' = isWaiting
      BY DEF Lock
    <2>4. /\ call \in [Thread -> CallRecord] /\ isWaiting \in [Thread -> BOOLEAN]
          /\ fast \in [Thread -> [Tag -> SUBSET WeakMode]]
          /\ granted \in [Thread -> [Tag -> [LockMode -> 0..MaxGranted]]] /\ MaxGranted \in Nat
      BY CallAssumption DEF Types, Fields
    <2>5. granted \in [Thread -> [Tag -> [LockMode -> Int]]] /\ granted[t][tag][m] \in Nat
      BY <2>2, <2>4
    <2>6. CASE granted[t][tag][m] > 0
      <3>1. GrantLock(t, tag, m) /\ fast' = fast /\ call' = call
        BY Zenon, <2>1, <2>6 DEF WeakLockAcquire, MainLockAcquire
      <3>2. AddGrants(t, tag, m, 1) BY <3>1 DEF GrantLock, AddGrants
      <3>3. GrantsAdded(t, tag, m, 1) BY SMTT(20), <2>2, <3>2, GrantEffect
      <3>4. LocalStep(t, tag, m) BY <2>3, <2>4, <3>1, <3>3 DEF LocalStep, GrantsAdded, Started, CallFrame
      <3>5. QED BY Zenon, <2>1, <2>2, <2>3, <2>6, <3>1, <3>3, <3>4 DEF GrantsAdded
    <2>7. CASE granted[t][tag][m] = 0 /\ IsWeak(tag, m) /\ strong[PartOf[tag]] = 0
      <3>1. GrantLock(t, tag, m) /\ fast' = [fast EXCEPT ![t][tag] = @ \cup {m}] /\ call' = call
        BY <2>1, <2>7 DEF WeakLockAcquire
      <3>2. AddGrants(t, tag, m, 1) BY <3>1 DEF GrantLock, AddGrants
      <3>3. GrantsAdded(t, tag, m, 1) BY <2>2, <3>2, GrantEffect
      <3>4. m \in WeakMode BY <2>7 DEF IsWeak
      <3>5. /\ fast' \in [Thread -> [Tag -> SUBSET WeakMode]]
            /\ \A u \in Thread : u # t => fast'[u] = fast[u]
            /\ fast'[t][tag] = fast[t][tag] \cup {m}
            /\ \A g \in Tag : g # tag => fast'[t][g] = fast[t][g]
        BY ZenonT(40), <2>4, <3>1, <3>4
      <3>6. LocalStep(t, tag, m)
        <4>1. \A g \in Tag, n \in LockMode : g # tag \/ n # m =>
                granted'[t][g][n] = granted[t][g][n] /\ (n \in fast'[t][g] <=> n \in fast[t][g])
          BY Zenon, <3>3, <3>5 DEF GrantsAdded
        <4>2. /\ granted' \in [Thread -> [Tag -> [LockMode -> Int]]]
              /\ \A u \in Thread : u # t => granted'[u] = granted[u]
          BY Zenon, <3>3 DEF GrantsAdded
        <4>3. QED BY Zenon, <2>3, <2>4, <3>1, <3>5, <4>1, <4>2 DEF LocalStep
      <3>7. granted'[t][tag][m] = 1 BY <2>7, <3>3 DEF GrantsAdded
      <3>8. QED BY Zenon, <2>1, <2>2, <2>3, <2>7, <3>1, <3>5, <3>6, <3>7
    <2>8. CASE granted[t][tag][m] = 0 /\ ~ (IsWeak(tag, m) /\ strong[PartOf[tag]] = 0)
      <3> DEFINE pc == IF IsStrong(tag, m) THEN "mark" ELSE "enqueue"
      <3>1. StartCall(t, pc, tag, m, dontWait, FALSE) /\ granted' = granted /\ fast' = fast
        <4>0. ~ (granted[t][tag][m] > 0) BY <2>8
        <4>1. CASE IsWeak(tag, m)
          <5>1. pc = "enqueue" BY <4>1, ModeFacts
          <5>2. WeakLockAcquire(t, tag, m, dontWait) BY <4>1, <2>1
          <5>3. strong[PartOf[tag]] # 0 BY <4>1, <2>8
          <5>4. StartCall(t, "enqueue", tag, m, dontWait, FALSE) /\ UNCHANGED <<granted, fast>>
            BY <4>0, <5>2, <5>3, Zenon DEF WeakLockAcquire
          <5>5. QED BY Zenon, <5>1, <5>4
        <4>2. CASE ~ IsWeak(tag, m)
          <5>1. MainLockAcquire(t, tag, m, dontWait) BY <4>2, <2>1
          <5>2. QED BY <4>0, <5>1, Zenon DEF MainLockAcquire
        <4>3. QED BY Zenon, <4>1, <4>2
      <3>2. pc \in PCs BY DEF PCs
      <3> HIDE DEF pc
      <3>3. Started(t, pc, tag, m, dontWait, FALSE)
        BY ZenonT(40), <2>2, <3>1, <3>2, StartEffect
      <3>4. LocalStep(t, tag, m) BY Zenon, <2>3, <2>4, <2>5, <3>1, <3>3 DEF LocalStep, GrantsAdded, Started, CallFrame
      <3>5. QED BY Zenon, <2>1, <2>2, <2>3, <2>8, <3>1, <3>3, <3>4 DEF pc, Started
    <2>9. granted[t][tag][m] > 0 \/ granted[t][tag][m] = 0 BY <2>5
    <2>10. QED BY <2>6, <2>7, <2>8, <2>9, Zenon
  <1>1. PICK tag \in Tag, m \in LockMode :
           /\ LocalStep(t, tag, m)
           /\ strong' = strong
           /\ call[t].pc = "idle"
           /\ granted[t][tag][m] < MaxGranted
           /\ \/ /\ granted[t][tag][m] > 0
                 /\ granted'[t][tag][m] = granted[t][tag][m] + 1
                 /\ fast' = fast /\ call' = call
              \/ /\ granted[t][tag][m] = 0 /\ granted'[t][tag][m] = 1
                 /\ IsWeak(tag, m) /\ strong[PartOf[tag]] = 0
                 /\ fast'[t][tag] = fast[t][tag] \cup {m} /\ call' = call
              \/ /\ granted[t][tag][m] = 0 /\ granted' = granted /\ fast' = fast
                 /\ call'[t].pc = IF IsStrong(tag, m) THEN "mark" ELSE "enqueue"
                 /\ call'[t].tag = tag /\ call'[t].mode = m /\ ~ call'[t].ok
                 /\ call'[t].todo = {} /\ call'[t].cur = {}
    BY Zenon, <1>Effect DEF Before
  <1>2. /\ granted[t][tag][m] \in 0..MaxGranted /\ MaxGranted \in Nat \ {0}
        /\ CallShape(call[t])
    BY CallAssumption DEF Before, Types, Fields
  <1>3. ~ Here(t, tag, m) BY Zenon, <1>1 DEF Here
  <1>4. Settled(t, tag, m) BY <1>3 DEF Before, Places, Place
  <1>5. Frame(t, tag, m) BY Zenon, <1>1, LocalFrame DEF Before
  <1>6. /\ InTable(t, tag, m)' <=> InTable(t, tag, m)
        /\ InQueue(t, tag, m)' <=> InQueue(t, tag, m)
    BY Zenon, <1>1 DEF LocalStep, InTable, InQueue, R
  <1>7. CASE /\ granted[t][tag][m] > 0 /\ granted'[t][tag][m] = granted[t][tag][m] + 1
             /\ fast' = fast /\ call' = call
    <2>1. CallShape(call'[t]) /\ TransferOK(call'[t], fast') /\ ArrivedOK(call'[t], fast')
      BY Zenon, <1>1, <1>2, <1>7 DEF TransferOK, ArrivedOK
    <2>2. granted'[t][tag][m] \in 0..MaxGranted BY Zenon, <1>1, <1>2, <1>7, <1>Grows
    <2>3. granted'[t][tag][m] > 0 BY Zenon, <1>1, <1>2, <1>7, <1>Grows
    <2>4. Settled(t, tag, m)' BY Zenon, <1>4, <1>6, <1>7, <2>3 DEF Settled
    <2>5. ~ Here(t, tag, m)' BY Zenon, <1>1, <1>7 DEF Here
    <2>6. Place(t, tag, m)' BY <2>4, <2>5 DEF Place
    <2>7. FastShrinks BY <1>7 DEF FastShrinks
    <2>8. Kept BY Zenon, <1>1, <2>1, <2>2, <2>6, <2>7, LocalKept
    <2>9. HasMark(t, tag, m)' <=> HasMark(t, tag, m) BY Zenon, <1>1, <1>7, <2>3 DEF HasMark
    <2>10. QED BY Zenon, <1>1, <1>5, <2>8, <2>9, FrameMarksKept
  <1>8. CASE /\ granted[t][tag][m] = 0 /\ granted'[t][tag][m] = 1
             /\ IsWeak(tag, m) /\ strong[PartOf[tag]] = 0
             /\ fast'[t][tag] = fast[t][tag] \cup {m} /\ call' = call
    <2>1. CallShape(call'[t]) BY Zenon, <1>2, <1>8
    <2>2. granted'[t][tag][m] \in 0..MaxGranted BY <1>2, <1>8
    <2>3. Fields' BY Zenon, <1>1, <2>1, <2>2, LocalFields DEF Before
    <2>4. Settled(t, tag, m)' BY Zenon, <1>4, <1>6, <1>8, Signs DEF Settled
    <2>5. ~ Here(t, tag, m)' BY Zenon, <1>1, <1>8 DEF Here
    <2>6. Place(t, tag, m)' BY <2>4, <2>5 DEF Place
    <2>7. Places' BY <1>5, <2>6, FramePlaces DEF Before
    <2>8. tag \in TableTag /\ ~ IsStrong(tag, m) BY <1>8, ModeFacts DEF IsWeak
    <2>9. FastClosed' BY Zenon, <1>1, <1>8, <2>8, <1>Fast
    <2>10. Entries' BY Zenon, <1>1 DEF LocalStep, Before, Entries
    <2>11. HasMark(t, tag, m)' <=> HasMark(t, tag, m) BY <2>8 DEF HasMark
    <2>12. MarksKept BY Zenon, <1>1, <1>5, <2>11, FrameMarksKept
    <2>13. QED BY <2>3, <2>7, <2>9, <2>10, <2>12 DEF Kept
  <1>9. CASE /\ granted[t][tag][m] = 0 /\ granted' = granted /\ fast' = fast
             /\ call'[t].pc = IF IsStrong(tag, m) THEN "mark" ELSE "enqueue"
             /\ call'[t].tag = tag /\ call'[t].mode = m /\ ~ call'[t].ok
             /\ call'[t].todo = {} /\ call'[t].cur = {}
    <2>1. CallShape(call'[t]) BY Zenon, <1>9 DEF CallShape
    <2>2. TransferOK(call'[t], fast') /\ ArrivedOK(call'[t], fast') BY <1>9 DEF TransferOK, ArrivedOK
    <2>3. granted'[t][tag][m] \in 0..MaxGranted BY <1>2, <1>9
    <2>4. Busy(t, tag, m)' BY Zenon, <1>4, <1>6, <1>9, Signs DEF Busy, Settled
    <2>5. Here(t, tag, m)' BY <1>9 DEF Here
    <2>6. Place(t, tag, m)' BY <2>4, <2>5 DEF Place
    <2>7. FastShrinks BY <1>9 DEF FastShrinks
    <2>8. Kept BY Zenon, <1>1, <2>1, <2>2, <2>3, <2>6, <2>7, LocalKept
    <2>9. HasMark(t, tag, m)' <=> HasMark(t, tag, m) BY Zenon, <1>1, <1>9 DEF HasMark
    <2>10. QED BY Zenon, <1>1, <1>5, <2>8, <2>9, FrameMarksKept
  <1>10. QED BY <1>1, <1>7, <1>8, <1>9, Zenon

\* Unlock: a local release, or the start of a call.
LEMMA UnlockKept ==
  ASSUME Before, NEW t \in Thread, Unlock(t)
  PROVE  Kept /\ MarksKept
  \* Unlock releases in the record, or starts a call.
  <1>Effect. ASSUME Types
             PROVE  \E tag \in Tag, m \in LockMode :
                      /\ LocalStep(t, tag, m)
                      /\ strong' = strong
                      /\ call[t].pc = "idle"
                      /\ granted[t][tag][m] > 0
                      /\ \/ /\ granted[t][tag][m] > 1 \/ m \in fast[t][tag]
                            /\ granted'[t][tag][m] = granted[t][tag][m] - 1
                            /\ fast'[t][tag] = IF granted[t][tag][m] = 1 THEN fast[t][tag] \ {m} ELSE fast[t][tag]
                            /\ call' = call
                         \/ /\ granted[t][tag][m] = 1 /\ m \notin fast[t][tag]
                            /\ granted' = granted /\ fast' = fast
                            /\ call'[t].pc = "unlock" /\ call'[t].tag = tag /\ call'[t].mode = m
                            /\ ~ call'[t].batch /\ call'[t].todo = {} /\ call'[t].cur = {}
    <2> USE <1>Effect
    <2>1. PICK tag \in Tag, m \in CallModes[t] :
            /\ granted[t][tag][m] > 0
            /\ IF granted[t][tag][m] > 1 \/ m \in fast[t][tag]
                 THEN /\ UnGrantLock(t, tag, m)
                      /\ fast' = [fast EXCEPT ![t][tag] =
                                    IF granted[t][tag][m] = 1 THEN @ \ {m} ELSE @]
                      /\ call' = call
                 ELSE /\ StartCall(t, "unlock", tag, m, FALSE, FALSE)
                      /\ granted' = granted /\ fast' = fast
      BY Zenon DEF Unlock
    <2>2. m \in LockMode BY CallAssumption
    <2>3. /\ call[t].pc = "idle" /\ table' = table /\ strong' = strong /\ isWaiting' = isWaiting
      BY DEF Unlock
    <2>4. /\ call \in [Thread -> CallRecord] /\ isWaiting \in [Thread -> BOOLEAN]
          /\ fast \in [Thread -> [Tag -> SUBSET WeakMode]]
          /\ granted \in [Thread -> [Tag -> [LockMode -> 0..MaxGranted]]] /\ MaxGranted \in Nat
      BY CallAssumption DEF Types, Fields
    <2>5. granted \in [Thread -> [Tag -> [LockMode -> Int]]] /\ granted[t][tag][m] \in Nat
      BY <2>2, <2>4
    <2>6. CASE granted[t][tag][m] > 1 \/ m \in fast[t][tag]
      <3> DEFINE rest == IF granted[t][tag][m] = 1 THEN fast[t][tag] \ {m} ELSE fast[t][tag]
      <3>1. /\ AddGrants(t, tag, m, -1)
            /\ fast' = [fast EXCEPT ![t][tag] = rest] /\ call' = call
        BY Zenon, <2>1, <2>2, <2>5, <2>6 DEF UnGrantLock, AddGrants
      <3>2. GrantsAdded(t, tag, m, -1) BY <2>2, <3>1, GrantEffect
      <3>3. /\ rest \subseteq WeakMode
            /\ \A n \in LockMode : n # m => (n \in rest <=> n \in fast[t][tag])
        BY <2>4
      <3> HIDE DEF rest
      <3>4. /\ fast' \in [Thread -> [Tag -> SUBSET WeakMode]]
            /\ \A u \in Thread : u # t => fast'[u] = fast[u]
            /\ fast'[t][tag] = rest
            /\ \A g \in Tag : g # tag => fast'[t][g] = fast[t][g]
        BY <2>4, <3>1, <3>3
      <3>5. LocalStep(t, tag, m)
        <4>1. \A g \in Tag, n \in LockMode : g # tag \/ n # m =>
                granted'[t][g][n] = granted[t][g][n] /\ (n \in fast'[t][g] <=> n \in fast[t][g])
          BY Zenon, <3>2, <3>3, <3>4 DEF GrantsAdded
        <4>2. /\ granted' \in [Thread -> [Tag -> [LockMode -> Int]]]
              /\ \A u \in Thread : u # t => granted'[u] = granted[u]
          BY Zenon, <3>2 DEF GrantsAdded
        <4>3. QED BY Zenon, <2>3, <2>4, <3>1, <3>4, <4>1, <4>2 DEF LocalStep
      <3>6. granted'[t][tag][m] = granted[t][tag][m] - 1 BY Zenon, <2>5, <3>2 DEF GrantsAdded
      <3>7. QED BY Zenon, <2>1, <2>2, <2>3, <2>6, <3>1, <3>4, <3>5, <3>6 DEF rest
    <2>7. CASE ~ (granted[t][tag][m] > 1 \/ m \in fast[t][tag])
      <3>1. StartCall(t, "unlock", tag, m, FALSE, FALSE) /\ granted' = granted /\ fast' = fast
        BY Zenon, <2>1, <2>7
      <3>2. "unlock" \in PCs BY DEF PCs
      <3>3. Started(t, "unlock", tag, m, FALSE, FALSE)
        BY Zenon, <2>2, <3>1, <3>2, StartEffect
      <3>4. LocalStep(t, tag, m) BY Zenon, <2>3, <2>4, <2>5, <3>1, <3>3 DEF LocalStep, GrantsAdded, Started, CallFrame
      <3>5. granted[t][tag][m] = 1 BY <2>1, <2>5, <2>7
      <3>6. QED BY Zenon, <2>1, <2>2, <2>3, <2>7, <3>1, <3>3, <3>4, <3>5 DEF Started
    <2>8. QED BY <2>6, <2>7, Zenon
  <1>1. PICK tag \in Tag, m \in LockMode :
           /\ LocalStep(t, tag, m)
           /\ strong' = strong
           /\ call[t].pc = "idle"
           /\ granted[t][tag][m] > 0
           /\ \/ /\ granted[t][tag][m] > 1 \/ m \in fast[t][tag]
                 /\ granted'[t][tag][m] = granted[t][tag][m] - 1
                 /\ fast'[t][tag] = IF granted[t][tag][m] = 1 THEN fast[t][tag] \ {m} ELSE fast[t][tag]
                 /\ call' = call
              \/ /\ granted[t][tag][m] = 1 /\ m \notin fast[t][tag]
                 /\ granted' = granted /\ fast' = fast
                 /\ call'[t].pc = "unlock" /\ call'[t].tag = tag /\ call'[t].mode = m
                 /\ ~ call'[t].batch /\ call'[t].todo = {} /\ call'[t].cur = {}
    BY Zenon, <1>Effect DEF Before
  <1>2. /\ granted[t][tag][m] \in 0..MaxGranted /\ MaxGranted \in Nat \ {0}
        /\ CallShape(call[t]) /\ fast \in [Thread -> [Tag -> SUBSET WeakMode]]
    BY CallAssumption DEF Before, Types, Fields
  <1>3. ~ Here(t, tag, m) BY Zenon, <1>1 DEF Here
  <1>4. Settled(t, tag, m) BY <1>3 DEF Before, Places, Place
  <1>5. Frame(t, tag, m) BY Zenon, <1>1, LocalFrame DEF Before
  <1>6. /\ InTable(t, tag, m)' <=> InTable(t, tag, m)
        /\ InQueue(t, tag, m)' <=> InQueue(t, tag, m)
    BY Zenon, <1>1 DEF LocalStep, InTable, InQueue, R
  <1>10. /\ granted[t][tag][m] - 1 \in 0..MaxGranted
         /\ granted[t][tag][m] = 1 => granted[t][tag][m] - 1 = 0
         /\ granted[t][tag][m] # 1 => granted[t][tag][m] - 1 > 0
    <2>1. granted[t][tag][m] \in 0..MaxGranted /\ MaxGranted \in Nat /\ granted[t][tag][m] > 0
      BY ZenonT(40), <1>1, <1>2
    <2>2. QED BY ONLY <2>1
  <1>7. CASE /\ granted[t][tag][m] > 1 \/ m \in fast[t][tag]
             /\ granted'[t][tag][m] = granted[t][tag][m] - 1
             /\ fast'[t][tag] = IF granted[t][tag][m] = 1 THEN fast[t][tag] \ {m} ELSE fast[t][tag]
             /\ call' = call
    <2>1. CallShape(call'[t]) /\ TransferOK(call'[t], fast') /\ ArrivedOK(call'[t], fast')
      BY Zenon, <1>1, <1>2, <1>7 DEF TransferOK, ArrivedOK
    <2>2. granted'[t][tag][m] \in 0..MaxGranted BY Zenon, <1>7, <1>10
    <2>3. Settled(t, tag, m)'
      <3>1. CASE granted[t][tag][m] = 1
        <4>1. ~ (granted[t][tag][m] > 1) BY <3>1
        <4>2. granted'[t][tag][m] = 0 /\ m \in fast[t][tag] /\ m \notin fast'[t][tag]
          BY Zenon, <1>7, <1>10, <3>1, <4>1
        <4>3. QED BY Zenon, <1>1, <1>4, <1>6, <4>2, Signs DEF Settled
      <3>2. CASE granted[t][tag][m] # 1
        <4>1. granted'[t][tag][m] > 0 /\ fast'[t][tag] = fast[t][tag] 
          BY ZenonT(40), <1>7, <1>10, <3>2
        <4>2. QED BY Zenon, <1>1, <1>4, <1>6, <4>1 DEF Settled
      <3>3. QED BY <3>1, <3>2
    <2>4. ~ Here(t, tag, m)' BY <1>1, <1>7 DEF Here
    <2>5. Place(t, tag, m)' BY <2>3, <2>4 DEF Place
    <2>6. FastShrinks
      <3>1. fast'[t][tag] \subseteq fast[t][tag] BY <1>7
      <3>2. QED BY Zenon, <1>1, <3>1, FastLess DEF Before
    <2>7. Kept BY ZenonT(40), <1>1, <2>1, <2>2, <2>5, <2>6, LocalKept
    <2>8. HasMark(t, tag, m)' <=> HasMark(t, tag, m)
      <3>1. CASE m \in fast[t][tag]
        <4>1. m \in WeakMode BY <1>2, <3>1
        <4>2. ~ IsStrong(tag, m) BY <4>1, ModeFacts DEF IsStrong
        <4>3. QED BY Zenon, <4>2 DEF HasMark
      <3>2. CASE granted[t][tag][m] > 1
        <4>1. granted[t][tag][m] # 1 BY <3>2
        <4>3. granted'[t][tag][m] > 0 BY Zenon, <1>7, <1>10, <4>1
        <4>4. QED BY Zenon, <1>1, <1>7, <4>3 DEF HasMark
      <3>3. QED BY <1>7, <3>1, <3>2
    <2>9. QED BY <1>1, <1>5, <2>7, <2>8, FrameMarksKept
  <1>8. CASE /\ granted[t][tag][m] = 1 /\ m \notin fast[t][tag]
             /\ granted' = granted /\ fast' = fast
             /\ call'[t].pc = "unlock" /\ call'[t].tag = tag /\ call'[t].mode = m
             /\ ~ call'[t].batch /\ call'[t].todo = {} /\ call'[t].cur = {}
    <2>1. CallShape(call'[t]) BY Zenon, <1>8 DEF CallShape
    <2>2. TransferOK(call'[t], fast') /\ ArrivedOK(call'[t], fast') BY <1>8 DEF TransferOK, ArrivedOK
    <2>3. granted'[t][tag][m] \in 0..MaxGranted BY <1>2, <1>8
    <2>4. Busy(t, tag, m)' BY Zenon, <1>1, <1>4, <1>6, <1>8 DEF Busy, Settled
    <2>5. Here(t, tag, m)' BY Zenon, <1>8 DEF Here
    <2>6. Place(t, tag, m)' BY <2>4, <2>5 DEF Place
    <2>7. FastShrinks BY <1>8 DEF FastShrinks
    <2>8. Kept BY Zenon, <1>1, <2>1, <2>2, <2>3, <2>6, <2>7, LocalKept
    <2>9. HasMark(t, tag, m)' <=> HasMark(t, tag, m) BY Zenon, <1>1, <1>8 DEF HasMark
    <2>10. QED BY <1>1, <1>5, <2>8, <2>9, FrameMarksKept
  <1>9. QED BY <1>1, <1>7, <1>8, Zenon

\* A batch release, and the call of the main table it may begin.
LEMMA BatchUnlockKept ==
  ASSUME Before, NEW t \in Thread, BatchUnlock(t)
  PROVE  Kept /\ MarksKept
  \* BatchUnlock releases a lock several times; the last release of a lock of the
  \* main table starts a call.
  <1>Effect. ASSUME Types
             PROVE  \E tag \in Tag, m \in LockMode, times \in Nat :
                      /\ LocalStep(t, tag, m)
                      /\ strong' = strong
                      /\ call[t].pc = "idle"
                      /\ 0 < times /\ times <= granted[t][tag][m]
                      /\ granted'[t][tag][m] = granted[t][tag][m] - times
                      /\ fast'[t][tag] = IF granted[t][tag][m] = times THEN fast[t][tag] \ {m} ELSE fast[t][tag]
                      /\ \/ /\ granted[t][tag][m] # times \/ m \in fast[t][tag]
                            /\ call' = call
                         \/ /\ granted[t][tag][m] = times /\ m \notin fast[t][tag]
                            /\ call'[t].pc = "unlock" /\ call'[t].tag = tag /\ call'[t].mode = m
                            /\ call'[t].batch /\ call'[t].todo = {} /\ call'[t].cur = {}
    <2> USE <1>Effect
    <2>0. PICK tag \in TableTag, m \in CallModes[t] : \E times \in 1..granted[t][tag][m] :
            /\ granted' = [granted EXCEPT ![t][tag][m] = @ - times]
            /\ fast' = [fast EXCEPT ![t][tag] =
                          IF granted[t][tag][m] = times THEN @ \ {m} ELSE @]
            /\ IF LeavesMainTable(t, tag, m, granted[t][tag][m] = times)
                 THEN StartCall(t, "unlock", tag, m, FALSE, TRUE)
                 ELSE call' = call
      BY Zenon DEF BatchUnlock
    <2>1. PICK times \in 1..granted[t][tag][m] :
            /\ granted' = [granted EXCEPT ![t][tag][m] = @ - times]
            /\ fast' = [fast EXCEPT ![t][tag] =
                          IF granted[t][tag][m] = times THEN @ \ {m} ELSE @]
            /\ IF LeavesMainTable(t, tag, m, granted[t][tag][m] = times)
                 THEN StartCall(t, "unlock", tag, m, FALSE, TRUE)
                 ELSE call' = call
      BY Zenon, <2>0
    <2>2. m \in LockMode /\ tag \in Tag BY CallAssumption, TagAssumption
    <2>3. /\ call[t].pc = "idle" /\ table' = table /\ strong' = strong /\ isWaiting' = isWaiting
      BY DEF BatchUnlock
    <2>4. /\ call \in [Thread -> CallRecord] /\ isWaiting \in [Thread -> BOOLEAN]
          /\ fast \in [Thread -> [Tag -> SUBSET WeakMode]]
          /\ granted \in [Thread -> [Tag -> [LockMode -> 0..MaxGranted]]] /\ MaxGranted \in Nat
      BY CallAssumption DEF Types, Fields
    <2>5. granted[t][tag][m] \in Nat BY <2>2, <2>4
    <2>6. times \in Nat /\ 0 < times /\ times <= granted[t][tag][m] /\ -times \in Int BY <2>5
    <2>7. AddGrants(t, tag, m, -times)
      <3>1. granted[t][tag][m] - times = granted[t][tag][m] + (-times) BY <2>5, <2>6
      <3>2. QED BY Zenon, <2>1, <3>1 DEF AddGrants
    <2>8. GrantsAdded(t, tag, m, -times) BY <2>2, <2>6, <2>7, GrantEffect
    <2> DEFINE rest == IF granted[t][tag][m] = times THEN fast[t][tag] \ {m} ELSE fast[t][tag]
    <2>9. fast' = [fast EXCEPT ![t][tag] = rest] BY <2>1
    <2>10. /\ rest \subseteq WeakMode
           /\ \A n \in LockMode : n # m => (n \in rest <=> n \in fast[t][tag])
      BY Zenon, <2>2, <2>4
    <2> HIDE DEF rest
    <2>11. /\ fast' \in [Thread -> [Tag -> SUBSET WeakMode]]
           /\ \A u \in Thread : u # t => fast'[u] = fast[u]
           /\ fast'[t][tag] = rest
           /\ \A g \in Tag : g # tag => fast'[t][g] = fast[t][g]
      BY SMTT(20), <2>2, <2>4, <2>9, <2>10
    <2>12. granted'[t][tag][m] = granted[t][tag][m] - times BY <2>5, <2>6, <2>8 DEF GrantsAdded
    <2>13. CASE granted[t][tag][m] # times \/ m \in fast[t][tag]
      <3>1. call' = call BY Zenon, <2>1, <2>13 DEF LeavesMainTable
      <3>2. LocalStep(t, tag, m)
        BY Zenon, <2>2, <2>3, <2>4, <2>8, <2>10, <2>11, <3>1 DEF LocalStep, GrantsAdded
      <3>3. QED BY Zenon, <2>2, <2>3, <2>6, <2>11, <2>12, <2>13, <3>1, <3>2 DEF rest
    <2>14. CASE granted[t][tag][m] = times /\ m \notin fast[t][tag]
      <3>1. StartCall(t, "unlock", tag, m, FALSE, TRUE) BY Zenon, <2>1, <2>14 DEF LeavesMainTable
      <3>2. "unlock" \in PCs BY DEF PCs
      <3>3. Started(t, "unlock", tag, m, FALSE, TRUE) BY Zenon, <2>2, <3>1, <3>2, StartEffect
      <3>4. LocalStep(t, tag, m)
        <4>1. /\ call' \in [Thread -> CallRecord] /\ call'[t].tag = tag /\ call'[t].mode = m
              /\ \A u \in Thread : u # t => call'[u] = call[u]
          BY Zenon, <2>4, <3>3 DEF Started, CallFrame
        <4>2. QED BY Zenon, <2>2, <2>3, <2>4, <2>8, <2>10, <2>11, <4>1 DEF LocalStep, GrantsAdded
      <3>5. QED BY Zenon, <2>2, <2>3, <2>6, <2>11, <2>12, <2>14, <3>3, <3>4 DEF rest, Started
    <2>15. QED BY <2>13, <2>14, Zenon
  <1>1. PICK tag \in Tag, m \in LockMode, times \in Nat :
           /\ LocalStep(t, tag, m)
           /\ strong' = strong
           /\ call[t].pc = "idle"
           /\ 0 < times /\ times <= granted[t][tag][m]
           /\ granted'[t][tag][m] = granted[t][tag][m] - times
           /\ fast'[t][tag] = IF granted[t][tag][m] = times THEN fast[t][tag] \ {m} ELSE fast[t][tag]
           /\ \/ /\ granted[t][tag][m] # times \/ m \in fast[t][tag]
                 /\ call' = call
              \/ /\ granted[t][tag][m] = times /\ m \notin fast[t][tag]
                 /\ call'[t].pc = "unlock" /\ call'[t].tag = tag /\ call'[t].mode = m
                 /\ call'[t].batch /\ call'[t].todo = {} /\ call'[t].cur = {}
    BY Zenon, <1>Effect DEF Before
  <1>2. /\ granted[t][tag][m] \in 0..MaxGranted /\ MaxGranted \in Nat \ {0}
        /\ CallShape(call[t]) /\ fast \in [Thread -> [Tag -> SUBSET WeakMode]]
    BY CallAssumption DEF Before, Types, Fields
  <1>3. ~ Here(t, tag, m) BY Zenon, <1>1 DEF Here
  <1>4. Settled(t, tag, m) BY <1>3 DEF Before, Places, Place
  <1>5. Frame(t, tag, m) BY Zenon, <1>1, LocalFrame DEF Before
  <1>6. /\ InTable(t, tag, m)' <=> InTable(t, tag, m)
        /\ InQueue(t, tag, m)' <=> InQueue(t, tag, m)
    BY Zenon, <1>1 DEF LocalStep, InTable, InQueue, R
  <1>7. /\ granted'[t][tag][m] \in 0..MaxGranted /\ granted[t][tag][m] > 0
        /\ granted[t][tag][m] = times => granted'[t][tag][m] = 0
        /\ granted[t][tag][m] # times => granted'[t][tag][m] > 0
    <2>1. /\ granted[t][tag][m] \in 0..MaxGranted /\ MaxGranted \in Nat /\ times \in Nat
          /\ 0 < times /\ times <= granted[t][tag][m]
          /\ granted'[t][tag][m] = granted[t][tag][m] - times
      BY Zenon, <1>1, <1>2
    <2>2. QED BY ONLY <2>1
  <1>8. FastShrinks
    <2>1. fast'[t][tag] \subseteq fast[t][tag] BY Zenon, <1>1
    <2>2. QED BY Zenon, <1>1, <2>1, FastLess DEF Before
  <1>9. CASE (granted[t][tag][m] # times \/ m \in fast[t][tag]) /\ call' = call
    <2>1. CallShape(call'[t]) /\ TransferOK(call'[t], fast') /\ ArrivedOK(call'[t], fast')
      BY Zenon, <1>1, <1>2, <1>9 DEF TransferOK, ArrivedOK
    <2>2. Settled(t, tag, m)'
      <3>1. CASE granted[t][tag][m] = times
        <4>1. granted'[t][tag][m] = 0 /\ m \in fast[t][tag] /\ m \notin fast'[t][tag]
          BY Zenon, <1>1, <1>7, <1>9, <3>1
        <4>2. QED BY Zenon, <1>7, <1>4, <1>6, <4>1, Signs DEF Settled
      <3>2. CASE granted[t][tag][m] # times
        <4>1. granted'[t][tag][m] > 0 /\ fast'[t][tag] = fast[t][tag] BY ZenonT(40), <1>1, <1>7, <3>2
        <4>2. QED BY Zenon, <1>7, <1>4, <1>6, <4>1 DEF Settled
      <3>3. QED BY <3>1, <3>2
    <2>3. ~ Here(t, tag, m)' BY Zenon, <1>1, <1>9 DEF Here
    <2>4. Place(t, tag, m)' BY <2>2, <2>3 DEF Place
    <2>5. Kept BY ZenonT(40), <1>1, <1>7, <1>8, <2>1, <2>4, LocalKept
    <2>6. HasMark(t, tag, m)' <=> HasMark(t, tag, m)
      <3>1. CASE m \in fast[t][tag]
        <4>1. m \in WeakMode BY <1>2, <3>1
        <4>2. ~ IsStrong(tag, m) BY <4>1, ModeFacts DEF IsStrong
        <4>3. QED BY <4>2 DEF HasMark
      <3>2. CASE granted[t][tag][m] # times
        <4>1. granted'[t][tag][m] > 0 BY SMTT(20), <1>7, <3>2
        <4>2. QED BY Zenon, <1>1, <1>7, <1>9, <4>1 DEF HasMark
      <3>3. QED BY SMTT(20), <1>9, <3>1, <3>2
    <2>7. QED BY Zenon, <1>1, <1>5, <2>5, <2>6, FrameMarksKept
  <1>10. CASE /\ granted[t][tag][m] = times /\ m \notin fast[t][tag]
              /\ call'[t].pc = "unlock" /\ call'[t].tag = tag /\ call'[t].mode = m
              /\ call'[t].batch /\ call'[t].todo = {} /\ call'[t].cur = {}
    <2>1. CallShape(call'[t]) BY <1>10 DEF CallShape
    <2>2. TransferOK(call'[t], fast') /\ ArrivedOK(call'[t], fast')
      BY <1>10 DEF TransferOK, ArrivedOK
    <2>3. granted'[t][tag][m] = 0 /\ m \notin fast'[t][tag] BY Zenon, <1>1, <1>7, <1>10
    <2>4. Busy(t, tag, m)' BY Zenon, <1>4, <1>6, <1>7, <1>10, <2>3 DEF Busy, Settled
    <2>5. Here(t, tag, m)' BY <1>10 DEF Here
    <2>6. Place(t, tag, m)' BY <2>4, <2>5 DEF Place
    <2>7. Kept BY Zenon, <1>1, <1>7, <1>8, <2>1, <2>2, <2>6, LocalKept
    <2>8. HasMark(t, tag, m)' <=> HasMark(t, tag, m) BY Zenon, <1>1, <1>7, <1>10, <2>3 DEF HasMark
    <2>9. QED BY Zenon, <1>1, <1>5, <2>7, <2>8, FrameMarksKept
  <1>11. QED BY <1>1, <1>9, <1>10, Zenon

-----------------------------------------------------------------------------
(* Steps on an entry of the main table.                                    *)

(* What LockEntryProofs shows of the operations on an entry. *)
EntryLaws ==
  /\ \A e : \A r \in Request, dontWait \in BOOLEAN :
       EntryInv(e) => EnqueueOK(e, r, dontWait, EnqueueLockRequest(e, r, dontWait))
  /\ \A e, r : EntryInv(e) => DequeueOK(e, r, DequeueLockRequest(e, r))
  /\ \A e : EntryInv(e) =>
       /\ EntryInv(RemoveIfUnused(e))
       /\ RemoveIfUnused(e).granted = e.granted
       /\ RemoveIfUnused(e).waiting = e.waiting

EntryBecomes(tag, e) == table' = [table EXCEPT ![tag] = e]

\* Requests of different threads or modes differ.
LEMMA RequestsDiffer ==
  ASSUME NEW u, NEW n, NEW v, NEW k, R(u, n) = R(v, k)
  PROVE  u = v /\ n = k
  BY DEF R

\* The request of a thread for a mode.
LEMMA RequestType ==
  ASSUME NEW u \in Thread, NEW n \in LockMode
  PROVE  R(u, n) \in Request /\ R(u, n).thr = u /\ R(u, n).mode = n
  BY DEF R, Request

\* The table after a step on the entry of tag.
LEMMA EntryEffect ==
  ASSUME Types, Entries, NEW tag \in Tag, NEW e, EntryBecomes(tag, e), EntryInv(e)
  PROVE  /\ table' \in [Tag -> Entry]
         /\ Entries'
         /\ \A u, n : InTable(u, tag, n)' <=> R(u, n) \in e.granted
         /\ \A u, n : InQueue(u, tag, n)' <=> R(u, n) \in Waiters(e)
         /\ \A g \in Tag : g # tag =>
              \A u, n : /\ InTable(u, g, n)' <=> InTable(u, g, n)
                        /\ InQueue(u, g, n)' <=> InQueue(u, g, n)
  <1>1. table \in [Tag -> Entry] BY DEF Types, Fields
  <1>2. e \in Entry BY DEF EntryInv, Counted
  <1>3. /\ table' \in [Tag -> Entry] /\ table'[tag] = e
        /\ \A g \in Tag : g # tag => table'[g] = table[g]
    BY <1>1, <1>2 DEF EntryBecomes
  <1>4. Entries' BY <1>3 DEF Entries
  <1>5. \A u, n : InTable(u, tag, n)' <=> R(u, n) \in e.granted BY <1>3 DEF InTable, R
  <1>6. \A u, n : InQueue(u, tag, n)' <=> R(u, n) \in Waiters(e) BY <1>3 DEF InQueue, R
  <1>7. ASSUME NEW g \in Tag, g # tag, NEW u, NEW n
        PROVE  /\ InTable(u, g, n)' <=> InTable(u, g, n)
               /\ InQueue(u, g, n)' <=> InQueue(u, g, n)
    BY <1>3, <1>7 DEF InTable, InQueue, R
  <1>8. QED BY Zenon, <1>3, <1>4, <1>5, <1>6, <1>7

\* A set of fast-path modes that is not empty has a least one.
LEMMA LeastMode ==
  ASSUME NEW S, S \subseteq WeakMode, S # {}
  PROVE  (CHOOSE m \in S : \A n \in S : m <= n) \in S
  <1>1. S \subseteq 1..3 BY ModeFacts
  <1>2. \E m \in S : \A n \in S : m <= n
    <2>1. CASE 1 \in S
      <3>1. \A n \in S : 1 <= n BY <1>1
      <3>2. QED BY <2>1, <3>1, Zenon
    <2>2. CASE 1 \notin S /\ 2 \in S
      <3>1. \A n \in S : 2 <= n BY <1>1, <2>2
      <3>2. QED BY <2>2, <3>1, Zenon
    <2>3. CASE 1 \notin S /\ 2 \notin S
      <3>1. \A n \in S : n = 3 BY <1>1, <2>3
      <3>2. PICK m \in S : TRUE OBVIOUS
      <3>3. \A n \in S : m <= n BY <3>1, <3>2
      <3>4. QED BY <3>2, <3>3
    <2>4. QED BY <2>1, <2>2, <2>3
  <1>3. QED BY <1>2

(* A transfer moves one fast-path lock of u to the main table. *)
Transfers(t, u, tag, n, e) ==
  /\ call[t].pc = "transfer" /\ call[t].tag = tag
  /\ n \in fast[u][tag]
  /\ u \in call[t].cur \/ call[t].cur = {}
  /\ EntryBecomes(tag, e) /\ EntryInv(e)
  /\ e.granted = table[tag].granted \cup {R(u, n)} /\ e.waiting = table[tag].waiting
  /\ fast' = [fast EXCEPT ![u][tag] = @ \ {n}]
  /\ Became(t, "transfer", call[t].ok, call[t].todo \ {u},
            IF fast[u][tag] \ {n} = {} THEN {} ELSE {u})
  /\ granted' = granted /\ strong' = strong /\ isWaiting' = isWaiting

\* TransferOneWeakLock.
LEMMA TransferKept ==
  ASSUME Before, EntryLaws, NEW t \in Thread, NEW u \in Thread, TransferOneWeakLock(t, u)
  PROVE  Kept /\ MarksKept
  \* A transfer step passes a thread with nothing to move, or moves one weak lock of it.
  <1>Effect. \/ Kept /\ MarksKept
             \/ \E tag \in Tag, n \in WeakMode, e \in Entry : Transfers(t, u, tag, n, e)
    \* A transfer that is done with some of the threads.
    <2>Pass. ASSUME Types, NEW S, NEW C \in SUBSET Thread,
                    call' = [call EXCEPT ![t].todo = @ \ S, ![t].cur = C]
             PROVE  Became(t, call[t].pc, call[t].ok, call[t].todo \ S, C)
      <3> USE <2>Pass
      \* A transfer that moves a lock.
      <3>Set. ASSUME call \in [Thread -> CallRecord], NEW todo \in SUBSET Thread,
                     call' = [call EXCEPT ![t].todo = todo, ![t].cur = C]
              PROVE  Became(t, call[t].pc, call[t].ok, todo, C)
        <4> USE <3>Set
        <4> DEFINE c == [call[t] EXCEPT !.todo = todo, !.cur = C]
        <4>1. call[t] \in CallRecord /\ call'[t] = c /\ \A w \in Thread : w # t => call'[w] = call[w]
          BY Zenon
        <4>2. c.todo = todo /\ c.cur = C
          BY <4>1 DEF CallRecord
        <4>3. c.pc = call[t].pc /\ c.tag = call[t].tag /\ c.mode = call[t].mode /\ c.dontWait = call[t].dontWait /\ c.batch = call[t].batch /\ c.ok = call[t].ok
          BY <4>1 DEF CallRecord
        <4>4. c \in CallRecord BY Zenon, <4>1 DEF CallRecord
        <4>5. call' \in [Thread -> CallRecord] BY Zenon, <4>4
        <4> HIDE DEF c
        <4>6. QED BY Zenon, <4>1, <4>2, <4>3, <4>5 DEF Became, CallFrame
      <3> DEFINE todo == call[t].todo \ S
      <3>1. call \in [Thread -> CallRecord] BY DEF Types, Fields
      <3>2. todo \in SUBSET Thread BY <3>1 DEF CallRecord
      <3>3. call' = [call EXCEPT ![t].todo = todo, ![t].cur = C] BY <3>1
      <3> HIDE DEF todo
      <3>4. Became(t, call[t].pc, call[t].ok, todo, C)
        BY ONLY Zenon, <3>1, <3>2, <3>3, <3>Set, t \in Thread, C \in SUBSET Thread
      <3>5. QED BY <3>4 DEF todo
    \* The branch of a transfer in which it fails.
    <2>Fails. ASSUME call[t].pc = "transfer",
                     call' = [call EXCEPT ![t].pc = "unmark_failed", ![t].todo = {}, ![t].cur = {}],
                     UNCHANGED <<table, granted, fast, strong, isWaiting>>
              PROVE  Kept /\ MarksKept
      <3> USE <2>Fails
      \* A transfer that fails gives its strong mark back.
      <3>Effect. ASSUME Types
                 PROVE  Became(t, "unmark_failed", call[t].ok, {}, {})
        <4> USE <3>Effect
        \* A transfer that fails.
        <4>Set. ASSUME call \in [Thread -> CallRecord], NEW pc \in PCs, NEW todo \in SUBSET Thread,
                       NEW C \in SUBSET Thread,
                       call' = [call EXCEPT ![t].pc = pc, ![t].todo = todo, ![t].cur = C]
                PROVE  Became(t, pc, call[t].ok, todo, C)
          <5> USE <4>Set
          <5> DEFINE c == [call[t] EXCEPT !.pc = pc, !.todo = todo, !.cur = C]
          <5>1. call[t] \in CallRecord /\ call'[t] = c /\ \A w \in Thread : w # t => call'[w] = call[w]
            BY Zenon
          <5>2. c.pc = pc /\ c.todo = todo /\ c.cur = C
            BY <5>1 DEF CallRecord
          <5>3. c.tag = call[t].tag /\ c.mode = call[t].mode /\ c.dontWait = call[t].dontWait /\ c.batch = call[t].batch /\ c.ok = call[t].ok
            BY <5>1 DEF CallRecord
          <5>4. c \in CallRecord BY Zenon, <5>1 DEF CallRecord
          <5>5. call' \in [Thread -> CallRecord] BY Zenon, <5>4
          <5> HIDE DEF c
          <5>6. QED BY Zenon, <5>1, <5>2, <5>3, <5>5 DEF Became, CallFrame
        <4>1. call \in [Thread -> CallRecord] BY DEF Types, Fields
        <4>2. "unmark_failed" \in PCs /\ {} \in SUBSET Thread BY DEF PCs
        <4>3. QED BY Zenon, <4>1, <4>2, <4>Set
      <3>1. /\ table' = table /\ granted' = granted /\ fast' = fast /\ strong' = strong
            /\ isWaiting' = isWaiting
        OBVIOUS
      <3>2. Became(t, "unmark_failed", call[t].ok, {}, {}) BY Zenon, <3>Effect DEF Before
      <3>3. PICK tag \in Tag, m \in LockMode :
              call[t].tag = tag /\ call[t].mode = m /\ IsStrong(tag, m) /\ ~ call[t].ok
        BY <3>1 DEF Before, Types, Fields, CallShape
      <3>4. isWaiting \in [Thread -> BOOLEAN] BY DEF Before, Types, Fields
      <3>5. OwnStep(t) BY <3>1, <3>2, <3>4 DEF OwnStep, Became
      <3>6. CallShape(call'[t]) BY Zenon, <3>1, <3>2, <3>3 DEF CallShape, Became
      <3>7. /\ Here(t, tag, m) /\ Busy(t, tag, m)
            /\ InTable(t, tag, m)' <=> InTable(t, tag, m)
            /\ InQueue(t, tag, m)' <=> InQueue(t, tag, m)
            /\ granted'[t][tag][m] = granted[t][tag][m] /\ fast'[t][tag] = fast[t][tag]
        BY <3>3, <3>5, OwnBusy
      <3>8. Busy(t, tag, m)' BY <3>1, <3>2, <3>7 DEF Busy, Became
      <3>9. Kept /\ Frame(t, tag, m) BY Zenon, <3>2, <3>3, <3>5, <3>6, <3>8, MovedKept DEF Became
      <3>10. HasMark(t, tag, m)' <=> HasMark(t, tag, m) BY <3>1, <3>2, <3>3, <3>7 DEF HasMark, Became
      <3>11. QED BY <3>1, <3>9, <3>10, FrameMarksKept
    <2>1. CallShape(call[t]) /\ call[t].pc = "transfer" /\ fast \in [Thread -> [Tag -> SUBSET WeakMode]]
      BY Zenon DEF Before, Types, Fields, TransferOneWeakLock
    <2> DEFINE tag  == call[t].tag
               n    == CHOOSE k \in fast[u][tag] : \A j \in fast[u][tag] : k <= j
               rest == fast[u][tag] \ {n}
               res  == EnqueueLockRequest(table[tag], [thr |-> u, mode |-> n], TRUE)
               C    == IF rest = {} THEN {} ELSE {u}
    <2>2. tag \in Tag BY <2>1 DEF CallShape
    <2>3. /\ fast[u][tag] # {}
          /\ u \in call[t].cur \/ call[t].cur = {}
          /\ \/ /\ res.ret = "granted"
                /\ table' = [table EXCEPT ![tag] = res.entry]
                /\ fast' = [fast EXCEPT ![u][tag] = rest]
                /\ call' = [call EXCEPT ![t].todo = @ \ {u}, ![t].cur = C]
             \/ /\ call' = [call EXCEPT ![t].pc = "unmark_failed", ![t].todo = {}, ![t].cur = {}]
                /\ UNCHANGED <<table, fast>>
          /\ granted' = granted /\ strong' = strong /\ isWaiting' = isWaiting
      BY Zenon DEF TransferOneWeakLock
    <2>4. n \in fast[u][tag]
      <3>1. fast[u][tag] \subseteq WeakMode BY <2>1, <2>2
      <3>2. QED BY Zenon, <2>3, <3>1, LeastMode
    <2>5. C \subseteq Thread OBVIOUS
    <2>6. res = EnqueueLockRequest(table[tag], R(u, n), TRUE) BY Zenon DEF R
    <2> HIDE DEF tag, n, res, C
    <2>7. n \in WeakMode /\ n \in LockMode BY <2>1, <2>2, <2>4 DEF WeakMode
    <2>8. CASE /\ call' = [call EXCEPT ![t].pc = "unmark_failed", ![t].todo = {}, ![t].cur = {}]
               /\ UNCHANGED <<table, fast>>
      <3>1. UNCHANGED <<table, granted, fast, strong, isWaiting>> BY <2>3, <2>8
      <3>2. Kept /\ MarksKept BY Zenon, <2>1, <2>8, <3>1, <2>Fails
      <3>3. QED BY <3>2
    <2>9. CASE /\ res.ret = "granted"
               /\ table' = [table EXCEPT ![tag] = res.entry]
               /\ fast' = [fast EXCEPT ![u][tag] = rest]
               /\ call' = [call EXCEPT ![t].todo = @ \ {u}, ![t].cur = C]
      <3>1. EntryInv(table[tag]) BY <2>2 DEF Before, Entries
      <3>2. R(u, n) \in Request BY <2>7, RequestType
      <3>3. EnqueueOK(table[tag], R(u, n), TRUE, res) BY Zenon, <2>6, <3>1, <3>2 DEF EntryLaws
      <3>4. /\ EntryInv(res.entry) /\ res.entry.granted = table[tag].granted \cup {R(u, n)}
            /\ res.entry.waiting = table[tag].waiting
        BY <2>9, <3>3 DEF EnqueueOK
      <3>5. res.entry \in Entry BY Zenon, <3>4 DEF EntryInv, Counted
      <3>6. Became(t, call[t].pc, call[t].ok, call[t].todo \ {u}, C)
        BY Zenon, <2>5, <2>9, <2>Pass DEF Before
      <3>7. Became(t, "transfer", call[t].ok, call[t].todo \ {u}, C) BY <2>1, <3>6
      <3>8. fast' = [fast EXCEPT ![u][tag] = @ \ {n}] BY <2>9
      <3>9. EntryBecomes(tag, res.entry) BY <2>9 DEF EntryBecomes
      <3>10. Transfers(t, u, tag, n, res.entry)
        BY Zenon, <2>1, <2>3, <2>4, <3>4, <3>7, <3>8, <3>9 DEF Transfers, C, tag
      <3>11. QED BY <2>2, <2>7, <3>5, <3>10
    <2>10. QED BY Zenon, <2>3, <2>8, <2>9
  \* The lock that is transferred keeps its holder and every other lock its place.
  <1>Frame. ASSUME NEW tag \in Tag, NEW n \in WeakMode, NEW e, Transfers(t, u, tag, n, e)
            PROVE  Frame(u, tag, n) /\ Place(u, tag, n)'
    <2> USE <1>Frame
    <2>1. /\ n \in fast[u][tag] /\ call[t].pc = "transfer"
          /\ EntryBecomes(tag, e) /\ EntryInv(e)
          /\ e.granted = table[tag].granted \cup {R(u, n)} /\ e.waiting = table[tag].waiting
          /\ fast' = [fast EXCEPT ![u][tag] = @ \ {n}]
          /\ granted' = granted /\ isWaiting' = isWaiting
          /\ CallFrame(t) /\ call'[t].pc = "transfer" /\ call'[t].tag = call[t].tag
          /\ call'[t].mode = call[t].mode /\ call'[t].ok = call[t].ok /\ call'[t].batch = call[t].batch
      BY DEF Transfers, Became
    <2>2. n \in LockMode BY DEF WeakMode
    <2>3. fast \in [Thread -> [Tag -> SUBSET WeakMode]] BY DEF Before, Types, Fields
    <2>4. Waiters(e) = Waiters(table[tag]) BY <2>1 DEF Waiters
    <2>5. /\ \A v, k : InTable(v, tag, k)' <=> R(v, k) \in e.granted
          /\ \A v, k : InQueue(v, tag, k)' <=> R(v, k) \in Waiters(e)
          /\ \A g \in Tag : g # tag =>
               \A v, k : /\ InTable(v, g, k)' <=> InTable(v, g, k)
                         /\ InQueue(v, g, k)' <=> InQueue(v, g, k)
      BY <2>1, EntryEffect DEF Before
    <2>6. ASSUME NEW v \in Thread, NEW g \in Tag, NEW k \in LockMode
          PROVE  InQueue(v, g, k)' <=> InQueue(v, g, k)
      BY Zenon, <2>4, <2>5 DEF InQueue
    <2>7. ASSUME NEW v \in Thread, NEW g \in Tag, NEW k \in LockMode, v # u \/ g # tag \/ k # n
          PROVE  Untouched(v, g, k)
      <3>1. InTable(v, g, k)' <=> InTable(v, g, k)
        <4>1. CASE g # tag BY Zenon, <2>5, <4>1
        <4>2. CASE g = tag
          <5>1. R(v, k) # R(u, n) BY <2>7, <4>2, RequestsDiffer
          <5>2. QED BY <2>1, <2>5, <4>2, <5>1 DEF InTable
        <4>3. QED BY <4>1, <4>2
      <3>2. k \in fast'[v][g] <=> k \in fast[v][g] BY Zenon, <2>1, <2>3, <2>7
      <3>3. /\ Here(v, g, k)' <=> Here(v, g, k)
            /\ call'[v].pc = call[v].pc /\ call'[v].ok = call[v].ok /\ call'[v].batch = call[v].batch
        BY <2>1 DEF Here, CallFrame
      <3>4. QED BY <2>1, <2>6, <3>1, <3>2, <3>3 DEF Untouched
    <2>8. Place(u, tag, n) BY <2>2 DEF Before, Places
    <2>9. ~ Here(u, tag, n) /\ Settled(u, tag, n) BY Zenon, <2>1, <2>8 DEF Place, Busy
    <2>10. ~ Here(u, tag, n)' BY SMTT(20), <2>1, <2>9 DEF Here, CallFrame
    <2>11. n \notin fast'[u][tag] BY Zenon, <2>1, <2>3
    <2>12. InTable(u, tag, n)' BY <2>1, <2>5
    <2>13. Settled(u, tag, n)' BY <2>1, <2>2, <2>6, <2>9, <2>11, <2>12 DEF Settled
    <2>14. Place(u, tag, n)' BY <2>10, <2>13 DEF Place
    <2>15. QED BY SMTT(20), <2>7, <2>14 DEF Frame
  \* A transfer closes the fast path a little more and opens it nowhere.
  <1>Fast. ASSUME NEW tag \in Tag, NEW n \in WeakMode, NEW e, Transfers(t, u, tag, n, e)
           PROVE  FastClosed'
    <2> USE <1>Fast
    <2>1. /\ n \in fast[u][tag] /\ call[t].pc = "transfer" /\ call[t].tag = tag
          /\ u \in call[t].cur \/ call[t].cur = {}
          /\ EntryBecomes(tag, e) /\ EntryInv(e)
          /\ e.granted = table[tag].granted \cup {R(u, n)} /\ e.waiting = table[tag].waiting
          /\ fast' = [fast EXCEPT ![u][tag] = @ \ {n}]
          /\ CallFrame(t) /\ call'[t].pc = "transfer" /\ call'[t].tag = tag
          /\ call'[t].mode = call[t].mode
          /\ call'[t].todo = call[t].todo \ {u}
          /\ call'[t].cur = IF fast[u][tag] \ {n} = {} THEN {} ELSE {u}
      BY DEF Transfers, Became
    <2>2. /\ fast \in [Thread -> [Tag -> SUBSET WeakMode]] /\ CallShape(call[t])
          /\ call \in [Thread -> CallRecord]
      BY DEF Before, Types, Fields
    <2>3. /\ \A v \in Thread, g \in Tag : fast'[v][g] \subseteq fast[v][g]
          /\ fast'[u][tag] = fast[u][tag] \ {n}
      BY Zenon, <2>1, <2>2
    <2>4. ASSUME NEW v \in Thread, NEW g \in Tag, fast'[v][g] # {} PROVE g \in TableTag
      <3>1. fast[v][g] # {} BY Zenon, <2>3, <2>4
      <3>2. QED BY Zenon, <3>1 DEF Before, FastClosed
    <2>5. ASSUME NEW v \in Thread, NEW w \in Thread, call'[v].pc = "transfer"
          PROVE  w \in call'[v].todo \cup call'[v].cur \/ fast'[w][call'[v].tag] = {}
      <3>1. CASE v # t
        <4>1. call'[v] = call[v] BY <2>1, <3>1 DEF CallFrame
        <4>2. w \in call[v].todo \cup call[v].cur \/ fast[w][call[v].tag] = {}
          BY Zenon, <2>5, <4>1 DEF Before, FastClosed
        <4>3. call[v].tag \in Tag BY Zenon, <2>5, <4>1 DEF Before, Types, Fields, CallShape
        <4>4. fast'[w][call[v].tag] \subseteq fast[w][call[v].tag] BY Zenon, <2>3, <4>3
        <4>5. QED BY Zenon, <4>1, <4>2, <4>4
      <3>2. CASE v = t /\ w = u
        <4>1. CASE fast[u][tag] \ {n} = {} BY SMTT(20), <2>1, <2>3, <3>2, <4>1
        <4>2. CASE fast[u][tag] \ {n} # {} BY <2>1, <3>2, <4>2
        <4>3. QED BY Zenon, <4>1, <4>2
      <3>3. CASE v = t /\ w # u
        <4>1. w \in call[t].todo \cup call[t].cur \/ fast[w][tag] = {}
          BY <2>1 DEF Before, FastClosed
        <4>2. w \notin call[t].cur
          <5>1. CASE call[t].cur = {} BY <5>1
          <5>2. CASE u \in call[t].cur
            <6>1. PICK x \in Thread : call[t].cur = {x} BY SMTT(20), <2>2, <5>2 DEF CallShape
            <6>2. QED BY SMTT(20), <3>3, <5>2, <6>1
          <5>3. QED BY <2>1, <5>1, <5>2
        <4>3. fast'[w][tag] \subseteq fast[w][tag] BY <2>3
        <4>4. QED BY SMTT(20), <2>1, <3>3, <4>1, <4>2, <4>3
      <3>4. QED BY ZenonT(40), <3>1, <3>2, <3>3
    <2>6. /\ \A v, k : InTable(v, tag, k)' <=> R(v, k) \in e.granted
          /\ \A v, k : InQueue(v, tag, k)' <=> R(v, k) \in Waiters(e)
          /\ \A g \in Tag : g # tag =>
               \A v, k : /\ InTable(v, g, k)' <=> InTable(v, g, k)
                         /\ InQueue(v, g, k)' <=> InQueue(v, g, k)
      BY <2>1, EntryEffect DEF Before
    <2>7. Waiters(e) = Waiters(table[tag]) BY <2>1 DEF Waiters
    <2>8. ASSUME NEW v \in Thread, NEW g \in Tag, NEW k \in LockMode, IsStrong(g, k),
                 \/ InTable(v, g, k)' \/ InQueue(v, g, k)'
                 \/ Here(v, g, k)' /\ call'[v].pc = "enqueue",
                 NEW w \in Thread
          PROVE  fast'[w][g] = {}
      <3>1. k # n
        <4>1. k \in StrongMode BY Zenon, <2>8 DEF IsStrong
        <4>2. k \in 5..8 /\ n \in 1..3 BY Zenon, <4>1, ModeFacts
        <4>3. QED BY ONLY <4>2
      <3>2. R(v, k) # R(u, n) BY SMTT(20), <3>1, RequestsDiffer
      <3>3. InTable(v, g, k)' => InTable(v, g, k) BY <2>1, <2>6, <3>2 DEF InTable
      <3>4. InQueue(v, g, k)' => InQueue(v, g, k) BY Zenon, <2>6, <2>7 DEF InQueue
      <3>5. Here(v, g, k)' /\ call'[v].pc = "enqueue" => Here(v, g, k) /\ call[v].pc = "enqueue"
        <4>1. CASE v = t BY <2>1, <4>1
        <4>2. CASE v # t BY <2>1, <4>2 DEF CallFrame, Here
        <4>3. QED BY Zenon, <4>1, <4>2
      <3>6. fast[w][g] = {} BY Zenon, <2>8, <3>3, <3>4, <3>5 DEF Before, FastClosed
      <3>7. fast'[w][g] \subseteq fast[w][g] BY Zenon, <2>3
      <3>8. QED BY Zenon, <3>6, <3>7
    <2>9. QED BY Zenon, <2>4, <2>5, <2>8 DEF FastClosed
  <1>1. CASE Kept /\ MarksKept BY <1>1
  <1>2. ASSUME NEW tag \in Tag, NEW n \in WeakMode, NEW e \in Entry, Transfers(t, u, tag, n, e)
        PROVE  Kept /\ MarksKept
    <2>1. /\ EntryBecomes(tag, e) /\ EntryInv(e) /\ call[t].pc = "transfer"
          /\ fast' = [fast EXCEPT ![u][tag] = @ \ {n}]
          /\ CallFrame(t) /\ call'[t].pc = "transfer" /\ call'[t].tag = call[t].tag
          /\ call'[t].mode = call[t].mode /\ call'[t].ok = call[t].ok
          /\ call'[t].cur = IF fast[u][tag] \ {n} = {} THEN {} ELSE {u}
          /\ granted' = granted /\ strong' = strong /\ isWaiting' = isWaiting
      BY <1>2 DEF Transfers, Became
    <2>2. Frame(u, tag, n) /\ Place(u, tag, n)' BY <1>2, <1>Frame
    <2>3. n \in LockMode BY DEF WeakMode
    <2>4. Places' BY <2>2, <2>3, FramePlaces DEF Before
    <2>5. table' \in [Tag -> Entry] /\ Entries' BY <2>1, EntryEffect DEF Before
    <2>6. Fields'
      <3>1. fast' \in [Thread -> [Tag -> SUBSET WeakMode]]
        BY Zenon, <2>1 DEF Before, Types, Fields
      <3>2. CallShape(call'[t])
        <4>1. CallShape(call[t]) BY DEF Before, Types, Fields
        <4>2. call'[t].cur = {} \/ \E x \in Thread : call'[t].cur = {x} BY <2>1
        <4>3. QED BY <2>1, <4>1, <4>2 DEF CallShape
      <3>3. \A v \in Thread : CallShape(call'[v])
        BY Zenon, <2>1, <3>2 DEF CallFrame, Before, Types, Fields
      <3>4. QED BY Zenon, <2>1, <2>5, <3>1, <3>3 DEF Before, Types, Fields, CallFrame
    <2>7. FastClosed' BY SMTT(20), <1>2, <1>Fast
    <2>8. HasMark(u, tag, n)' <=> HasMark(u, tag, n)
      <3>1. ~ IsStrong(tag, n) BY ModeFacts DEF IsStrong
      <3>2. QED BY Zenon, <3>1 DEF HasMark
    <2>9. MarksKept BY <2>1, <2>2, <2>3, <2>8, FrameMarksKept
    <2>10. QED BY SMTT(20), <2>4, <2>5, <2>6, <2>7, <2>9 DEF Kept
  <1>3. QED BY <1>1, <1>2, <1>Effect

(* A step of t's call on the entry of tag, which becomes e. *)
EntryStep(t, tag, e) ==
  /\ EntryBecomes(tag, e) /\ EntryInv(e)
  /\ granted' = granted /\ fast' = fast /\ strong' = strong
  /\ isWaiting' \in [Thread -> BOOLEAN]
  /\ CallFrame(t)
  /\ CallShape(call'[t])
  /\ call'[t].pc \notin {"transfer", "enqueue"}

(* No lock comes to the entry while a strong one would meet the fast path. *)
Quiet(tag, e) ==
  \A v \in Thread, k \in LockMode :
    /\ IsStrong(tag, k)
    /\ R(v, k) \in e.granted \/ R(v, k) \in Waiters(e)
    => \A w \in Thread : fast[w][tag] = {}

\* A step on an entry, in all.
LEMMA EntryKept ==
  ASSUME Before, NEW t \in Thread, NEW tag \in Tag, NEW e, EntryStep(t, tag, e),
         Quiet(tag, e), Places'
  PROVE  Kept
  <1>1. /\ EntryBecomes(tag, e) /\ EntryInv(e)
        /\ granted' = granted /\ fast' = fast /\ strong' = strong
        /\ isWaiting' \in [Thread -> BOOLEAN]
        /\ call' \in [Thread -> CallRecord] /\ \A u \in Thread : u # t => call'[u] = call[u]
        /\ CallShape(call'[t])
        /\ call'[t].pc # "transfer" /\ call'[t].pc # "enqueue"
    BY DEF EntryStep, CallFrame
  <1>2. /\ table' \in [Tag -> Entry]
        /\ Entries'
        /\ \A v, k : InTable(v, tag, k)' <=> R(v, k) \in e.granted
        /\ \A v, k : InQueue(v, tag, k)' <=> R(v, k) \in Waiters(e)
        /\ \A g \in Tag : g # tag =>
             \A v, k : /\ InTable(v, g, k)' <=> InTable(v, g, k)
                       /\ InQueue(v, g, k)' <=> InQueue(v, g, k)
    BY Zenon, <1>1, EntryEffect DEF Before
  <1>3. \A u \in Thread : CallShape(call'[u]) BY Zenon, <1>1 DEF Before, Types, Fields
  <1>4. Fields' BY Zenon, <1>1, <1>2, <1>3 DEF Before, Types, Fields
  <1>5. ASSUME NEW v \in Thread, NEW g \in Tag, NEW k \in LockMode, IsStrong(g, k),
               \/ InTable(v, g, k)' \/ InQueue(v, g, k)'
               \/ Here(v, g, k)' /\ call'[v].pc = "enqueue",
               NEW w \in Thread
        PROVE  fast'[w][g] = {}
    <2>1. CASE Here(v, g, k)' /\ call'[v].pc = "enqueue"
      <3>1. v # t BY Zenon, <1>1, <2>1
      <3>2. Here(v, g, k) /\ call[v].pc = "enqueue" BY Zenon, <1>1, <2>1, <3>1 DEF Here
      <3>3. QED BY Zenon, <1>1, <1>5, <3>2 DEF Before, FastClosed
    <2>2. CASE g # tag /\ (InTable(v, g, k)' \/ InQueue(v, g, k)')
      <3>1. InTable(v, g, k) \/ InQueue(v, g, k) BY Zenon, <1>2, <2>2
      <3>2. QED BY Zenon, <1>1, <1>5, <3>1 DEF Before, FastClosed
    <2>3. CASE g = tag /\ (InTable(v, g, k)' \/ InQueue(v, g, k)')
      <3>1. R(v, k) \in e.granted \/ R(v, k) \in Waiters(e) BY Zenon, <1>2, <2>3
      <3>2. QED BY Zenon, <1>1, <1>5, <2>3, <3>1 DEF Quiet
    <2>4. QED BY Zenon, <1>5, <2>1, <2>2, <2>3
  <1>6. \A u \in Thread, g \in Tag : fast'[u][g] # {} => g \in TableTag
    BY Zenon, <1>1 DEF Before, FastClosed
  <1>9. ASSUME NEW v \in Thread, NEW u \in Thread, call'[v].pc = "transfer"
        PROVE  u \in call'[v].todo \cup call'[v].cur \/ fast'[u][call'[v].tag] = {}
    <2>1. call'[v] = call[v] BY Zenon, <1>1, <1>9
    <2>2. u \in call[v].todo \cup call[v].cur \/ fast[u][call[v].tag] = {}
      BY Zenon, <1>9, <2>1 DEF Before, FastClosed
    <2>3. QED BY Zenon, <1>1, <2>1, <2>2
  <1>7. FastClosed' BY Zenon, <1>5, <1>6, <1>9 DEF FastClosed
  <1>8. QED BY Zenon, <1>2, <1>4, <1>7 DEF Kept

(* The main table answers the request of t in mode m with e and ret. *)
Answered(t, tag, m, e, ret) ==
  /\ call[t].pc = "enqueue" /\ call[t].tag = tag /\ call[t].mode = m
  /\ EntryBecomes(tag, e) /\ EntryInv(e)
  /\ granted' = granted /\ fast' = fast /\ strong' = strong
  /\ isWaiting' \in [Thread -> BOOLEAN]
  /\ \A u \in Thread : u # t => isWaiting'[u] = isWaiting[u]
  /\ \/ /\ ret = "granted"
        /\ e.granted = table[tag].granted \cup {R(t, m)} /\ e.waiting = table[tag].waiting
        /\ Became(t, "record", TRUE, call[t].todo, call[t].cur)
     \/ /\ ret = "waiting"
        /\ e.granted = table[tag].granted /\ Waiters(e) = Waiters(table[tag]) \cup {R(t, m)}
        /\ isWaiting'[t]
        /\ Became(t, "waiting", call[t].ok, call[t].todo, call[t].cur)
     \/ /\ ret = "failed"
        /\ e.granted = table[tag].granted /\ e.waiting = table[tag].waiting
        /\ Became(t, IF IsStrong(tag, m) THEN "unmark_failed" ELSE "record",
                  FALSE, call[t].todo, call[t].cur)

\* LockRequestEnqueue.
LEMMA EnqueueKept ==
  ASSUME Before, EntryLaws, NEW t \in Thread, LockRequestEnqueue(t)
  PROVE  Kept /\ MarksKept
  \* The locks a step on an entry leaves alone when it adds or removes only one request.
  <1>Frame. ASSUME NEW tag \in Tag, NEW m \in LockMode, NEW e, EntryStep(t, tag, e),
                   Here(t, tag, m),
                   call'[t].pc = "idle" \/ (call'[t].tag = tag /\ call'[t].mode = m),
                   \A u \in Thread : u # t => isWaiting'[u] = isWaiting[u],
                   \A v \in Thread, k \in LockMode : v # t \/ k # m =>
                     /\ R(v, k) \in e.granted <=> R(v, k) \in table[tag].granted
                     /\ R(v, k) \in Waiters(e) <=> R(v, k) \in Waiters(table[tag])
            PROVE  Frame(t, tag, m)
    <2> USE <1>Frame
    <2>1. /\ EntryBecomes(tag, e) /\ EntryInv(e)
          /\ granted' = granted /\ fast' = fast
          /\ \A u \in Thread : u # t => call'[u] = call[u]
      BY Zenon DEF EntryStep, CallFrame
    <2>2. /\ \A v, k : InTable(v, tag, k)' <=> R(v, k) \in e.granted
          /\ \A v, k : InQueue(v, tag, k)' <=> R(v, k) \in Waiters(e)
          /\ \A g \in Tag : g # tag =>
               \A v, k : /\ InTable(v, g, k)' <=> InTable(v, g, k)
                         /\ InQueue(v, g, k)' <=> InQueue(v, g, k)
      BY Zenon, <2>1, EntryEffect DEF Before
    <2>3. ASSUME NEW v \in Thread, NEW g \in Tag, NEW k \in LockMode, v # t \/ g # tag \/ k # m
          PROVE  Untouched(v, g, k)
      <3>1. InTable(v, g, k)' <=> InTable(v, g, k) BY Zenon, <2>2, <2>3 DEF InTable
      <3>2. InQueue(v, g, k)' <=> InQueue(v, g, k) BY Zenon, <2>2, <2>3 DEF InQueue
      <3>3. CASE v # t
        <4>1. call'[v] = call[v] /\ isWaiting'[v] = isWaiting[v] BY Zenon, <2>1, <3>3
        <4>2. Here(v, g, k)' <=> Here(v, g, k) BY Zenon, <4>1 DEF Here
        <4>3. QED BY Zenon, <2>1, <3>1, <3>2, <4>1, <4>2 DEF Untouched
      <3>4. CASE v = t
        <4>1. ~ Here(v, g, k) /\ ~ Here(v, g, k)' BY Zenon, <2>3, <3>4 DEF Here
        <4>2. QED BY Zenon, <2>1, <3>1, <3>2, <4>1 DEF Untouched
      <3>5. QED BY Zenon, <3>3, <3>4
    <2>4. QED BY Zenon, <2>3 DEF Frame
  \* LockRequestEnqueue fails for want of memory, or is answered by the table.
  <1>Effect. \/ Kept /\ MarksKept
             \/ \E tag \in Tag, m \in LockMode, e \in Entry, ret \in {"granted", "waiting", "failed"} :
                  Answered(t, tag, m, e, ret)
    \* A request that fails without an entry: the lock table is out of memory.
    <2>Fails. ASSUME call[t].pc = "enqueue", Failed(t),
                     isWaiting' = [isWaiting EXCEPT ![t] = @ \/ ~ call[t].dontWait],
                     UNCHANGED <<table, granted, fast, strong>>
              PROVE  Kept /\ MarksKept
      <3> USE <2>Fails
      <3> DEFINE pc == IF IsStrong(call[t].tag, call[t].mode) THEN "unmark_failed" ELSE "record"
      <3>1. /\ table' = table /\ granted' = granted /\ fast' = fast /\ strong' = strong
        OBVIOUS
      <3>2. Became(t, pc, FALSE, call[t].todo, call[t].cur) BY ZenonT(40), FailedEffect DEF Before
      <3>3. PICK tag \in Tag, m \in LockMode : call[t].tag = tag /\ call[t].mode = m
        BY Zenon, <3>1 DEF Before, Types, Fields, CallShape
      <3>4. /\ isWaiting' \in [Thread -> BOOLEAN]
            /\ \A u \in Thread : u # t => isWaiting'[u] = isWaiting[u]
        <4>1. isWaiting \in [Thread -> BOOLEAN] BY DEF Before, Types, Fields
        <4>2. (isWaiting[t] \/ ~ call[t].dontWait) \in BOOLEAN BY Zenon
        <4>3. QED BY <4>1, <4>2, Zenon
      <3>5. OwnStep(t) BY Zenon, <3>1, <3>2, <3>3, <3>4 DEF OwnStep, Became
      <3>6. CallShape(call[t]) BY DEF Before, Types, Fields
      <3>7. CallShape(call'[t]) BY Zenon, <3>1, <3>2, <3>3, <3>6 DEF CallShape, Became
      <3>8. /\ Here(t, tag, m) /\ Busy(t, tag, m)
            /\ InTable(t, tag, m)' <=> InTable(t, tag, m)
            /\ InQueue(t, tag, m)' <=> InQueue(t, tag, m)
            /\ granted'[t][tag][m] = granted[t][tag][m] /\ fast'[t][tag] = fast[t][tag]
        BY Zenon, <3>3, <3>5, OwnBusy
      <3>9. Busy(t, tag, m)' BY Zenon, <3>1, <3>2, <3>8 DEF Busy, Became
      <3>10. Kept /\ Frame(t, tag, m) BY Zenon, <3>2, <3>3, <3>5, <3>7, <3>9, MovedKept DEF Became
      <3>11. HasMark(t, tag, m)' <=> HasMark(t, tag, m) BY Zenon, <3>1, <3>2, <3>3, <3>8 DEF HasMark, Became
      <3>12. QED BY Zenon, <3>1, <3>10, <3>11, FrameMarksKept
    <2> DEFINE tag == call[t].tag
               m   == call[t].mode
               res == EnqueueLockRequest(table[tag], Req(t), call[t].dontWait)
               e   == RemoveIfUnused(res.entry)
    <2>1. /\ call[t].pc = "enqueue" /\ CallShape(call[t]) /\ call[t] \in CallRecord
          /\ isWaiting \in [Thread -> BOOLEAN]
      BY DEF LockRequestEnqueue, Before, Types, Fields
    <2>2. tag \in Tag /\ m \in LockMode /\ call[t].dontWait \in BOOLEAN
      BY <2>1 DEF CallShape, CallRecord
    <2>3. /\ isWaiting' = [isWaiting EXCEPT ![t] = @ \/ ~ call[t].dontWait]
          /\ granted' = granted /\ fast' = fast /\ strong' = strong
          /\ \/ /\ table' = [table EXCEPT ![tag] = e]
                /\ CASE res.ret = "granted" -> Granted(t)
                     [] res.ret = "waiting" -> Goto(t, "waiting")
                     [] res.ret \in {"not_avail", "deadlock"} -> Failed(t)
             \/ Failed(t) /\ table' = table
      BY Zenon DEF LockRequestEnqueue
    <2>4. /\ isWaiting' \in [Thread -> BOOLEAN]
          /\ \A u \in Thread : u # t => isWaiting'[u] = isWaiting[u]
          /\ ~ call[t].dontWait => isWaiting'[t]
      <3>1. (isWaiting[t] \/ ~ call[t].dontWait) \in BOOLEAN BY Zenon
      <3>2. QED BY <2>1, <2>3, <3>1, Zenon
    <2>5. Req(t) = R(t, m) BY DEF Req, R
    <2>6. R(t, m) \in Request BY <2>2, RequestType
    <2>7. EntryInv(table[tag]) BY <2>2 DEF Before, Entries
    <2>8. EnqueueOK(table[tag], R(t, m), call[t].dontWait, res)
      BY Zenon, <2>2, <2>5, <2>6, <2>7 DEF EntryLaws
    <2> HIDE DEF tag, m, res
    <2>9. /\ EntryInv(res.entry)
          /\ res.ret \in {"granted", "waiting", "not_avail", "deadlock"}
          /\ res.ret = "granted" =>
               /\ res.entry.granted = table[tag].granted \cup {R(t, m)}
               /\ res.entry.waiting = table[tag].waiting
          /\ res.ret = "waiting" =>
               /\ ~ call[t].dontWait
               /\ res.entry.granted = table[tag].granted
               /\ Waiters(res.entry) = Waiters(table[tag]) \cup {R(t, m)}
          /\ res.ret \in {"not_avail", "deadlock"} => res.entry = table[tag]
      BY Zenon, <2>8 DEF EnqueueOK
    <2>10. EntryInv(e) /\ e.granted = res.entry.granted /\ e.waiting = res.entry.waiting
      BY Zenon, <2>9 DEF EntryLaws
    <2> HIDE DEF e
    <2>11. e \in Entry /\ Waiters(e) = Waiters(res.entry) BY Zenon, <2>10 DEF EntryInv, Counted, Waiters
    <2>12. CASE Failed(t) /\ table' = table
      <3>1. UNCHANGED <<table, granted, fast, strong>> BY <2>3, <2>12
      <3>2. Kept /\ MarksKept BY Zenon, <2>1, <2>3, <2>12, <3>1, <2>Fails
      <3>3. QED BY <3>2
    <2>13. CASE /\ table' = [table EXCEPT ![tag] = e]
                /\ CASE res.ret = "granted" -> Granted(t)
                     [] res.ret = "waiting" -> Goto(t, "waiting")
                     [] res.ret \in {"not_avail", "deadlock"} -> Failed(t)
      <3>1. EntryBecomes(tag, e) BY <2>13 DEF EntryBecomes
      <3>2. call[t].tag = tag /\ call[t].mode = m BY DEF tag, m
      <3>3. CASE res.ret = "granted"
        <4>1. Granted(t) BY <2>13, <3>3
        <4>2. Became(t, "record", TRUE, call[t].todo, call[t].cur) BY Zenon, <4>1, GrantedEffect DEF Before
        <4>3. Answered(t, tag, m, e, "granted")
          BY Zenon, <2>1, <2>3, <2>4, <2>9, <2>10, <3>1, <3>2, <3>3, <4>2 DEF Answered
        <4>4. QED BY <2>2, <2>11, <4>3
      <3>4. CASE res.ret = "waiting"
        <4>1. Goto(t, "waiting") BY <2>13, <3>4
        <4>2. "waiting" \in PCs BY DEF PCs
        <4>3. Became(t, "waiting", call[t].ok, call[t].todo, call[t].cur)
          BY <4>1, <4>2, GotoEffect DEF Before
        <4>4. e.granted = table[tag].granted /\ Waiters(e) = Waiters(table[tag]) \cup {R(t, m)}
          BY Zenon, <2>9, <2>10, <2>11, <3>4
        <4>5. isWaiting'[t] BY <2>4, <2>9, <3>4, Zenon
        <4>6. Answered(t, tag, m, e, "waiting")
          BY <2>1, <2>3, <2>4, <2>10, <3>1, <3>2, <4>3, <4>4, <4>5, ZenonT(40) DEF Answered
        <4>7. QED BY <2>2, <2>11, <4>6
      <3>5. CASE res.ret \in {"not_avail", "deadlock"}
        <4>1. Failed(t) BY Zenon, <2>13, <3>5
        <4>2. Became(t, IF IsStrong(tag, m) THEN "unmark_failed" ELSE "record",
                     FALSE, call[t].todo, call[t].cur)
          BY Zenon, <4>1, FailedEffect DEF Before, tag, m
        <4>3. e.granted = table[tag].granted /\ e.waiting = table[tag].waiting
          BY Zenon, <2>9, <2>10, <3>5
        <4>4. Answered(t, tag, m, e, "failed")
          BY <2>1, <2>3, <2>4, <2>10, <3>1, <3>2, <4>2, <4>3, Zenon DEF Answered
        <4>5. QED BY <2>2, <2>11, <4>4
      <3>6. QED BY Zenon, <2>9, <3>3, <3>4, <3>5
    <2>14. QED BY Zenon, <2>3, <2>12, <2>13
  <1>1. CASE Kept /\ MarksKept BY <1>1
  <1>2. ASSUME NEW tag \in Tag, NEW m \in LockMode, NEW e \in Entry,
               NEW ret \in {"granted", "waiting", "failed"}, Answered(t, tag, m, e, ret)
        PROVE  Kept /\ MarksKept
    <2>1. /\ call[t].pc = "enqueue" /\ call[t].tag = tag /\ call[t].mode = m
          /\ EntryBecomes(tag, e) /\ EntryInv(e)
          /\ granted' = granted /\ fast' = fast /\ strong' = strong
          /\ isWaiting' \in [Thread -> BOOLEAN]
          /\ \A u \in Thread : u # t => isWaiting'[u] = isWaiting[u]
      BY Zenon, <1>2 DEF Answered
    <2>2. Here(t, tag, m) BY Zenon, <2>1 DEF Here
    <2>3. Busy(t, tag, m) BY <2>2 DEF Before, Places, Place
    <2>4. /\ m \notin fast[t][tag] /\ granted[t][tag][m] = 0
          /\ ~ InTable(t, tag, m) /\ ~ InQueue(t, tag, m)
      BY Zenon, <2>1, <2>3 DEF Busy
    <2>5. CallShape(call[t]) /\ ~ call[t].ok BY Zenon, <2>1 DEF Before, Types, Fields, CallShape
    <2>6. /\ CallFrame(t) /\ call'[t].tag = tag /\ call'[t].mode = m
          /\ call'[t].cur = call[t].cur /\ call'[t].batch = call[t].batch
          /\ \/ /\ e.granted = table[tag].granted \cup {R(t, m)}
                /\ Waiters(e) = Waiters(table[tag])
                /\ call'[t].pc = "record" /\ call'[t].ok
             \/ /\ e.granted = table[tag].granted
                /\ Waiters(e) = Waiters(table[tag]) \cup {R(t, m)}
                /\ isWaiting'[t]
                /\ call'[t].pc = "waiting" /\ ~ call'[t].ok
             \/ /\ e.granted = table[tag].granted /\ Waiters(e) = Waiters(table[tag])
                /\ call'[t].pc = IF IsStrong(tag, m) THEN "unmark_failed" ELSE "record"
                /\ ~ call'[t].ok
      BY ZenonT(40), <1>2, <2>1, <2>5 DEF Answered, Became, Waiters
    <2>7. CallShape(call'[t]) BY Zenon, <2>5, <2>6 DEF CallShape
    <2>8. call'[t].pc \notin {"transfer", "enqueue"} BY Zenon, <2>6
    <2>9. EntryStep(t, tag, e) BY Zenon, <2>1, <2>6, <2>7, <2>8 DEF EntryStep
    <2>10. \A v \in Thread, k \in LockMode : v # t \/ k # m =>
             /\ R(v, k) \in e.granted <=> R(v, k) \in table[tag].granted
             /\ R(v, k) \in Waiters(e) <=> R(v, k) \in Waiters(table[tag])
      <3>1. \A v, k : v # t \/ k # m => R(v, k) # R(t, m) BY RequestsDiffer
      <3>2. QED BY ZenonT(40), <2>6, <3>1
    <2>11. Frame(t, tag, m) BY Zenon, <2>1, <2>2, <2>6, <2>9, <2>10, <1>Frame
    <2>12. /\ InTable(t, tag, m)' <=> R(t, m) \in e.granted
           /\ InQueue(t, tag, m)' <=> R(t, m) \in Waiters(e)
      BY Zenon, <2>1, EntryEffect DEF Before
    <2>13. R(t, m) \notin table[tag].granted /\ R(t, m) \notin Waiters(table[tag])
      BY Zenon, <2>4 DEF InTable, InQueue
    <2>14. m \notin fast'[t][tag] /\ granted'[t][tag][m] = 0 BY Zenon, <2>1, <2>4
    <2>15. Busy(t, tag, m)'
      <3>1. CASE call'[t].pc = "record" /\ call'[t].ok
        BY Zenon, <2>6, <2>12, <2>13, <2>14, <3>1 DEF Busy
      <3>2. CASE call'[t].pc = "waiting"
        <4>1. isWaiting'[t] /\ InQueue(t, tag, m)' /\ ~ InTable(t, tag, m)'
          BY Zenon, <2>6, <2>12, <2>13, <3>2
        <4>2. QED BY Zenon, <2>14, <3>2, <4>1 DEF Busy
      <3>3. CASE call'[t].pc \in {"record", "unmark_failed"} /\ ~ call'[t].ok
        BY Zenon, <2>6, <2>12, <2>13, <2>14, <3>3 DEF Busy
      <3>4. QED BY Zenon, <2>6, <3>1, <3>2, <3>3
    <2>16. Here(t, tag, m)' BY Zenon, <2>6 DEF Here
    <2>17. Place(t, tag, m)' BY <2>15, <2>16 DEF Place
    <2>18. Places' BY <2>11, <2>17, FramePlaces DEF Before
    <2>19. Quiet(tag, e)
      <3>1. ASSUME NEW v \in Thread, NEW k \in LockMode, IsStrong(tag, k),
                   R(v, k) \in e.granted \/ R(v, k) \in Waiters(e), NEW w \in Thread
            PROVE  fast[w][tag] = {}
        <4>1. CASE v = t /\ k = m BY Zenon, <2>1, <2>2, <3>1, <4>1 DEF Before, FastClosed
        <4>2. CASE v # t \/ k # m
          <5>1. InTable(v, tag, k) \/ InQueue(v, tag, k)
            BY Zenon, <2>10, <3>1, <4>2 DEF InTable, InQueue
          <5>2. QED BY Zenon, <3>1, <5>1 DEF Before, FastClosed
        <4>3. QED BY <4>1, <4>2
      <3>2. QED BY Zenon, <3>1 DEF Quiet
    <2>20. Kept BY <2>9, <2>18, <2>19, EntryKept
    <2>21. HasMark(t, tag, m)' <=> HasMark(t, tag, m)
      BY Zenon, <2>1, <2>4, <2>6, <2>14 DEF HasMark
    <2>22. QED BY Zenon, <2>1, <2>11, <2>20, <2>21, FrameMarksKept
  <1>3. QED BY <1>1, <1>2, <1>Effect

(* The request of t in mode m has left the entry, which becomes e, and the *)
(* waiters in W are granted and woken.                                     *)
Dequeued(t, tag, m, e, W) ==
  /\ call[t].pc \in {"give_up", "unlock"} /\ call[t].tag = tag /\ call[t].mode = m
  /\ EntryBecomes(tag, e) /\ EntryInv(e)
  /\ W \subseteq Waiters(table[tag]) /\ R(t, m) \notin W
  /\ e.granted = (table[tag].granted \ {R(t, m)}) \cup W
  /\ Waiters(e) = (Waiters(table[tag]) \ {R(t, m)}) \ W
  /\ isWaiting' \in [Thread -> BOOLEAN]
  /\ \A u \in Thread : isWaiting'[u] <=> isWaiting[u] /\ \A w \in W : w.thr # u

\* A request in a queue belongs to a call that waits, with its flag up.
LEMMA QueuedWaits ==
  ASSUME Before, NEW u \in Thread, NEW g \in Tag, NEW n \in LockMode, InQueue(u, g, n)
  PROVE  /\ Here(u, g, n) /\ call[u].pc \in {"waiting", "give_up"} /\ isWaiting[u]
         /\ ~ InTable(u, g, n) /\ granted[u][g][n] = 0 /\ n \notin fast[u][g]
  <1>1. Place(u, g, n) BY DEF Before, Places
  <1>2. Here(u, g, n) /\ Busy(u, g, n) BY Zenon, <1>1 DEF Place, Settled
  <1>3. call[u].pc \in PCs /\ call[u].ok \in BOOLEAN BY DEF Before, Types, Fields, CallRecord
  <1>4. call[u].pc # "idle" BY Zenon, <1>2 DEF Here
  <1>5. call[u].pc \in {"waiting", "give_up"} BY Zenon, <1>2, <1>3, <1>4 DEF Busy, PCs
  <1>6. /\ granted[u][g][n] = 0 /\ n \notin fast[u][g]
        /\ isWaiting[u] <=> InQueue(u, g, n)
        /\ ~ isWaiting[u] <=> InTable(u, g, n)
    BY Zenon, <1>2, <1>5 DEF Busy
  <1>7. isWaiting[u] /\ ~ InTable(u, g, n) BY <1>6, Zenon
  <1>8. QED BY Zenon, <1>2, <1>5, <1>6, <1>7

\* The waiters of an entry, thread by thread.
LEMMA WaiterShape ==
  ASSUME Before, NEW tag \in Tag, NEW w \in Waiters(table[tag])
  PROVE  /\ w.thr \in Thread /\ w.mode \in LockMode /\ w = R(w.thr, w.mode)
         /\ InQueue(w.thr, tag, w.mode)
  <1>1. table[tag] \in Entry BY DEF Before, Types, Fields
  <1>2. w \in Request BY <1>1 DEF Waiters, Entry
  <1>3. w = R(w.thr, w.mode) /\ w.thr \in Thread /\ w.mode \in LockMode BY <1>2 DEF Request, R
  <1>4. InQueue(w.thr, tag, w.mode) BY <1>3, Zenon DEF InQueue
  <1>5. QED BY <1>3, <1>4

\* LockRequestDequeue, for a call that holds or waits for its lock.
LEMMA DequeueEffect ==
  ASSUME Before, EntryLaws, NEW t \in Thread, NEW tag \in Tag, NEW m \in LockMode,
         call[t].pc \in {"give_up", "unlock"}, call[t].tag = tag, call[t].mode = m,
         LockRequestDequeue(t)
  PROVE  \E e \in Entry : \E W \in SUBSET Waiters(table[tag]) : Dequeued(t, tag, m, e, W)
  <1> DEFINE res == DequeueLockRequest(table[tag], R(t, m))
             e   == RemoveIfUnused(res.entry)
             q   == IF R(t, m) \in table[tag].granted THEN Waiters(table[tag])
                                                     ELSE Waiters(table[tag]) \ {R(t, m)}
  <1>1. Req(t) = R(t, m) BY Zenon DEF Req, R
  <1>2. /\ table' = [table EXCEPT ![tag] = e]
        /\ isWaiting' = [u \in Thread |-> isWaiting[u] /\ u \notin res.woken]
    BY Zenon, <1>1 DEF LockRequestDequeue
  <1>3. EntryInv(table[tag]) BY DEF Before, Entries
  <1>4. DequeueOK(table[tag], R(t, m), res) BY Zenon, <1>3 DEF EntryLaws
  <1> HIDE DEF res
  <1>5. EntryInv(res.entry) BY <1>4, Zenon DEF DequeueOK
  <1>6. PICK W \in SUBSET q :
          /\ res.entry.granted = (table[tag].granted \ {R(t, m)}) \cup W
          /\ Waiters(res.entry) = q \ W
          /\ res.woken = {w.thr : w \in W}
    BY <1>4, Zenon DEF DequeueOK
  <1>7. EntryInv(e) /\ e.granted = res.entry.granted /\ e.waiting = res.entry.waiting
    BY Zenon, <1>5 DEF EntryLaws
  <1> HIDE DEF e
  <1>8. e \in Entry /\ Waiters(e) = Waiters(res.entry)
    <2>1. e \in Entry BY Zenon, <1>7 DEF EntryInv, Counted
    <2>2. \A f, g : f.waiting = g.waiting => Waiters(f) = Waiters(g) BY ONLY ZenonT(60) DEF Waiters
    <2>3. QED BY Zenon, <1>7, <2>1, <2>2
  <1>9. Here(t, tag, m) BY DEF Here
  <1>10. Busy(t, tag, m) BY Zenon, <1>9 DEF Before, Places, Place
  <1>11. ~ (InTable(t, tag, m) /\ InQueue(t, tag, m))
    <2>1. CASE call[t].pc = "unlock" BY Zenon, <1>10, <2>1 DEF Busy
    <2>2. CASE call[t].pc = "give_up"
      <3>1. /\ isWaiting[t] <=> InQueue(t, tag, m)
            /\ ~ isWaiting[t] <=> InTable(t, tag, m)
        BY Zenon, <1>10, <2>2 DEF Busy
      <3>2. QED BY <3>1, Zenon
    <2>3. QED BY Zenon, <2>1, <2>2
  <1>12. q = Waiters(table[tag]) \ {R(t, m)} BY Zenon, <1>11 DEF InTable, InQueue
  <1> HIDE DEF q
  <1>13. W \subseteq Waiters(table[tag]) /\ R(t, m) \notin W BY <1>12
  <1>14. e.granted = (table[tag].granted \ {R(t, m)}) \cup W BY Zenon, <1>6, <1>7
  <1>15. Waiters(e) = (Waiters(table[tag]) \ {R(t, m)}) \ W BY Zenon, <1>6, <1>8, <1>12
  <1>16. isWaiting' \in [Thread -> BOOLEAN] BY <1>2, Zenon
  <1>17. \A u \in Thread : isWaiting'[u] <=> isWaiting[u] /\ \A w \in W : w.thr # u
    <2>1. \A u : u \notin res.woken <=> \A w \in W : w.thr # u BY <1>6
    <2>2. \A u \in Thread : isWaiting'[u] = (isWaiting[u] /\ u \notin res.woken) BY <1>2, Zenon
    <2>3. QED BY <2>1, <2>2, Zenon
  <1>18. EntryBecomes(tag, e) BY <1>2 DEF EntryBecomes
  <1>19. Dequeued(t, tag, m, e, W)
    BY Zenon, <1>7, <1>13, <1>14, <1>15, <1>16, <1>17, <1>18 DEF Dequeued
  <1>20. QED BY Zenon, <1>8, <1>13, <1>19

\* A dequeue, in all, once the call of t is at its next step.
LEMMA DequeueKept ==
  ASSUME Before, NEW t \in Thread, NEW tag \in Tag, NEW m \in LockMode, NEW e, NEW W,
         Dequeued(t, tag, m, e, W), CallFrame(t),
         granted' = granted, fast' = fast, strong' = strong,
         call'[t].pc = "idle" \/ (call'[t].tag = tag /\ call'[t].mode = m),
         call'[t].pc \notin {"transfer", "enqueue"}, CallShape(call'[t]),
         Here(t, tag, m)' => Busy(t, tag, m)', ~ Here(t, tag, m)' => granted[t][tag][m] = 0,
         HasMark(t, tag, m)' <=> HasMark(t, tag, m)
  PROVE  Kept /\ MarksKept
  \* Where the locks are after a dequeue: those of W among the holders, the others where they were.
  <1>Places. ASSUME Place(t, tag, m)'
             PROVE  Places'
    <2> USE <1>Places
    <2>1. /\ call[t].pc \in {"give_up", "unlock"} /\ call[t].tag = tag /\ call[t].mode = m
          /\ EntryBecomes(tag, e) /\ EntryInv(e)
          /\ W \subseteq Waiters(table[tag]) /\ R(t, m) \notin W
          /\ e.granted = (table[tag].granted \ {R(t, m)}) \cup W
          /\ Waiters(e) = (Waiters(table[tag]) \ {R(t, m)}) \ W
          /\ isWaiting' \in [Thread -> BOOLEAN]
      BY Zenon DEF Dequeued
    <2>2. \A u \in Thread : isWaiting'[u] <=> isWaiting[u] /\ \A w \in W : w.thr # u
      BY Zenon DEF Dequeued
    <2>3. \A u \in Thread : u # t => call'[u] = call[u] BY Zenon DEF CallFrame
    <2>4. /\ \A v, k : InTable(v, tag, k)' <=> R(v, k) \in e.granted
          /\ \A v, k : InQueue(v, tag, k)' <=> R(v, k) \in Waiters(e)
          /\ \A g \in Tag : g # tag =>
               \A v, k : /\ InTable(v, g, k)' <=> InTable(v, g, k)
                         /\ InQueue(v, g, k)' <=> InQueue(v, g, k)
      BY Zenon, <2>1, EntryEffect DEF Before
    <2>5. ASSUME NEW w \in W
          PROVE  /\ w.thr \in Thread /\ w.mode \in LockMode /\ w = R(w.thr, w.mode)
                 /\ Here(w.thr, tag, w.mode) /\ w.thr # t
      <3>1. w \in Waiters(table[tag]) BY Zenon, <2>1
      <3>2. /\ w.thr \in Thread /\ w.mode \in LockMode /\ w = R(w.thr, w.mode)
            /\ InQueue(w.thr, tag, w.mode)
        BY Zenon, <3>1, WaiterShape
      <3>3. Here(w.thr, tag, w.mode) BY Zenon, <3>2, QueuedWaits
      <3>4. w.thr = t => w.mode = m BY Zenon, <2>1, <3>3 DEF Here
      <3>5. w.thr # t BY Zenon, <2>1, <3>2, <3>4
      <3>6. QED BY Zenon, <3>2, <3>3, <3>5
    <2>6. ASSUME NEW u \in Thread, NEW g \in Tag, NEW n \in LockMode, Here(u, g, n),
                 g # tag \/ R(u, n) \notin W
          PROVE  isWaiting'[u] = isWaiting[u]
      <3>1. ASSUME NEW w \in W PROVE w.thr # u
        <4>1. Here(w.thr, tag, w.mode) /\ w = R(w.thr, w.mode) BY Zenon, <2>5
        <4>2. w.thr = u => g = tag /\ n = w.mode BY Zenon, <2>6, <4>1 DEF Here
        <4>3. QED BY Zenon, <2>6, <4>1, <4>2
      <3>2. isWaiting'[u] <=> isWaiting[u] BY <2>2, <3>1, Zenon
      <3>3. isWaiting[u] \in BOOLEAN /\ isWaiting'[u] \in BOOLEAN
        BY Zenon, <2>1 DEF Before, Types, Fields
      <3>4. CASE isWaiting[u] BY Zenon, <3>2, <3>3, <3>4
      <3>5. CASE ~ isWaiting[u] BY Zenon, <3>2, <3>3, <3>5
      <3>6. QED BY Zenon, <3>4, <3>5
    <2>7. ASSUME NEW u \in Thread, NEW g \in Tag, NEW n \in LockMode
          PROVE  Place(u, g, n)'
      <3>1. CASE u = t /\ g = tag /\ n = m BY Zenon, <3>1
      <3>2. CASE g = tag /\ R(u, n) \in W
        <4>1. R(u, n).thr = u /\ R(u, n).mode = n BY Zenon, RequestType
        <4>2. u # t BY Zenon, <2>5, <3>2, <4>1
        <4>3. InQueue(u, g, n) BY Zenon, <2>1, <3>2 DEF InQueue
        <4>4. /\ Here(u, g, n) /\ call[u].pc \in {"waiting", "give_up"}
              /\ granted[u][g][n] = 0 /\ n \notin fast[u][g]
          BY Zenon, <4>3, QueuedWaits
        <4>5. call'[u] = call[u] BY Zenon, <2>3, <4>2
        <4>6. InTable(u, g, n)' /\ ~ InQueue(u, g, n)' BY Zenon, <2>1, <2>4, <3>2
        <4>7. ~ isWaiting'[u] BY <2>2, <3>2, <4>1, Zenon
        <4>8. granted'[u][g][n] = 0 /\ n \notin fast'[u][g] BY Zenon, <4>4
        <4>9. call'[u].pc \in {"waiting", "give_up"} BY Zenon, <4>4, <4>5
        <4>10. isWaiting'[u] <=> InQueue(u, g, n)' BY <4>6, <4>7, Zenon
        <4>11. ~ isWaiting'[u] <=> InTable(u, g, n)' BY <4>6, <4>7, Zenon
        <4>12. Busy(u, g, n)' BY Zenon, <4>8, <4>9, <4>10, <4>11 DEF Busy
        <4>13. Here(u, g, n)' BY ZenonT(40), <4>4, <4>5 DEF Here
        <4>14. QED BY Zenon, <4>12, <4>13 DEF Place
      <3>3. CASE (u # t \/ g # tag \/ n # m) /\ (g # tag \/ R(u, n) \notin W)
        <4>1. InTable(u, g, n)' <=> InTable(u, g, n)
          <5>1. CASE g # tag BY Zenon, <2>4, <5>1
          <5>2. CASE g = tag
            <6>1. R(u, n) # R(t, m) BY Zenon, <3>3, <5>2, RequestsDiffer
            <6>2. QED BY Zenon, <2>1, <2>4, <3>3, <5>2, <6>1 DEF InTable
          <5>3. QED BY Zenon, <5>1, <5>2
        <4>2. InQueue(u, g, n)' <=> InQueue(u, g, n)
          <5>1. CASE g # tag BY Zenon, <2>4, <5>1
          <5>2. CASE g = tag
            <6>1. R(u, n) # R(t, m) BY Zenon, <3>3, <5>2, RequestsDiffer
            <6>2. QED BY Zenon, <2>1, <2>4, <3>3, <5>2, <6>1 DEF InQueue
          <5>3. QED BY Zenon, <5>1, <5>2
        <4>3. CASE u # t
          <5>1. call'[u] = call[u] BY Zenon, <2>3, <4>3
          <5>2. Here(u, g, n)' <=> Here(u, g, n) BY Zenon, <5>1 DEF Here
          <5>3. Here(u, g, n) => isWaiting'[u] = isWaiting[u] BY Zenon, <2>6, <3>3
          <5>4. Untouched(u, g, n) BY Zenon, <4>1, <4>2, <5>1, <5>2, <5>3 DEF Untouched
          <5>5. QED BY Zenon, <5>4, UntouchedPlace DEF Before, Places
        <4>4. CASE u = t
          <5>1. ~ Here(u, g, n) /\ ~ Here(u, g, n)' BY Zenon, <2>1, <3>3, <4>4 DEF Here
          <5>2. Untouched(u, g, n) BY Zenon, <4>1, <4>2, <5>1 DEF Untouched
          <5>3. QED BY Zenon, <5>2, UntouchedPlace DEF Before, Places
        <4>5. QED BY <4>3, <4>4
      <3>4. QED BY Zenon, <3>1, <3>2, <3>3
    <2>8. QED BY Zenon, <2>7 DEF Places
  <1>1. /\ call[t].pc \in {"give_up", "unlock"} /\ call[t].tag = tag /\ call[t].mode = m
        /\ EntryBecomes(tag, e) /\ EntryInv(e)
        /\ W \subseteq Waiters(table[tag]) /\ R(t, m) \notin W
        /\ e.granted = (table[tag].granted \ {R(t, m)}) \cup W
        /\ Waiters(e) = (Waiters(table[tag]) \ {R(t, m)}) \ W
        /\ isWaiting' \in [Thread -> BOOLEAN]
    BY Zenon DEF Dequeued
  <1>2. /\ InTable(t, tag, m)' <=> R(t, m) \in e.granted
        /\ InQueue(t, tag, m)' <=> R(t, m) \in Waiters(e)
    <2>1. /\ \A u, n : InTable(u, tag, n)' <=> R(u, n) \in e.granted
          /\ \A u, n : InQueue(u, tag, n)' <=> R(u, n) \in Waiters(e)
      BY Zenon, <1>1, EntryEffect DEF Before
    <2>2. QED BY Zenon, <2>1
  <1>3. ~ InTable(t, tag, m)' /\ ~ InQueue(t, tag, m)' BY Zenon, <1>1, <1>2
  <1>4. m \notin fast[t][tag]
    <2>1. Here(t, tag, m) BY Zenon, <1>1 DEF Here
    <2>2. QED BY Zenon, <2>1 DEF Before, Places, Place, Busy
  <1>5. Place(t, tag, m)'
    <2>1. CASE Here(t, tag, m)' BY Zenon, <2>1 DEF Place
    <2>2. CASE ~ Here(t, tag, m)'
      <3>1. granted'[t][tag][m] = 0 /\ m \notin fast'[t][tag] BY Zenon, <1>4, <2>2
      <3>2. Settled(t, tag, m)' BY Zenon, <1>3, <3>1, Signs DEF Settled
      <3>3. QED BY Zenon, <2>2, <3>2 DEF Place
    <2>3. QED BY Zenon, <2>1, <2>2
  <1>6. Places' BY Zenon, <1>5, <1>Places
  <1>7. EntryStep(t, tag, e) BY Zenon, <1>1 DEF EntryStep
  <1>8. Quiet(tag, e)
    <2>1. \A v, k : R(v, k) \in e.granted \/ R(v, k) \in Waiters(e)
                      => InTable(v, tag, k) \/ InQueue(v, tag, k)
      BY Zenon, <1>1 DEF InTable, InQueue
    <2>2. QED BY Zenon, <2>1 DEF Quiet, Before, FastClosed
  <1>9. Kept BY Zenon, <1>6, <1>7, <1>8, EntryKept
  <1>10. ASSUME NEW u \in Thread, NEW g \in Tag, NEW n \in StrongMode
         PROVE  HasMark(u, g, n)' <=> HasMark(u, g, n)
    <2>1. CASE u = t /\ g = tag /\ n = m BY Zenon, <2>1
    <2>2. CASE u # t BY Zenon, <2>2 DEF CallFrame, HasMark
    <2>3. CASE u = t /\ (g # tag \/ n # m) BY Zenon, <1>1, <2>3 DEF HasMark
    <2>4. QED BY Zenon, <2>1, <2>2, <2>3
  <1>11. QED BY Zenon, <1>9, <1>10 DEF MarksKept

\* The request of the call is in the entry no more, and its record is as it was.
LEMMA DequeueGone ==
  ASSUME Before, NEW t \in Thread, NEW tag \in Tag, NEW m \in LockMode, NEW e, NEW W,
         Dequeued(t, tag, m, e, W), granted' = granted, fast' = fast
  PROVE  /\ ~ InTable(t, tag, m)' /\ ~ InQueue(t, tag, m)' /\ m \notin fast'[t][tag]
         /\ granted'[t][tag][m] = granted[t][tag][m]
         /\ call[t].pc = "give_up" => granted[t][tag][m] = 0
         /\ call[t].pc = "unlock" => granted[t][tag][m] = IF call[t].batch THEN 0 ELSE 1
  <1>1. /\ call[t].pc \in {"give_up", "unlock"} /\ call[t].tag = tag /\ call[t].mode = m
        /\ EntryBecomes(tag, e) /\ EntryInv(e) /\ R(t, m) \notin W
        /\ e.granted = (table[tag].granted \ {R(t, m)}) \cup W
        /\ Waiters(e) = (Waiters(table[tag]) \ {R(t, m)}) \ W
    BY Zenon DEF Dequeued
  <1>2. /\ InTable(t, tag, m)' <=> R(t, m) \in e.granted
        /\ InQueue(t, tag, m)' <=> R(t, m) \in Waiters(e)
    <2>1. /\ \A u, n : InTable(u, tag, n)' <=> R(u, n) \in e.granted
          /\ \A u, n : InQueue(u, tag, n)' <=> R(u, n) \in Waiters(e)
      BY Zenon, <1>1, EntryEffect DEF Before
    <2>2. QED BY Zenon, <2>1
  <1>3. Here(t, tag, m) BY Zenon, <1>1 DEF Here
  <1>4. Busy(t, tag, m) BY <1>3 DEF Before, Places, Place
  <1>5. QED BY Zenon, <1>1, <1>2, <1>4 DEF Busy

\* DequeueAfterWait, whether the request was granted meanwhile or not.
LEMMA DequeueAfterWaitKept ==
  ASSUME Before, EntryLaws, NEW t \in Thread, DequeueAfterWait(t)
  PROVE  Kept /\ MarksKept
  <1>1. /\ call[t].pc = "give_up" /\ LockRequestDequeue(t) /\ Failed(t)
        /\ granted' = granted /\ fast' = fast /\ strong' = strong /\ CallShape(call[t])
    BY DEF DequeueAfterWait, Before, Types, Fields
  <1>2. PICK tag \in Tag, m \in LockMode : call[t].tag = tag /\ call[t].mode = m
    BY Zenon, <1>1 DEF CallShape
  <1>3. PICK e \in Entry, W \in SUBSET Waiters(table[tag]) : Dequeued(t, tag, m, e, W)
    BY Zenon, <1>1, <1>2, DequeueEffect
  <1>4. Became(t, IF IsStrong(tag, m) THEN "unmark_failed" ELSE "record",
               FALSE, call[t].todo, call[t].cur)
    BY Zenon, <1>1, <1>2, FailedEffect DEF Before
  <1>5. /\ ~ InTable(t, tag, m)' /\ ~ InQueue(t, tag, m)' /\ m \notin fast'[t][tag]
        /\ granted'[t][tag][m] = 0 /\ granted[t][tag][m] = 0
    BY Zenon, <1>1, <1>3, DequeueGone
  <1>6. /\ CallFrame(t) /\ call'[t].tag = tag /\ call'[t].mode = m
        /\ call'[t].pc = IF IsStrong(tag, m) THEN "unmark_failed" ELSE "record"
        /\ ~ call'[t].ok /\ call'[t].cur = call[t].cur
    BY Zenon, <1>2, <1>4 DEF Became
  <1>7. CallShape(call'[t]) BY Zenon, <1>1, <1>6 DEF CallShape
  <1>8. Busy(t, tag, m)' BY Zenon, <1>5, <1>6 DEF Busy
  <1>9. HasMark(t, tag, m)' <=> HasMark(t, tag, m) BY Zenon, <1>1, <1>2, <1>5, <1>6 DEF HasMark
  <1>10. call'[t].pc \notin {"transfer", "enqueue"} BY Zenon, <1>6
  <1>11. QED BY Zenon, <1>1, <1>3, <1>5, <1>6, <1>7, <1>8, <1>9, <1>10, DequeueKept

\* UnlockInMainLockTable.
LEMMA UnlockMainKept ==
  ASSUME Before, EntryLaws, NEW t \in Thread, UnlockInMainLockTable(t)
  PROVE  Kept /\ MarksKept
  <1>1. /\ call[t].pc = "unlock" /\ LockRequestDequeue(t)
        /\ granted' = granted /\ fast' = fast /\ strong' = strong /\ CallShape(call[t])
        /\ call[t] \in CallRecord
    BY DEF UnlockInMainLockTable, Before, Types, Fields
  <1>2. PICK tag \in Tag, m \in LockMode : call[t].tag = tag /\ call[t].mode = m
    BY Zenon, <1>1 DEF CallShape
  <1>3. PICK e \in Entry, W \in SUBSET Waiters(table[tag]) : Dequeued(t, tag, m, e, W)
    BY Zenon, <1>1, <1>2, DequeueEffect
  <1>4. /\ ~ InTable(t, tag, m)' /\ ~ InQueue(t, tag, m)' /\ m \notin fast'[t][tag]
        /\ granted'[t][tag][m] = granted[t][tag][m]
        /\ granted[t][tag][m] = IF call[t].batch THEN 0 ELSE 1
    BY Zenon, <1>1, <1>3, DequeueGone
  <1>5. \/ IsStrong(tag, m) /\ Goto(t, "unmark")
        \/ ~ IsStrong(tag, m) /\ call[t].batch /\ Return(t)
        \/ ~ IsStrong(tag, m) /\ ~ call[t].batch /\ Goto(t, "remove")
    <2>1. call[t].batch \in BOOLEAN BY Zenon, <1>1 DEF CallRecord
    <2>2. QED BY Zenon, <1>2, <2>1 DEF UnlockInMainLockTable
  <1>6. CASE IsStrong(tag, m) /\ Goto(t, "unmark")
    <2>1. "unmark" \in PCs BY DEF PCs
    <2>2. Became(t, "unmark", call[t].ok, call[t].todo, call[t].cur)
      BY <1>6, <2>1, GotoEffect DEF Before
    <2>3. /\ CallFrame(t) /\ call'[t].tag = tag /\ call'[t].mode = m /\ call'[t].pc = "unmark"
          /\ call'[t].batch = call[t].batch /\ call'[t].cur = call[t].cur
      BY Zenon, <1>2, <2>2 DEF Became
    <2>4. CallShape(call'[t]) BY Zenon, <1>1, <1>6, <2>3 DEF CallShape
    <2>5. Busy(t, tag, m)' BY Zenon, <1>4, <2>3 DEF Busy
    <2>6. Here(t, tag, m)' BY <2>3 DEF Here
    <2>7. HasMark(t, tag, m)' <=> HasMark(t, tag, m) BY Zenon, <1>1, <1>2, <1>6, <2>3 DEF HasMark
    <2>8. call'[t].pc \notin {"transfer", "enqueue"} BY Zenon, <2>3
    <2>9. QED BY Zenon, <1>1, <1>3, <2>3, <2>4, <2>5, <2>6, <2>7, <2>8, DequeueKept
  <1>7. CASE ~ IsStrong(tag, m) /\ call[t].batch /\ Return(t)
    <2>1. CallFrame(t) /\ call'[t] = IdleCall BY <1>7, ReturnEffect DEF Before
    <2>2. call'[t].pc = "idle" /\ call'[t].pc \notin {"transfer", "enqueue"} /\ CallShape(call'[t])
      BY Zenon, <2>1, IdleCallFacts
    <2>3. ~ Here(t, tag, m)' BY <2>2 DEF Here
    <2>4. granted[t][tag][m] = 0 BY Zenon, <1>4, <1>7
    <2>5. HasMark(t, tag, m)' <=> HasMark(t, tag, m) BY Zenon, <1>7 DEF HasMark
    <2>6. QED BY Zenon, <1>1, <1>3, <2>1, <2>2, <2>3, <2>4, <2>5, DequeueKept
  <1>8. CASE ~ IsStrong(tag, m) /\ ~ call[t].batch /\ Goto(t, "remove")
    <2>1. "remove" \in PCs BY DEF PCs
    <2>2. Became(t, "remove", call[t].ok, call[t].todo, call[t].cur)
      BY <1>8, <2>1, GotoEffect DEF Before
    <2>3. /\ CallFrame(t) /\ call'[t].tag = tag /\ call'[t].mode = m /\ call'[t].pc = "remove"
          /\ call'[t].batch = call[t].batch /\ call'[t].cur = call[t].cur
      BY Zenon, <1>2, <2>2 DEF Became
    <2>4. CallShape(call'[t]) BY Zenon, <1>1, <1>8, <2>3 DEF CallShape
    <2>5. Busy(t, tag, m)' BY Zenon, <1>4, <1>8, <2>3 DEF Busy
    <2>6. Here(t, tag, m)' BY <2>3 DEF Here
    <2>7. HasMark(t, tag, m)' <=> HasMark(t, tag, m) BY Zenon, <1>8 DEF HasMark
    <2>8. call'[t].pc \notin {"transfer", "enqueue"} BY <2>3
    <2>9. QED BY Zenon, <1>1, <1>3, <2>3, <2>4, <2>5, <2>6, <2>7, <2>8, DequeueKept
  <1>9. QED BY <1>5, <1>6, <1>7, <1>8

-----------------------------------------------------------------------------
(* All steps together.                                                     *)

\* Every step keeps the invariant, and makes or removes at most one mark.
LEMMA NextKept ==
  ASSUME Before, EntryLaws, MarksSeen, Next
  PROVE  Kept /\ MarksStep
  <1>1. MarksKept => MarksStep BY DEF MarksStep
  <1>2. PICK t \in Thread : Lock(t) \/ Unlock(t) \/ BatchUnlock(t) \/ StopWaiting(t) \/ CallStep(t)
    BY DEF Next
  <1>3. CASE Lock(t) BY <1>1, <1>3, LockKept
  <1>4. CASE Unlock(t) BY <1>1, <1>4, UnlockKept
  <1>5. CASE BatchUnlock(t) BY <1>1, <1>5, BatchUnlockKept
  <1>6. CASE StopWaiting(t) BY <1>1, <1>6, StopWaitingKept
  <1>7. CASE CallStep(t)
    <2>1. CASE MarkStrongLockInFastPath(t) BY <2>1, MarkKept
    <2>2. ASSUME NEW u \in Thread, SkipThread(t, u) PROVE Kept /\ MarksStep
      BY <1>1, <2>2, SkipKept
    <2>3. ASSUME NEW u \in Thread, TransferOneWeakLock(t, u) PROVE Kept /\ MarksStep
      BY <1>1, <2>3, TransferKept
    <2>4. CASE EndTransfer(t) BY <1>1, <2>4, EndTransferKept
    <2>5. CASE LockRequestEnqueue(t) BY <1>1, <2>5, EnqueueKept
    <2>6. CASE NormalWakeup(t) BY <1>1, <2>6, NormalWakeupKept
    <2>7. CASE DequeueAfterWait(t) BY <1>1, <2>7, DequeueAfterWaitKept
    <2>8. CASE UnmarkStrongLockInFastPath(t) BY <2>8, UnmarkKept
    <2>9. CASE RecordLockResult(t) BY <1>1, <2>9, RecordKept
    <2>10. CASE UnlockInMainLockTable(t) BY <1>1, <2>10, UnlockMainKept
    <2>11. CASE RemoveLockRecord(t) BY <1>1, <2>11, RemoveKept
    <2>12. QED
      BY <1>7, <2>1, <2>2, <2>3, <2>4, <2>5, <2>6, <2>7, <2>8, <2>9, <2>10, <2>11, Zenon
      DEF CallStep
  <1>8. QED BY <1>2, <1>3, <1>4, <1>5, <1>6, <1>7

=============================================================================
