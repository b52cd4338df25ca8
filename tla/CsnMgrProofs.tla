---------------------------- MODULE CsnMgrProofs ----------------------------
(***************************************************************************)
(* Proofs about CsnMgr, for any set of threads and any bounds: the         *)
(* recycling horizon stays below every snapshot in use, no number is given *)
(* to two commits, restarts included, and every commit that waits for the  *)
(* bound has somebody on the way to push it.                               *)
(***************************************************************************)
EXTENDS CsnMgr, TLAPS

(***************************************************************************)
(* The horizon.  The state of one thread: a csnMin of 0 stands for no      *)
(* snapshot at all, a number bounds all its snapshots from below, and      *)
(* MAX_COMMITSEQNO says that it is about to take its first one.            *)
(***************************************************************************)
Covers(csn, t) ==
  /\ \A used \in InUse(t) : csn <= used
  /\ ~NoCsn(csnMin[t]) => csn <= csnMin[t]

ThreadInv(t) ==
  /\ pc[t] # "txn" => snapshot[t] = INVALID_CSN
  /\ pc[t] \in {"announced", "read"} => csnMin[t] # INVALID_CSN
  /\ pc[t] = "read" => cur[t] # INVALID_CSN /\ cur[t] <= nextCsn
  /\ csnMin[t] = INVALID_CSN => InUse(t) = {}
  /\ csnMin[t] = MAX_COMMITSEQNO =>
       /\ pc[t] \in {"announced", "read"}
       /\ \A i \in DOMAIN cursors[t] : cursors[t][i] = INVALID_CSN
  /\ ~NoCsn(csnMin[t]) => csnMin[t] <= nextCsn /\ \A csn \in InUse(t) : csnMin[t] <= csn

\* A scan has covered the threads it has looked at: what they use was above the
\* minimum then, and what they take later is not below the nextCsn it began with.
ScanInv ==
  scan.on =>
    /\ localCsnMin <= scan.next /\ scan.next <= nextCsn
    /\ scan.min # MAX_COMMITSEQNO => localCsnMin <= scan.min
    /\ \A t \in Thread \ scan.left : Covers(NewLocalCsnMin, t)

Types ==
  /\ nextCsn \in Nat \ {INVALID_CSN} /\ localCsnMin \in Nat /\ ctlCsn \in Nat
  /\ localCsnMin <= nextCsn
  /\ csnMin \in [Thread -> Nat \cup {MAX_COMMITSEQNO}]
  /\ snapshot \in [Thread -> Nat]
  /\ cursors \in [Thread -> Seq(Nat)]
  /\ pc \in [Thread -> PC]
  /\ cur \in [Thread -> Nat] /\ newMax \in [Thread -> Nat]
  /\ maxReservedCsn \in Nat
  /\ scan \in [on : BOOLEAN, next : Nat, min : Nat \cup {MAX_COMMITSEQNO}, left : SUBSET Thread]

HInv ==
  /\ Types
  /\ \A t \in Thread : ThreadInv(t) /\ Covers(localCsnMin, t)
  /\ ScanInv

\* Pushed is a number.
LEMMA PushedType == \A old, csn \in Nat : Pushed(old, csn) \in Nat
  <1>1. Increment \in Nat /\ Increment > 0 BY CsnAssumption
  <1>2. SUFFICES ASSUME NEW old \in Nat, NEW csn \in Nat PROVE Pushed(old, csn) \in Nat
    OBVIOUS
  <1>3. csn \div Increment \in Nat BY <1>1
  <1>4. (csn \div Increment + 1) * Increment + Increment \in Nat BY <1>1, <1>3
  <1>5. QED BY <1>1, <1>4 DEF Pushed

\* What is left of a list when one cursor is closed was there before.
LEMMA WithoutType ==
  ASSUME NEW s \in Seq(Nat), NEW i \in DOMAIN s
  PROVE  /\ Without(s, i) \in Seq(Nat)
         /\ \A j \in DOMAIN Without(s, i) : \E k \in DOMAIN s : Without(s, i)[j] = s[k]
  <1>1. Len(s) \in Nat /\ DOMAIN s = 1..Len(s) /\ i \in 1..Len(s) OBVIOUS
  <1>2. \A j \in 1..(Len(s) - 1) : s[j] \in Nat /\ s[j + 1] \in Nat /\ j \in 1..Len(s) /\ j + 1 \in 1..Len(s)
    BY <1>1
  <1>3. Without(s, i) \in [1..(Len(s) - 1) -> Nat] BY SMTT(20), <1>2 DEF Without
  <1>4. Len(s) - 1 \in Nat BY <1>1
  <1>5. Without(s, i) \in Seq(Nat) BY SMTT(60), <1>3, <1>4
  <1>6. DOMAIN Without(s, i) = 1..(Len(s) - 1) BY DEF Without
  <1>7. QED BY ZenonT(60), <1>1, <1>2, <1>5, <1>6 DEF Without

\* An empty list holds nothing.
LEMMA NoElements ==
  ASSUME NEW s, s = <<>>
  PROVE  {s[i] : i \in DOMAIN s} = {}
  OBVIOUS

\* What a list holds when one cursor is added.
LEMMA AppendElements ==
  ASSUME NEW s \in Seq(Nat), NEW e \in Nat
  PROVE  /\ Append(s, e) \in Seq(Nat)
         /\ \A i \in DOMAIN Append(s, e) :
              Append(s, e)[i] = e \/ (i \in DOMAIN s /\ Append(s, e)[i] = s[i])
  <1>1. Len(s) \in Nat /\ DOMAIN s = 1..Len(s) OBVIOUS
  <1>2. DOMAIN Append(s, e) = 1..(Len(s) + 1) /\ Append(s, e)[Len(s) + 1] = e OBVIOUS
  <1>3. \A i \in 1..Len(s) : Append(s, e)[i] = s[i] OBVIOUS
  <1>4. QED BY <1>1, <1>2, <1>3

\* HInv holds initially.
LEMMA HInit == Init => HInv
  BY DEF Init, HInv, Types, ThreadInv, ScanInv, Covers, InUse, NoCsn, Idle, FirstCsn, INVALID_CSN,
         MAX_COMMITSEQNO, PC

(***************************************************************************)
(* A step of thread t that touches neither the horizon nor the scan need   *)
(* only keep t's own part, and keep covered what was.                      *)
(***************************************************************************)
Kept(t) == \A csn \in Nat : csn <= nextCsn /\ Covers(csn, t) => Covers(csn, t)'

OtherThreads(t) ==
  \A u \in Thread \ {t} :
    /\ csnMin'[u] = csnMin[u] /\ snapshot'[u] = snapshot[u] /\ cursors'[u] = cursors[u]
    /\ pc'[u] = pc[u] /\ cur'[u] = cur[u]

LEMMA ThreadStep ==
  ASSUME HInv, NEW t \in Thread, Types', ThreadInv(t)', Kept(t), OtherThreads(t),
         nextCsn <= nextCsn', UNCHANGED <<localCsnMin, scan>>
  PROVE  HInv'
  <1> USE DEF HInv
  <1>1. \A u \in Thread \ {t} : InUse(u)' = InUse(u)
    BY DEF OtherThreads, InUse
  <1>2. \A u \in Thread \ {t} : ThreadInv(u)'
    <2> SUFFICES ASSUME NEW u \in Thread \ {t} PROVE ThreadInv(u)'
      OBVIOUS
    <2>1. InUse(u)' = InUse(u) /\ csnMin'[u] = csnMin[u] /\ snapshot'[u] = snapshot[u]
          /\ cursors'[u] = cursors[u] /\ pc'[u] = pc[u] /\ cur'[u] = cur[u]
      BY <1>1 DEF OtherThreads
    <2>2. cur[u] \in Nat /\ csnMin[u] \in Nat \cup {MAX_COMMITSEQNO} /\ nextCsn \in Nat /\ nextCsn' \in Nat
      BY DEF Types
    <2>3. ThreadInv(u) OBVIOUS
    <2>4. QED BY ONLY <2>1, <2>2, <2>3, nextCsn <= nextCsn' DEF ThreadInv, NoCsn, MAX_COMMITSEQNO, INVALID_CSN
  <1>3. \A u \in Thread \ {t}, csn \in Nat : Covers(csn, u) => Covers(csn, u)'
    BY <1>1 DEF OtherThreads, Covers, NoCsn
  <1>4. \A csn \in Nat, u \in Thread : csn <= nextCsn /\ Covers(csn, u) => Covers(csn, u)'
    BY <1>3 DEF Kept
  <1>5. \A u \in Thread : Covers(localCsnMin, u)'
    <2>1. localCsnMin \in Nat /\ localCsnMin <= nextCsn BY DEF Types
    <2>2. \A u \in Thread : Covers(localCsnMin, u) => Covers(localCsnMin, u)'
      BY <1>3, <2>1 DEF Kept, Covers
    <2>3. QED BY <2>2
  <1>6. ScanInv'
    <2>1. SUFFICES ASSUME scan.on PROVE ScanInv' BY DEF ScanInv
    <2>2. NewLocalCsnMin \in Nat /\ NewLocalCsnMin <= scan.next /\ scan.next <= nextCsn
      BY SMTT(60), <2>1 DEF NewLocalCsnMin, Lesser, Types, ScanInv, MAX_COMMITSEQNO
    <2>3. NewLocalCsnMin' = NewLocalCsnMin BY DEF NewLocalCsnMin
    <2>4. NewLocalCsnMin <= nextCsn BY <2>2 DEF Types
    <2>5. \A u \in Thread \ scan.left : Covers(NewLocalCsnMin, u)'
      BY <2>1, <2>2, <2>3, <2>4, <1>3 DEF ScanInv, Kept, Covers
    <2>6. QED BY SMTT(60), <2>1, <2>2, <2>5 DEF ScanInv, Types
  <1>7. QED BY <1>2, <1>5, <1>6

(***************************************************************************)
(* One lemma per group of actions of a thread: t's own part, and Kept.     *)
(***************************************************************************)
\* The actions of a thread that leave its snapshots and csnMin alone.
LEMMA IdleStep ==
  ASSUME HInv, NEW t \in Thread, Types',
         UNCHANGED <<csnMin, snapshot, cursors, localCsnMin, scan>>,
         nextCsn <= nextCsn', OtherThreads(t),
         pc[t] \notin {"txn", "announced", "read"}, pc'[t] \notin {"txn", "announced", "read"}
  PROVE  HInv'
  <1>1. InUse(t)' = InUse(t) BY DEF InUse
  <1>2. ThreadInv(t) BY DEF HInv
  <1>3. csnMin[t] \in Nat \cup {MAX_COMMITSEQNO} /\ nextCsn \in Nat /\ nextCsn' \in Nat
    BY DEF HInv, Types
  <1>4. ThreadInv(t)'
    BY ONLY <1>1, <1>2, <1>3, nextCsn <= nextCsn', UNCHANGED <<csnMin, snapshot, cursors>>,
            pc[t] \notin {"txn", "announced", "read"}, pc'[t] \notin {"txn", "announced", "read"}
       DEF ThreadInv, NoCsn, MAX_COMMITSEQNO, INVALID_CSN
  <1>5. Kept(t) BY <1>1 DEF Kept, Covers
  <1>6. QED BY <1>4, <1>5, ThreadStep

\* The actions that take the published csn back, as far as the cursors allow.
LEMMA ResetStep ==
  ASSUME HInv, NEW t \in Thread, Types',
         SetThrdLocalCsn(t, INVALID_CSN), snapshot'[t] = INVALID_CSN,
         cursors'[t] = cursors[t] \/ cursors'[t] = <<>>,
         UNCHANGED <<nextCsn, localCsnMin, scan>>, OtherThreads(t),
         pc[t] \notin {"announced", "read"}, pc'[t] \notin {"announced", "read"}
  PROVE  HInv'
  <1>0. nextCsn <= nextCsn' BY DEF HInv, Types
  <1>1. ThreadInv(t) /\ csnMin[t] \in Nat \cup {MAX_COMMITSEQNO} BY DEF HInv, Types
  <1>2. csnMin[t] # MAX_COMMITSEQNO BY <1>1 DEF ThreadInv
  <1>3. InUse(t)' \subseteq InUse(t) BY DEF InUse
  <1>4. CASE cursors[t] = <<>> \/ csnMin[t] = INVALID_CSN
    <2>1. csnMin'[t] = INVALID_CSN
      BY <1>4, <1>1 DEF SetThrdLocalCsn, SetLocalCsn, NoCsn, HInv, Types
    <2>2. InUse(t)' = {}
      <3>1. CASE cursors[t] = <<>> BY <3>1 DEF InUse
      <3>2. CASE csnMin[t] = INVALID_CSN BY <3>2, <1>1, <1>3 DEF ThreadInv
      <3>3. QED BY <3>1, <3>2, <1>4
    <2>3. ThreadInv(t)' BY <2>1, <2>2 DEF ThreadInv, NoCsn, MAX_COMMITSEQNO, INVALID_CSN
    <2>4. Kept(t) BY <2>1, <2>2 DEF Kept, Covers, NoCsn
    <2>5. QED BY <2>3, <2>4, <1>0, ThreadStep
  <1>5. CASE cursors[t] # <<>> /\ csnMin[t] # INVALID_CSN
    <2>1. UNCHANGED csnMin
      BY <1>5, <1>2 DEF SetThrdLocalCsn, NoCsn
    <2>2. ThreadInv(t)'
      BY <2>1, <1>1, <1>2, <1>3 DEF ThreadInv, NoCsn
    <2>3. Kept(t) BY <2>1, <1>3 DEF Kept, Covers, NoCsn
    <2>4. QED BY <2>2, <2>3, <1>0, ThreadStep
  <1>6. QED BY <1>4, <1>5

\* The actions that drop the snapshot but not the published csn.
LEMMA DropStep ==
  ASSUME HInv, NEW t \in Thread, Types',
         snapshot'[t] = INVALID_CSN,
         UNCHANGED <<nextCsn, csnMin, cursors, localCsnMin, scan>>, OtherThreads(t),
         pc[t] \notin {"announced", "read"}, pc'[t] \notin {"announced", "read"}
  PROVE  HInv'
  <1>0. nextCsn <= nextCsn' BY DEF HInv, Types
  <1>1. ThreadInv(t) BY DEF HInv
  <1>2. InUse(t)' \subseteq InUse(t) BY DEF InUse
  <1>3. ThreadInv(t)' BY <1>1, <1>2 DEF ThreadInv, NoCsn
  <1>4. Kept(t) BY <1>2 DEF Kept, Covers, NoCsn
  <1>5. QED BY <1>3, <1>4, <1>0, ThreadStep

\* A thread's steps change only its own entries.
LEMMA SetThrdLocalCsnFrame ==
  ASSUME NEW t \in Thread, NEW csn \in Nat \cup {MAX_COMMITSEQNO},
         csnMin \in [Thread -> Nat \cup {MAX_COMMITSEQNO}], SetThrdLocalCsn(t, csn)
  PROVE  /\ csnMin' \in [Thread -> Nat \cup {MAX_COMMITSEQNO}]
         /\ \A u \in Thread \ {t} : csnMin'[u] = csnMin[u]
  BY DEF SetThrdLocalCsn, SetLocalCsn

LEMMA CleanupResourceFrame ==
  ASSUME NEW t \in Thread, cursors \in [Thread -> Seq(Nat)], CleanupResource(t)
  PROVE  /\ cursors' \in [Thread -> Seq(Nat)]
         /\ cursors'[t] = cursors[t] \/ cursors'[t] = <<>>
         /\ \A u \in Thread \ {t} : cursors'[u] = cursors[u]
  BY DEF CleanupResource

LEMMA SetSnapshotCsnStep ==
  ASSUME HInv, NEW t \in Thread, SetSnapshotCsn(t)
  PROVE  HInv'
  <1>0. nextCsn <= nextCsn' /\ UNCHANGED <<localCsnMin, scan>>
    BY DEF HInv, Types, SetSnapshotCsn, csnVars
  <1>1. ThreadInv(t) /\ csnMin[t] \in Nat \cup {MAX_COMMITSEQNO} BY DEF HInv, Types
  <1>2. Types' /\ OtherThreads(t)
    <2>1. MAX_COMMITSEQNO \in Nat \cup {MAX_COMMITSEQNO} OBVIOUS
    <2>2. csnMin' \in [Thread -> Nat \cup {MAX_COMMITSEQNO}] /\ \A u \in Thread \ {t} : csnMin'[u] = csnMin[u]
      BY ZenonT(60), <2>1, SetThrdLocalCsnFrame DEF SetSnapshotCsn, HInv, Types
    <2>3. QED BY ZenonT(60), <2>2 DEF SetSnapshotCsn, Goto, HInv, Types, OtherThreads, csnVars, histVars, PC
  <1>3. InUse(t)' = InUse(t) /\ snapshot[t] = INVALID_CSN /\ pc[t] = "txn" /\ pc'[t] = "announced"
    BY DEF SetSnapshotCsn, Goto, HInv, Types, InUse
  <1>4. csnMin[t] # MAX_COMMITSEQNO BY <1>1, <1>3 DEF ThreadInv
  <1>5. CASE cursors[t] = <<>> \/ csnMin[t] = INVALID_CSN
    <2>1. csnMin'[t] = MAX_COMMITSEQNO
      BY <1>5, <1>1 DEF SetSnapshotCsn, SetThrdLocalCsn, SetLocalCsn, NoCsn, HInv, Types
    <2>2. \A i \in DOMAIN cursors[t] : cursors[t][i] = INVALID_CSN
      <3>1. CASE cursors[t] = <<>> BY <3>1
      <3>2. CASE csnMin[t] = INVALID_CSN BY <3>2, <1>1 DEF ThreadInv, InUse
      <3>3. QED BY <3>1, <3>2, <1>5
    <2>3. InUse(t) = {} BY <2>2, <1>3 DEF InUse
    <2>4. ThreadInv(t)'
      BY <2>1, <2>2, <2>3, <1>3 DEF ThreadInv, NoCsn, MAX_COMMITSEQNO, INVALID_CSN, SetSnapshotCsn
    <2>5. Kept(t) BY <2>1, <2>3, <1>3 DEF Kept, Covers, NoCsn
    <2>6. QED BY <1>2, <2>4, <2>5, <1>0, ThreadStep
  <1>6. CASE cursors[t] # <<>> /\ csnMin[t] # INVALID_CSN
    <2>1. UNCHANGED csnMin
      BY <1>6, <1>4 DEF SetSnapshotCsn, SetThrdLocalCsn, NoCsn
    <2>2. UNCHANGED <<nextCsn, cursors, snapshot>> BY DEF SetSnapshotCsn, csnVars
    <2>3. ThreadInv(t)' BY <2>1, <2>2, <1>1, <1>3, <1>4, <1>6 DEF ThreadInv, NoCsn
    <2>4. Kept(t) BY <2>1, <1>3 DEF Kept, Covers, NoCsn
    <2>5. QED BY <1>2, <2>3, <2>4, <1>0, ThreadStep
  <1>7. QED BY <1>5, <1>6

LEMMA ReadNextCsnStep ==
  ASSUME HInv, NEW t \in Thread, ReadNextCsn(t)
  PROVE  HInv'
  <1>0. nextCsn <= nextCsn' /\ UNCHANGED <<localCsnMin, scan>>
    BY DEF HInv, Types, ReadNextCsn, csnVars
  <1>1. ThreadInv(t) /\ csnMin[t] \in Nat \cup {MAX_COMMITSEQNO} /\ nextCsn \in Nat \ {INVALID_CSN}
    BY DEF HInv, Types
  <1>2. Types' /\ OtherThreads(t)
    BY SMTT(60) DEF ReadNextCsn, Goto, HInv, Types, OtherThreads, csnVars, histVars, PC
  <1>3. /\ pc[t] = "announced" /\ pc'[t] = "read" /\ cur'[t] = nextCsn
        /\ UNCHANGED <<nextCsn, csnMin, snapshot, cursors>>
    BY DEF ReadNextCsn, Goto, HInv, Types, csnVars
  <1>4. InUse(t)' = InUse(t) \cup {nextCsn} BY <1>1, <1>3 DEF InUse
  <1>5. ThreadInv(t)'
    BY <1>1, <1>3, <1>4 DEF ThreadInv, NoCsn, MAX_COMMITSEQNO, INVALID_CSN
  <1>6. Kept(t) BY <1>3, <1>4 DEF Kept, Covers, NoCsn
  <1>7. QED BY <1>0, <1>2, <1>5, <1>6, ThreadStep

\* What SetSnapshotCsn publishes where it publishes anything: the number it read.
LEMMA PublishSnapshotStep ==
  ASSUME HInv, NEW t \in Thread, PublishSnapshot(t)
  PROVE  HInv'
  <1> DEFINE csn == IF GetCursorSnapshotMinCsn(t) = INVALID_CSN THEN cur[t] ELSE GetCursorSnapshotMinCsn(t)
  <1>0. nextCsn <= nextCsn' /\ UNCHANGED <<localCsnMin, scan>>
    BY DEF HInv, Types, PublishSnapshot, csnVars
  <1>1. /\ ThreadInv(t) /\ csnMin[t] \in Nat \cup {MAX_COMMITSEQNO} /\ cur[t] \in Nat
        /\ nextCsn \in Nat /\ cursors[t] \in Seq(Nat)
    BY DEF HInv, Types
  <1>2. /\ pc[t] = "read" /\ pc'[t] = "txn" /\ snapshot'[t] = cur[t] /\ cur'[t] = INVALID_CSN
        /\ UNCHANGED <<nextCsn, cursors>>
    BY DEF PublishSnapshot, Goto, HInv, Types, csnVars
  <1>3. csn \in Nat BY <1>1 DEF GetCursorSnapshotMinCsn, INVALID_CSN
  <1>4. SetThrdLocalCsn(t, csn) BY DEF PublishSnapshot
  <1> HIDE DEF csn
  <1>5. Types' /\ OtherThreads(t)
    <2>1. csnMin' \in [Thread -> Nat \cup {MAX_COMMITSEQNO}] /\ \A u \in Thread \ {t} : csnMin'[u] = csnMin[u]
      BY SMTT(60), <1>3, <1>4, SetThrdLocalCsnFrame DEF HInv, Types
    <2>2. QED BY ZenonT(60), <2>1 DEF PublishSnapshot, Goto, HInv, Types, OtherThreads, csnVars, histVars, PC, INVALID_CSN
  <1>6. InUse(t)' = InUse(t) /\ cur[t] \in InUse(t)
    BY SMTT(60), <1>1, <1>2 DEF InUse, ThreadInv
  <1>7. CASE csnMin[t] = MAX_COMMITSEQNO
    <2>1. csn = cur[t]
      BY SMTT(60), <1>7, <1>1 DEF csn, GetCursorSnapshotMinCsn, ThreadInv
    <2>2. csnMin'[t] = cur[t]
      BY SMTT(60), <1>7, <1>4, <2>1 DEF SetThrdLocalCsn, SetLocalCsn, NoCsn, HInv, Types
    <2>3. InUse(t) = {cur[t]} BY SMTT(60), <1>7, <1>1, <1>2, <1>6 DEF InUse, ThreadInv
    <2>4. ThreadInv(t)'
      BY <2>2, <2>3, <1>1, <1>2, <1>6 DEF ThreadInv, NoCsn, MAX_COMMITSEQNO, INVALID_CSN
    <2>5. Kept(t) BY <2>2, <2>3, <1>6 DEF Kept, Covers
    <2>6. QED BY <1>0, <1>5, <2>4, <2>5, ThreadStep
  <1>8. CASE csnMin[t] # MAX_COMMITSEQNO
    <2>1. ~NoCsn(csnMin[t]) BY <1>8, <1>1, <1>2 DEF ThreadInv, NoCsn
    <2>2. csn # MAX_COMMITSEQNO BY SMTT(60), <1>3 DEF MAX_COMMITSEQNO
    <2>3. csn # INVALID_CSN BY <1>1, <1>2 DEF csn, ThreadInv
    <2>4. UNCHANGED csnMin BY SMTT(60), <1>4, <2>1, <2>2, <2>3 DEF SetThrdLocalCsn, SetLocalCsn, NoCsn
    <2>5. ThreadInv(t)' BY <2>1, <2>4, <1>1, <1>2, <1>6 DEF ThreadInv, NoCsn
    <2>6. Kept(t) BY <2>4, <1>6 DEF Kept, Covers, NoCsn
    <2>7. QED BY <1>0, <1>5, <2>5, <2>6, ThreadStep
  <1>9. QED BY <1>7, <1>8

LEMMA AddCursorSnapshotStep ==
  ASSUME HInv, NEW t \in Thread, AddCursorSnapshot(t)
  PROVE  HInv'
  <1>0. nextCsn <= nextCsn' /\ UNCHANGED <<localCsnMin, scan>>
    BY DEF HInv, Types, AddCursorSnapshot, csnVars
  <1>1. /\ ThreadInv(t) /\ cursors[t] \in Seq(Nat) /\ snapshot[t] \in Nat
        /\ cursors \in [Thread -> Seq(Nat)]
    BY DEF HInv, Types
  <1>2. /\ pc[t] = "txn" /\ pc'[t] = "txn" /\ cursors'[t] = Append(cursors[t], snapshot[t])
        /\ UNCHANGED <<nextCsn, csnMin, snapshot, cur>>
    BY DEF AddCursorSnapshot, Goto, HInv, Types, csnVars
  <1>3. cursors' \in [Thread -> Seq(Nat)]
    <2>1. Append(cursors[t], snapshot[t]) \in Seq(Nat) BY <1>1
    <2>2. QED BY <1>1, <2>1 DEF AddCursorSnapshot
  <1>4. Types' /\ OtherThreads(t)
    BY SMTT(60), <1>3 DEF AddCursorSnapshot, Goto, HInv, Types, OtherThreads, csnVars, histVars, PC
  <1>5. \A i \in DOMAIN cursors'[t] :
          cursors'[t][i] = snapshot[t] \/ (i \in DOMAIN cursors[t] /\ cursors'[t][i] = cursors[t][i])
    BY <1>1, <1>2, AppendElements
  <1>6. InUse(t)' \subseteq InUse(t) BY SMTT(60), <1>2, <1>5 DEF InUse
  <1>7. ThreadInv(t)' BY SMTT(60), <1>1, <1>2, <1>6 DEF ThreadInv, NoCsn
  <1>8. Kept(t) BY <1>2, <1>6 DEF Kept, Covers, NoCsn
  <1>9. QED BY <1>0, <1>4, <1>7, <1>8, ThreadStep

LEMMA DeleteCursorSnapshotStep ==
  ASSUME HInv, NEW t \in Thread, DeleteCursorSnapshot(t)
  PROVE  HInv'
  <1>0. nextCsn <= nextCsn' /\ UNCHANGED <<localCsnMin, scan>>
    BY DEF HInv, Types, DeleteCursorSnapshot, csnVars
  <1>1. PICK i \in DOMAIN cursors[t] : cursors' = [cursors EXCEPT ![t] = Without(@, i)]
    BY ZenonT(60) DEF DeleteCursorSnapshot
  <1>2. ThreadInv(t) /\ cursors[t] \in Seq(Nat) /\ cursors \in [Thread -> Seq(Nat)]
    BY DEF HInv, Types
  <1>3. /\ Without(cursors[t], i) \in Seq(Nat)
        /\ \A j \in DOMAIN Without(cursors[t], i) :
             \E k \in DOMAIN cursors[t] : Without(cursors[t], i)[j] = cursors[t][k]
    BY <1>2, WithoutType
  <1>4. /\ pc[t] \in {"none", "txn"} /\ cursors'[t] = Without(cursors[t], i)
        /\ UNCHANGED <<nextCsn, csnMin, snapshot, pc, cur>>
    BY SMTT(60), <1>1, <1>2 DEF DeleteCursorSnapshot, csnVars
  <1>5. Types' /\ OtherThreads(t)
    BY SMTT(60), <1>1, <1>2, <1>3 DEF DeleteCursorSnapshot, HInv, Types, OtherThreads, csnVars, histVars
  <1>6. InUse(t)' \subseteq InUse(t) BY <1>3, <1>4 DEF InUse
  <1>7. ThreadInv(t)' BY SMTT(60), <1>2, <1>4, <1>6 DEF ThreadInv, NoCsn
  <1>8. Kept(t) BY <1>4, <1>6 DEF Kept, Covers, NoCsn
  <1>9. QED BY <1>0, <1>5, <1>7, <1>8, ThreadStep

LEMMA DeleteAllCursorSnapshotsStep ==
  ASSUME HInv, NEW t \in Thread, DeleteAllCursorSnapshots(t)
  PROVE  HInv'
  <1>0. nextCsn <= nextCsn' /\ UNCHANGED <<localCsnMin, scan>>
    BY DEF HInv, Types, DeleteAllCursorSnapshots, csnVars
  <1>1. ThreadInv(t) /\ cursors \in [Thread -> Seq(Nat)]
    BY DEF HInv, Types
  <1>2. /\ pc[t] \in {"none", "txn"} /\ cursors'[t] = <<>>
        /\ UNCHANGED <<nextCsn, csnMin, snapshot, pc, cur>>
    BY <1>1 DEF DeleteAllCursorSnapshots, csnVars
  <1>3. Types' /\ OtherThreads(t)
    BY SMTT(60), <1>1 DEF DeleteAllCursorSnapshots, HInv, Types, OtherThreads, csnVars, histVars
  <1>4. InUse(t)' \subseteq InUse(t) BY SMTT(60), <1>2 DEF InUse
  <1>5. ThreadInv(t)' BY <1>1, <1>2, <1>4 DEF ThreadInv, NoCsn
  <1>6. Kept(t) BY <1>2, <1>4 DEF Kept, Covers, NoCsn
  <1>7. QED BY <1>0, <1>3, <1>5, <1>6, ThreadStep

\* The scan begins with every thread unseen.
LEMMA UpdateLocalCsnMinStep == HInv /\ UpdateLocalCsnMin => HInv'
  <1> SUFFICES ASSUME HInv, UpdateLocalCsnMin PROVE HInv'
    OBVIOUS
  <1>1. UNCHANGED <<nextCsn, maxReservedCsn, ctlCsn, localCsnMin, csnMin, snapshot, cursors, pc, cur, newMax>>
    BY DEF UpdateLocalCsnMin, csnVars, thrdVars
  <1>2. Types' BY SMTT(60), <1>1 DEF HInv, Types, UpdateLocalCsnMin
  <1>3. \A t \in Thread : ThreadInv(t)' /\ Covers(localCsnMin, t)'
    BY SMTT(60), <1>1 DEF HInv, ThreadInv, Covers, InUse
  <1>4. ScanInv' BY <1>1 DEF ScanInv, HInv, Types, UpdateLocalCsnMin
  <1>5. QED BY <1>2, <1>3, <1>4 DEF HInv

\* A thread is passed by: its csnMin covers all it uses.
LEMMA ScanThreadStep ==
  ASSUME HInv, NEW t \in Thread, ScanThread(t)
  PROVE  HInv'
  <1>1. UNCHANGED <<nextCsn, maxReservedCsn, ctlCsn, localCsnMin, csnMin, snapshot, cursors, pc, cur, newMax>>
    BY DEF ScanThread, csnVars, thrdVars
  <1>2. /\ ThreadInv(t) /\ Covers(localCsnMin, t) /\ csnMin[t] \in Nat /\ localCsnMin \in Nat
        /\ scan.next \in Nat /\ scan.min \in Nat \cup {MAX_COMMITSEQNO}
    BY DEF HInv, Types, ScanThread
  <1>3. /\ scan'.on = scan.on /\ scan'.next = scan.next /\ scan'.left = scan.left \ {t}
        /\ scan'.min = IF csnMin[t] = INVALID_CSN THEN scan.min ELSE Lesser(scan.min, csnMin[t])
    BY SMTT(60) DEF ScanThread, HInv, Types
  <1>4. scan'.min \in Nat \cup {MAX_COMMITSEQNO} BY <1>2, <1>3 DEF Lesser
  <1>5. Types' BY ZenonT(60), <1>1, <1>4 DEF HInv, Types, ScanThread
  <1>6. \A u \in Thread : ThreadInv(u)' /\ Covers(localCsnMin, u)'
    BY SMTT(60), <1>1 DEF HInv, ThreadInv, Covers, InUse
  <1>7. ScanInv'
    <2> SUFFICES ASSUME scan.on PROVE ScanInv'
      BY SMTT(60), <1>3 DEF ScanInv
    <2>2. NewLocalCsnMin \in Nat /\ NewLocalCsnMin' \in Nat /\ NewLocalCsnMin' <= NewLocalCsnMin
      BY SMTT(60), <1>2, <1>3, <1>4 DEF NewLocalCsnMin, Lesser, MAX_COMMITSEQNO
    <2>3. csnMin[t] # INVALID_CSN => NewLocalCsnMin' <= csnMin[t]
      BY SMTT(60), <1>2, <1>3 DEF NewLocalCsnMin, Lesser, MAX_COMMITSEQNO
    <2>4. scan'.min # MAX_COMMITSEQNO => localCsnMin <= scan'.min
      BY SMTT(60), <1>2, <1>3 DEF ScanInv, HInv, Lesser, Covers, NoCsn, MAX_COMMITSEQNO
    <2>5. \A u \in Thread : InUse(u)' = InUse(u) /\ InUse(u) \subseteq Nat
      BY SMTT(60), <1>1 DEF InUse, HInv, Types
    <2>6. \A u \in Thread \ scan.left : Covers(NewLocalCsnMin, u)'
      <3> SUFFICES ASSUME NEW u \in Thread \ scan.left PROVE Covers(NewLocalCsnMin, u)'
        OBVIOUS
      <3>1. Covers(NewLocalCsnMin, u) BY DEF ScanInv, HInv
      <3>2. csnMin[u] \in Nat \cup {MAX_COMMITSEQNO} BY DEF HInv, Types
      <3>3. QED BY SMTT(60), <1>1, <2>2, <2>5, <3>1, <3>2 DEF Covers, NoCsn, MAX_COMMITSEQNO
    <2>7. Covers(NewLocalCsnMin, t)'
      BY <1>1, <1>2, <2>2, <2>3, <2>5 DEF Covers, NoCsn, ThreadInv, ScanThread
    <2>8. QED BY ZenonT(60), <1>1, <1>3, <2>4, <2>6, <2>7 DEF ScanInv, HInv
  <1>8. QED BY <1>5, <1>6, <1>7 DEF HInv

\* The new horizon lies between the old one and everything in use.
LEMMA NewHorizon ==
  ASSUME HInv, scan.on, scan.left = {}
  PROVE  /\ NewLocalCsnMin \in Nat /\ localCsnMin <= NewLocalCsnMin /\ NewLocalCsnMin <= nextCsn
         /\ \A t \in Thread : Covers(NewLocalCsnMin, t)
  <1>1. /\ scan.next \in Nat /\ scan.min \in Nat \cup {MAX_COMMITSEQNO}
        /\ localCsnMin \in Nat /\ nextCsn \in Nat
    BY DEF HInv, Types
  <1>2. localCsnMin <= scan.next /\ scan.next <= nextCsn /\ (scan.min # MAX_COMMITSEQNO => localCsnMin <= scan.min)
    BY DEF HInv, ScanInv
  <1>3. QED BY <1>1, <1>2 DEF HInv, ScanInv, NewLocalCsnMin, Lesser, MAX_COMMITSEQNO

LEMMA AdvanceLocalCsnMinStep == HInv /\ AdvanceLocalCsnMin => HInv'
  <1> SUFFICES ASSUME HInv, AdvanceLocalCsnMin PROVE HInv'
    OBVIOUS
  <1>1. UNCHANGED <<nextCsn, maxReservedCsn, ctlCsn, csnMin, snapshot, cursors, pc, cur, newMax>>
    BY DEF AdvanceLocalCsnMin, csnVars, thrdVars
  <1>2. scan.on /\ scan.left = {} /\ localCsnMin' = NewLocalCsnMin /\ scan' = Idle
    BY SMTT(60) DEF AdvanceLocalCsnMin
  <1>3. Types' BY SMTT(60), <1>1, <1>2, NewHorizon DEF HInv, Types, Idle, INVALID_CSN
  <1>4. \A t \in Thread : InUse(t)' = InUse(t) BY SMTT(60), <1>1 DEF InUse
  <1>5. \A t \in Thread : ThreadInv(t)'
    BY <1>1, <1>4 DEF HInv, ThreadInv
  <1>6. \A t \in Thread : Covers(localCsnMin, t)'
    BY <1>1, <1>2, <1>4, NewHorizon DEF Covers
  <1>7. ScanInv' BY SMTT(60), <1>2 DEF ScanInv, Idle
  <1>8. QED BY <1>3, <1>5, <1>6, <1>7 DEF HInv

LEMMA RestartStep == HInv /\ Restart => HInv'
  <1> SUFFICES ASSUME HInv, Restart PROVE HInv'
    OBVIOUS
  <1>1. ctlCsn \in Nat BY DEF HInv, Types
  <1>2. /\ nextCsn' = ctlCsn + 1 /\ maxReservedCsn' = ctlCsn /\ ctlCsn' = ctlCsn
        /\ localCsnMin' = nextCsn' /\ scan' = Idle
        /\ csnMin' = [t \in Thread |-> 0] /\ snapshot' = [t \in Thread |-> 0]
        /\ cursors' = [t \in Thread |-> <<>>] /\ pc' = [t \in Thread |-> "none"]
        /\ cur' = [t \in Thread |-> 0] /\ newMax' = [t \in Thread |-> 0]
    BY ZenonT(60) DEF Restart, FirstCsn, INVALID_CSN
  <1>3. Types'
    BY ONLY SMTT(60), <1>1, <1>2 DEF Types, Idle, INVALID_CSN, MAX_COMMITSEQNO, PC
  <1>4. \A t \in Thread : /\ csnMin'[t] = 0 /\ snapshot'[t] = 0 /\ cursors'[t] = <<>> /\ pc'[t] = "none"
                        /\ InUse(t)' = {}
    BY ONLY SMTT(60), <1>2 DEF InUse, INVALID_CSN
  <1>5. \A t \in Thread : ThreadInv(t)' /\ Covers(localCsnMin, t)'
    BY ONLY SMTT(60), <1>4 DEF ThreadInv, Covers, NoCsn, INVALID_CSN, MAX_COMMITSEQNO
  <1>6. ScanInv' BY ONLY ZenonT(60), <1>2 DEF ScanInv, Idle
  <1>7. QED BY ZenonT(60), <1>3, <1>5, <1>6 DEF HInv

\* The actions of a thread outside of a commit.
LEMMA StatementStep ==
  ASSUME HInv, NEW t \in Thread, Statement(t)
  PROVE  HInv'
  <1> USE DEF HInv
  <1>1. INVALID_CSN \in Nat /\ INVALID_CSN \in Nat \cup {MAX_COMMITSEQNO} BY DEF INVALID_CSN
  <1>2. ASSUME SetThrdLocalCsn(t, INVALID_CSN)
        PROVE  /\ csnMin' \in [Thread -> Nat \cup {MAX_COMMITSEQNO}]
               /\ \A u \in Thread \ {t} : csnMin'[u] = csnMin[u]
    BY SMTT(60), <1>1, <1>2, SetThrdLocalCsnFrame DEF Types
  <1>3. pc[t] # "txn" => snapshot[t] = INVALID_CSN BY SMTT(60) DEF ThreadInv
  <1>4. CASE Start(t)
    <2>1. Types' /\ OtherThreads(t) /\ snapshot'[t] = INVALID_CSN /\ pc[t] = "none" /\ pc'[t] = "txn"
      BY SMTT(60), <1>1, <1>2, <1>4 DEF Start, Goto, Types, OtherThreads, csnVars, histVars, PC
    <2>2. QED BY ZenonT(60), <1>4, <2>1, ResetStep DEF Start, csnVars
  <1>5. CASE SetSnapshotCsnRefused(t)
    <2>1. Types' /\ OtherThreads(t) /\ snapshot'[t] = INVALID_CSN /\ pc[t] = "none" /\ pc'[t] = "none"
      BY SMTT(60), <1>1, <1>2, <1>3, <1>5 DEF SetSnapshotCsnRefused, Goto, Types, OtherThreads, csnVars, histVars, PC
    <2>2. QED BY ZenonT(60), <1>5, <2>1, ResetStep DEF SetSnapshotCsnRefused, csnVars
  <1>6. CASE ResetSnapshotCsn(t)
    <2>1. Types' /\ OtherThreads(t) /\ snapshot'[t] = INVALID_CSN /\ pc[t] = "txn" /\ pc'[t] = "txn"
      BY SMTT(60), <1>1, <1>2, <1>6 DEF ResetSnapshotCsn, Goto, Types, OtherThreads, csnVars, histVars, PC
    <2>2. QED BY ZenonT(60), <1>6, <2>1, ResetStep DEF ResetSnapshotCsn, csnVars
  <1>7. CASE Abort(t)
    <2>0. /\ cursors' \in [Thread -> Seq(Nat)]
          /\ cursors'[t] = cursors[t] \/ cursors'[t] = <<>>
          /\ \A u \in Thread \ {t} : cursors'[u] = cursors[u]
      BY SMTT(60), <1>7, CleanupResourceFrame DEF Abort, Types
    <2>1. Types' /\ OtherThreads(t) /\ snapshot'[t] = INVALID_CSN /\ pc[t] = "txn" /\ pc'[t] = "none"
      BY ZenonT(60), <1>1, <1>2, <1>7, <2>0 DEF Abort, Goto, Types, OtherThreads, csnVars, histVars, PC
    <2>2. QED BY ZenonT(60), <1>7, <2>0, <2>1, ResetStep DEF Abort, csnVars
  <1>8. CASE NextCommand(t)
    <2>1. Types' /\ OtherThreads(t) /\ snapshot'[t] = INVALID_CSN /\ pc[t] = "txn" /\ pc'[t] = "txn"
      BY SMTT(60), <1>1, <1>8 DEF NextCommand, Goto, Types, OtherThreads, csnVars, histVars, PC
    <2>2. QED BY ZenonT(60), <1>8, <2>1, DropStep DEF NextCommand, csnVars
  <1>9. CASE Commit(t)
    <2>1. Types' /\ OtherThreads(t) /\ snapshot'[t] = INVALID_CSN /\ pc[t] = "txn" /\ pc'[t] = "commit"
      BY SMTT(60), <1>1, <1>9 DEF Commit, Goto, Types, OtherThreads, csnVars, histVars, PC
    <2>2. QED BY ZenonT(60), <1>9, <2>1, DropStep DEF Commit, csnVars
  <1>10. CASE SetSnapshotCsn(t) BY <1>10, SetSnapshotCsnStep
  <1>11. CASE AddCursorSnapshot(t) BY <1>11, AddCursorSnapshotStep
  <1>12. CASE DeleteCursorSnapshot(t) BY <1>12, DeleteCursorSnapshotStep
  <1>13. CASE DeleteAllCursorSnapshots(t) BY <1>13, DeleteAllCursorSnapshotsStep
  <1>14. QED BY SMTT(60), <1>4, <1>5, <1>6, <1>7, <1>8, <1>9, <1>10, <1>11, <1>12, <1>13 DEF Statement

\* The steps inside SetSnapshotCsn and Commit.
LEMMA StepStep ==
  ASSUME HInv, NEW t \in Thread, Step(t)
  PROVE  HInv'
  <1> USE DEF HInv
  <1>1. INVALID_CSN \in Nat /\ INVALID_CSN \in Nat \cup {MAX_COMMITSEQNO} BY DEF INVALID_CSN
  <1>2. Pushed(maxReservedCsn, cur[t]) \in Nat BY ZenonT(60), PushedType DEF Types
  <1>3. CASE GetNextCsn(t)
    <2>1. /\ Types' /\ OtherThreads(t) /\ nextCsn <= nextCsn' /\ pc[t] = "commit" /\ pc'[t] \in {"reserve", "wait"}
          /\ UNCHANGED <<csnMin, snapshot, cursors, localCsnMin, scan>>
      BY SMTT(60), <1>3 DEF GetNextCsn, Goto, Types, OtherThreads, csnVars, histVars, PC, INVALID_CSN
    <2>2. QED BY ZenonT(60), <2>1, IdleStep
  <1>4. CASE UpdateMaxReservedCsnIfNecessary(t)
    <2>1. /\ Types' /\ OtherThreads(t) /\ nextCsn <= nextCsn' /\ pc[t] = "reserve" /\ pc'[t] \in {"lock", "wait"}
          /\ UNCHANGED <<csnMin, snapshot, cursors, localCsnMin, scan>>
      BY SMTT(60), <1>1, <1>2, <1>4 DEF UpdateMaxReservedCsnIfNecessary, Goto, Types, OtherThreads, csnVars, histVars, PC
    <2>2. QED BY ZenonT(60), <2>1, IdleStep
  <1>5. CASE UpdateMaxReservedCsnRedundant(t)
    <2>1. /\ Types' /\ OtherThreads(t) /\ nextCsn <= nextCsn' /\ pc[t] = "lock" /\ pc'[t] \in {"wait"}
          /\ UNCHANGED <<csnMin, snapshot, cursors, localCsnMin, scan>>
      BY SMTT(60), <1>1, <1>5 DEF UpdateMaxReservedCsnRedundant, Goto, Types, OtherThreads, csnVars, histVars, PC
    <2>2. QED BY ZenonT(60), <2>1, IdleStep
  <1>6. CASE SetMaxReservedCSN(t)
    <2>1. /\ Types' /\ OtherThreads(t) /\ nextCsn <= nextCsn' /\ pc[t] = "lock" /\ pc'[t] \in {"written"}
          /\ UNCHANGED <<csnMin, snapshot, cursors, localCsnMin, scan>>
      BY SMTT(60), <1>1, <1>6 DEF SetMaxReservedCSN, Goto, Types, OtherThreads, csnVars, histVars, PC
    <2>2. QED BY ZenonT(60), <2>1, IdleStep
  <1>7. CASE PushMaxReservedCsn(t)
    <2>1. /\ Types' /\ OtherThreads(t) /\ nextCsn <= nextCsn' /\ pc[t] = "written" /\ pc'[t] \in {"wait"}
          /\ UNCHANGED <<csnMin, snapshot, cursors, localCsnMin, scan>>
      BY SMTT(60), <1>1, <1>7 DEF PushMaxReservedCsn, Goto, Types, OtherThreads, csnVars, histVars, PC
    <2>2. QED BY ZenonT(60), <2>1, IdleStep
  <1>8. CASE SetMaxReservedCSNFails(t)
    <2>1. /\ Types' /\ OtherThreads(t) /\ nextCsn <= nextCsn' /\ pc[t] = "lock" /\ pc'[t] \in {"end"}
          /\ UNCHANGED <<csnMin, snapshot, cursors, localCsnMin, scan>>
      BY SMTT(60), <1>1, <1>8 DEF SetMaxReservedCSNFails, Goto, Types, OtherThreads, csnVars, histVars, PC
    <2>2. QED BY ZenonT(60), <2>1, IdleStep
  <1>9. CASE Drawn(t)
    <2>1. /\ Types' /\ OtherThreads(t) /\ nextCsn <= nextCsn' /\ pc[t] = "wait" /\ pc'[t] \in {"end"}
          /\ UNCHANGED <<csnMin, snapshot, cursors, localCsnMin, scan>>
      BY SMTT(60), <1>1, <1>9 DEF Drawn, Goto, Types, OtherThreads, csnVars, histVars, PC
    <2>2. QED BY ZenonT(60), <2>1, IdleStep
  <1>10. CASE CommitEnds(t)
    <2>0. /\ cursors' \in [Thread -> Seq(Nat)]
          /\ cursors'[t] = cursors[t] \/ cursors'[t] = <<>>
          /\ \A u \in Thread \ {t} : cursors'[u] = cursors[u]
      BY <1>10, CleanupResourceFrame DEF CommitEnds, Types
    <2>1. /\ csnMin' \in [Thread -> Nat \cup {MAX_COMMITSEQNO}]
          /\ \A u \in Thread \ {t} : csnMin'[u] = csnMin[u]
      BY SMTT(60), <1>1, <1>10, SetThrdLocalCsnFrame DEF CommitEnds, Types
    <2>a. /\ pc[t] = "end" /\ pc' = [pc EXCEPT ![t] = "none"] /\ cur' = [cur EXCEPT ![t] = INVALID_CSN]
          /\ newMax' = [newMax EXCEPT ![t] = INVALID_CSN]
          /\ UNCHANGED <<nextCsn, maxReservedCsn, ctlCsn, localCsnMin, snapshot, scan>>
      BY <1>10 DEF CommitEnds, Goto, csnVars
    <2>2. Types' /\ OtherThreads(t) /\ pc[t] = "end" /\ pc'[t] = "none"
      BY SMTT(60), <1>1, <2>0, <2>1, <2>a DEF Types, OtherThreads, PC
    <2>3. snapshot[t] = INVALID_CSN BY ZenonT(60), <2>2 DEF ThreadInv
    <2>4. QED BY ZenonT(60), <1>10, <2>0, <2>2, <2>3, ResetStep DEF CommitEnds, csnVars
  <1>11. CASE ReadNextCsn(t) BY <1>11, ReadNextCsnStep
  <1>12. CASE PublishSnapshot(t) BY <1>12, PublishSnapshotStep
  <1>13. QED BY <1>3, <1>4, <1>5, <1>6, <1>7, <1>8, <1>9, <1>10, <1>11, <1>12 DEF Step

\* HInv is an invariant.
LEMMA HInvariant == Spec => []HInv
  <1>1. HInv /\ [Next]_vars => HInv'
    <2> SUFFICES ASSUME HInv, [Next]_vars PROVE HInv'
      OBVIOUS
    <2>1. CASE \E t \in Thread : Statement(t) \/ Step(t) BY <2>1, StatementStep, StepStep
    <2>2. CASE UpdateLocalCsnMin BY <2>2, UpdateLocalCsnMinStep
    <2>3. CASE UpdateStep BY <2>3, ScanThreadStep, AdvanceLocalCsnMinStep DEF UpdateStep
    <2>4. CASE Restart BY <2>4, RestartStep
    <2>5. CASE UNCHANGED vars
      <3>1. UNCHANGED <<nextCsn, maxReservedCsn, ctlCsn, localCsnMin, csnMin, snapshot, cursors, pc, cur, newMax, scan>>
        BY <2>5 DEF vars, csnVars, thrdVars
      <3>2. \A t \in Thread : InUse(t)' = InUse(t) BY <3>1 DEF InUse
      <3>3. Types' BY SMTT(60), <3>1 DEF HInv, Types
      <3>4. \A t \in Thread : ThreadInv(t)' /\ Covers(localCsnMin, t)'
        BY SMTT(60), <3>1, <3>2 DEF HInv, ThreadInv, Covers
      <3>5. ScanInv'
        <4>1. NewLocalCsnMin' = NewLocalCsnMin BY <3>1 DEF NewLocalCsnMin
        <4>2. QED BY ZenonT(60), <3>1, <3>2, <4>1 DEF HInv, ScanInv, Covers
      <3>6. QED BY <3>3, <3>4, <3>5 DEF HInv
    <2>6. QED BY <2>1, <2>2, <2>3, <2>4, <2>5 DEF Next
  <1>2. QED BY HInit, <1>1, PTL DEF Spec

\* m_localCsnMin never passes a snapshot in use, for any number of threads, cursors
\* and restarts.
THEOREM HorizonSafe == Spec => []HorizonBelowSnapshots
  <1>1. HInv => HorizonBelowSnapshots BY DEF HInv, Covers, HorizonBelowSnapshots
  <1>2. QED BY HInvariant, <1>1, PTL

\* UpdateLocalCsnMin never panics: the horizon it computes is not below the last.
THEOREM HorizonNeverBack == Spec => []NoPanic
  <1>1. HInv => NoPanic
    <2> SUFFICES ASSUME HInv, scan.on, scan.left = {} PROVE NewLocalCsnMin >= localCsnMin
      BY SMTT(60) DEF NoPanic
    <2>1. QED BY NewHorizon DEF HInv, Types
  <1>2. QED BY HInvariant, <1>1, PTL

(***************************************************************************)
(* The numbers.  The bound in memory never exceeds the one on disk, and a  *)
(* number that is drawn and not yet used is below nextCsn and nobody       *)
(* else's.                                                                 *)
(***************************************************************************)
Drawing == {"reserve", "lock", "written", "wait"}

NInv ==
  /\ maxReservedCsn <= ctlCsn
  /\ issued \subseteq Nat
  /\ \A csn \in issued : csn <= ctlCsn /\ csn < nextCsn
  /\ \A t \in Thread : pc[t] = "written" => newMax[t] <= ctlCsn
  /\ \A t \in Thread : pc[t] \in Drawing => cur[t] < nextCsn /\ cur[t] \notin issued
  /\ \A t, u \in Thread : t # u /\ pc[t] \in Drawing /\ pc[u] \in Drawing => cur[t] # cur[u]

\* The actions that touch no number.
LEMMA NIdleStep ==
  ASSUME NInv, NEW t \in Thread, pc \in [Thread -> PC],
         NEW from \in PC \ Drawing, NEW to \in PC \ Drawing, Goto(t, from, to),
         \A u \in Thread \ {t} : cur'[u] = cur[u] /\ newMax'[u] = newMax[u],
         UNCHANGED <<nextCsn, maxReservedCsn, ctlCsn, issued>>
  PROVE  NInv'
  <1>1. pc'[t] \notin Drawing /\ \A u \in Thread \ {t} : pc'[u] = pc[u] BY SMTT(60) DEF Goto
  <1>2. QED BY SMTT(60), <1>1 DEF NInv, Drawing

LEMMA NThreadStep ==
  ASSUME Types, NInv, NEW t \in Thread, Statement(t) \/ Step(t)
  PROVE  NInv'
  <1>1. pc \in [Thread -> PC] /\ cur \in [Thread -> Nat] /\ newMax \in [Thread -> Nat] /\ nextCsn \in Nat
        /\ ctlCsn \in Nat /\ maxReservedCsn \in Nat
    BY SMTT(60) DEF Types
  <1>2. CASE Start(t)
    <2>1. "none" \in PC \ Drawing /\ "txn" \in PC \ Drawing BY DEF PC, Drawing
    <2>2. /\ Goto(t, "none", "txn") /\ UNCHANGED <<nextCsn, maxReservedCsn, ctlCsn, issued>>
          /\ \A u \in Thread \ {t} : cur'[u] = cur[u] /\ newMax'[u] = newMax[u]
      BY SMTT(60), <1>2 DEF Start, Types, csnVars, histVars
    <2>3. QED BY <1>1, <2>1, <2>2, NIdleStep
  <1>3. CASE SetSnapshotCsn(t)
    <2>1. "txn" \in PC \ Drawing /\ "announced" \in PC \ Drawing BY DEF PC, Drawing
    <2>2. /\ Goto(t, "txn", "announced") /\ UNCHANGED <<nextCsn, maxReservedCsn, ctlCsn, issued>>
          /\ \A u \in Thread \ {t} : cur'[u] = cur[u] /\ newMax'[u] = newMax[u]
      BY SMTT(60), <1>3 DEF SetSnapshotCsn, Types, csnVars, histVars
    <2>3. QED BY <1>1, <2>1, <2>2, NIdleStep
  <1>4. CASE SetSnapshotCsnRefused(t)
    <2>1. "none" \in PC \ Drawing /\ "none" \in PC \ Drawing BY DEF PC, Drawing
    <2>2. /\ Goto(t, "none", "none") /\ UNCHANGED <<nextCsn, maxReservedCsn, ctlCsn, issued>>
          /\ \A u \in Thread \ {t} : cur'[u] = cur[u] /\ newMax'[u] = newMax[u]
      BY SMTT(60), <1>4 DEF SetSnapshotCsnRefused, Types, csnVars, histVars
    <2>3. QED BY <1>1, <2>1, <2>2, NIdleStep
  <1>5. CASE NextCommand(t)
    <2>1. "txn" \in PC \ Drawing /\ "txn" \in PC \ Drawing BY DEF PC, Drawing
    <2>2. /\ Goto(t, "txn", "txn") /\ UNCHANGED <<nextCsn, maxReservedCsn, ctlCsn, issued>>
          /\ \A u \in Thread \ {t} : cur'[u] = cur[u] /\ newMax'[u] = newMax[u]
      BY <1>5 DEF NextCommand, Types, csnVars, histVars
    <2>3. QED BY <1>1, <2>1, <2>2, NIdleStep
  <1>6. CASE ResetSnapshotCsn(t)
    <2>1. "txn" \in PC \ Drawing /\ "txn" \in PC \ Drawing BY DEF PC, Drawing
    <2>2. /\ Goto(t, "txn", "txn") /\ UNCHANGED <<nextCsn, maxReservedCsn, ctlCsn, issued>>
          /\ \A u \in Thread \ {t} : cur'[u] = cur[u] /\ newMax'[u] = newMax[u]
      BY <1>6 DEF ResetSnapshotCsn, Types, csnVars, histVars
    <2>3. QED BY <1>1, <2>1, <2>2, NIdleStep
  <1>7. CASE AddCursorSnapshot(t)
    <2>1. "txn" \in PC \ Drawing /\ "txn" \in PC \ Drawing BY DEF PC, Drawing
    <2>2. /\ Goto(t, "txn", "txn") /\ UNCHANGED <<nextCsn, maxReservedCsn, ctlCsn, issued>>
          /\ \A u \in Thread \ {t} : cur'[u] = cur[u] /\ newMax'[u] = newMax[u]
      BY SMTT(60), <1>7 DEF AddCursorSnapshot, Types, csnVars, histVars
    <2>3. QED BY <1>1, <2>1, <2>2, NIdleStep
  <1>8. CASE Commit(t)
    <2>1. "txn" \in PC \ Drawing /\ "commit" \in PC \ Drawing BY DEF PC, Drawing
    <2>2. /\ Goto(t, "txn", "commit") /\ UNCHANGED <<nextCsn, maxReservedCsn, ctlCsn, issued>>
          /\ \A u \in Thread \ {t} : cur'[u] = cur[u] /\ newMax'[u] = newMax[u]
      BY SMTT(60), <1>8 DEF Commit, Types, csnVars, histVars
    <2>3. QED BY <1>1, <2>1, <2>2, NIdleStep
  <1>9. CASE Abort(t)
    <2>1. "txn" \in PC \ Drawing /\ "none" \in PC \ Drawing BY DEF PC, Drawing
    <2>2. /\ Goto(t, "txn", "none") /\ UNCHANGED <<nextCsn, maxReservedCsn, ctlCsn, issued>>
          /\ \A u \in Thread \ {t} : cur'[u] = cur[u] /\ newMax'[u] = newMax[u]
      BY SMTT(60), <1>9 DEF Abort, Types, csnVars, histVars
    <2>3. QED BY <1>1, <2>1, <2>2, NIdleStep
  <1>10. CASE ReadNextCsn(t)
    <2>1. "announced" \in PC \ Drawing /\ "read" \in PC \ Drawing BY DEF PC, Drawing
    <2>2. /\ Goto(t, "announced", "read") /\ UNCHANGED <<nextCsn, maxReservedCsn, ctlCsn, issued>>
          /\ \A u \in Thread \ {t} : cur'[u] = cur[u] /\ newMax'[u] = newMax[u]
      BY SMTT(60), <1>10 DEF ReadNextCsn, Types, csnVars, histVars
    <2>3. QED BY <1>1, <2>1, <2>2, NIdleStep
  <1>11. CASE PublishSnapshot(t)
    <2>1. "read" \in PC \ Drawing /\ "txn" \in PC \ Drawing BY DEF PC, Drawing
    <2>2. /\ Goto(t, "read", "txn") /\ UNCHANGED <<nextCsn, maxReservedCsn, ctlCsn, issued>>
          /\ \A u \in Thread \ {t} : cur'[u] = cur[u] /\ newMax'[u] = newMax[u]
      BY SMTT(60), <1>11 DEF PublishSnapshot, Types, csnVars, histVars
    <2>3. QED BY <1>1, <2>1, <2>2, NIdleStep
  <1>12. CASE CommitEnds(t)
    <2>1. "end" \in PC \ Drawing /\ "none" \in PC \ Drawing BY DEF PC, Drawing
    <2>2. /\ Goto(t, "end", "none") /\ UNCHANGED <<nextCsn, maxReservedCsn, ctlCsn, issued>>
          /\ \A u \in Thread \ {t} : cur'[u] = cur[u] /\ newMax'[u] = newMax[u]
      BY SMTT(60), <1>12 DEF CommitEnds, Types, csnVars, histVars
    <2>3. QED BY <1>1, <2>1, <2>2, NIdleStep
  <1>13. CASE DeleteCursorSnapshot(t) \/ DeleteAllCursorSnapshots(t)
    <2>1. UNCHANGED <<nextCsn, maxReservedCsn, ctlCsn, issued, pc, cur, newMax>>
      BY SMTT(60), <1>13 DEF DeleteCursorSnapshot, DeleteAllCursorSnapshots, csnVars, histVars
    <2>2. QED BY ZenonT(60), <2>1 DEF NInv
  <1>14. CASE GetNextCsn(t)
    <2>1. /\ pc'[t] # "written" /\ cur'[t] = nextCsn /\ nextCsn' = nextCsn + 1
          /\ \A u \in Thread \ {t} : pc'[u] = pc[u] /\ cur'[u] = cur[u]
          /\ UNCHANGED <<maxReservedCsn, ctlCsn, issued, newMax>>
      BY <1>1, <1>14 DEF GetNextCsn, Goto, histVars
    <2>2. \A csn \in issued : csn \in Nat /\ csn < nextCsn BY DEF NInv
    <2>3. nextCsn \notin issued BY SMTT(60), <1>1, <2>2
    <2>4. QED BY <1>1, <2>1, <2>2, <2>3 DEF NInv, Drawing
  <1>15. CASE UpdateMaxReservedCsnIfNecessary(t)
    <2>1. /\ pc[t] = "reserve" /\ pc'[t] \in {"lock", "wait"}
          /\ \A u \in Thread \ {t} : pc'[u] = pc[u] /\ newMax'[u] = newMax[u]
          /\ UNCHANGED <<nextCsn, maxReservedCsn, ctlCsn, issued, cur>>
      BY <1>1, <1>15 DEF UpdateMaxReservedCsnIfNecessary, Goto, csnVars, histVars
    <2>2. QED BY ZenonT(60), <2>1 DEF NInv, Drawing
  <1>16. CASE UpdateMaxReservedCsnRedundant(t)
    <2>1. /\ pc[t] = "lock" /\ pc'[t] = "wait" /\ \A u \in Thread \ {t} : pc'[u] = pc[u]
          /\ \A u \in Thread \ {t} : newMax'[u] = newMax[u]
          /\ UNCHANGED <<nextCsn, maxReservedCsn, ctlCsn, issued, cur>>
      BY SMTT(60), <1>1, <1>16 DEF UpdateMaxReservedCsnRedundant, Goto, csnVars, histVars
    <2>2. QED BY ZenonT(60), <2>1 DEF NInv, Drawing
  <1>17. CASE SetMaxReservedCSN(t)
    <2>1. /\ pc[t] = "lock" /\ pc'[t] = "written" /\ \A u \in Thread \ {t} : pc'[u] = pc[u] /\ newMax'[u] = newMax[u]
          /\ newMax'[t] = ctlCsn' /\ ctlCsn <= ctlCsn' /\ ctlCsn' \in Nat
          /\ UNCHANGED <<nextCsn, maxReservedCsn, issued, cur>>
      BY SMTT(60), <1>1, <1>17 DEF SetMaxReservedCSN, Goto, histVars
    <2>2. maxReservedCsn <= ctlCsn' /\ \A csn \in issued : csn <= ctlCsn'
      <3>1. maxReservedCsn <= ctlCsn /\ \A csn \in issued : csn \in Nat /\ csn <= ctlCsn BY SMTT(60) DEF NInv
      <3>2. QED BY SMTT(60), <1>1, <2>1, <3>1
    <2>3. \A u \in Thread : pc'[u] = "written" => newMax'[u] <= ctlCsn'
      BY SMTT(60), <1>1, <2>1 DEF NInv
    <2>4. \A u \in Thread : pc'[u] \in Drawing => pc[u] \in Drawing
      BY ONLY ZenonT(60), <2>1 DEF Drawing
    <2>5. \A u \in Thread : pc'[u] \in Drawing => cur'[u] < nextCsn' /\ cur'[u] \notin issued'
      BY ZenonT(60), <2>1, <2>4 DEF NInv
    <2>6. \A u, v \in Thread : u # v /\ pc'[u] \in Drawing /\ pc'[v] \in Drawing => cur'[u] # cur'[v]
      BY ZenonT(60), <2>1, <2>4 DEF NInv
    <2>7. issued' \subseteq Nat /\ \A csn \in issued' : csn <= ctlCsn' /\ csn < nextCsn'
      BY ZenonT(60), <2>1, <2>2 DEF NInv
    <2>8. maxReservedCsn' <= ctlCsn' BY SMTT(60), <2>1, <2>2
    <2>9. QED BY ZenonT(60), <2>3, <2>5, <2>6, <2>7, <2>8 DEF NInv
  <1>18. CASE PushMaxReservedCsn(t)
    <2>1. /\ pc[t] = "written" /\ pc'[t] = "wait" /\ \A u \in Thread \ {t} : pc'[u] = pc[u]
          /\ maxReservedCsn' = newMax[t]
          /\ \A u \in Thread \ {t} : newMax'[u] = newMax[u]
          /\ UNCHANGED <<nextCsn, ctlCsn, issued, cur>>
      BY SMTT(60), <1>1, <1>18 DEF PushMaxReservedCsn, Goto, histVars
    <2>2. QED BY <1>1, <2>1 DEF NInv, Drawing
  <1>19. CASE SetMaxReservedCSNFails(t)
    <2>1. /\ pc[t] = "lock" /\ pc'[t] = "end" /\ \A u \in Thread \ {t} : pc'[u] = pc[u]
          /\ ctlCsn <= ctlCsn' /\ ctlCsn' \in Nat
          /\ \A u \in Thread \ {t} : newMax'[u] = newMax[u] /\ cur'[u] = cur[u]
          /\ UNCHANGED <<nextCsn, maxReservedCsn, issued>>
      BY <1>1, <1>19 DEF SetMaxReservedCSNFails, Goto
    <2>2. maxReservedCsn <= ctlCsn' /\ \A csn \in issued : csn <= ctlCsn'
      <3>1. maxReservedCsn <= ctlCsn /\ \A csn \in issued : csn \in Nat /\ csn <= ctlCsn BY ZenonT(60) DEF NInv
      <3>2. QED BY ONLY SMTT(60), <1>1, <2>1, <3>1
    <2>3. \A u \in Thread : pc'[u] \in Drawing => u # t /\ pc[u] \in Drawing
      BY ONLY ZenonT(60), <2>1 DEF Drawing
    <2>4. \A u \in Thread : pc'[u] = "written" => newMax'[u] <= ctlCsn'
      <3> SUFFICES ASSUME NEW u \in Thread, pc'[u] = "written" PROVE newMax'[u] <= ctlCsn'
        OBVIOUS
      <3>1. u # t /\ pc[u] = "written" /\ newMax'[u] = newMax[u] BY ZenonT(60), <2>1
      <3>2. newMax[u] <= ctlCsn /\ newMax[u] \in Nat BY ZenonT(60), <1>1, <3>1 DEF NInv
      <3>3. QED BY ONLY SMTT(60), <1>1, <2>1, <3>1, <3>2
    <2>5. \A u \in Thread : pc'[u] \in Drawing => cur'[u] < nextCsn' /\ cur'[u] \notin issued'
      BY ZenonT(60), <2>1, <2>3 DEF NInv
    <2>6. \A u, v \in Thread : u # v /\ pc'[u] \in Drawing /\ pc'[v] \in Drawing => cur'[u] # cur'[v]
      BY ZenonT(60), <2>1, <2>3 DEF NInv
    <2>7. issued' \subseteq Nat /\ \A csn \in issued' : csn <= ctlCsn' /\ csn < nextCsn'
      BY ZenonT(60), <2>1, <2>2 DEF NInv
    <2>8. QED BY ZenonT(60), <2>1, <2>2, <2>4, <2>5, <2>6, <2>7 DEF NInv
  <1>20. CASE Drawn(t)
    <2>1. /\ pc[t] = "wait" /\ pc'[t] = "end" /\ \A u \in Thread \ {t} : pc'[u] = pc[u]
          /\ cur[t] <= maxReservedCsn /\ issued' = issued \cup {cur[t]}
          /\ \A u \in Thread \ {t} : cur'[u] = cur[u]
          /\ UNCHANGED <<nextCsn, maxReservedCsn, ctlCsn, newMax>>
      BY SMTT(60), <1>1, <1>20 DEF Drawn, Goto, csnVars
    <2>2. cur[t] \in Nat /\ cur[t] <= ctlCsn /\ cur[t] < nextCsn
      <3>1. cur[t] < nextCsn /\ maxReservedCsn <= ctlCsn BY ZenonT(60), <2>1 DEF NInv, Drawing
      <3>2. cur[t] \in Nat BY ZenonT(60), <1>1
      <3>3. QED BY ONLY SMTT(60), <1>1, <2>1, <3>1, <3>2
    <2>3. \A csn \in issued' : csn \in Nat /\ csn <= ctlCsn /\ csn < nextCsn
      BY ZenonT(60), <2>1, <2>2 DEF NInv
    <2>4. \A u \in Thread : pc'[u] \in Drawing => u # t /\ pc[u] \in Drawing
      BY SMTT(60), <2>1 DEF Drawing
    <2>5. \A u \in Thread : pc'[u] \in Drawing => cur'[u] < nextCsn /\ cur'[u] \notin issued'
      BY <2>1, <2>4 DEF NInv, Drawing
    <2>6. QED BY ZenonT(60), <2>1, <2>3, <2>4, <2>5 DEF NInv
  <1>21. QED BY <1>2, <1>3, <1>4, <1>5, <1>6, <1>7, <1>8, <1>9, <1>10, <1>11, <1>12, <1>13, <1>14, <1>15, <1>16, <1>17, <1>18, <1>19, <1>20 DEF Statement, Step

\* HInv and NInv together are an invariant.
LEMMA NInvariant == Spec => [](Types /\ NInv)
  <1>1. Init => NInv
    BY DEF Init, NInv, Drawing, INVALID_CSN
  <1>2. Types /\ NInv /\ [Next]_vars => NInv'
    <2> SUFFICES ASSUME Types, NInv, [Next]_vars PROVE NInv'
      OBVIOUS
    <2>1. CASE \E t \in Thread : Statement(t) \/ Step(t) BY <2>1, NThreadStep
    <2>2. CASE UpdateLocalCsnMin \/ UpdateStep \/ UNCHANGED vars
      <3>1. UNCHANGED <<nextCsn, maxReservedCsn, ctlCsn, issued, pc, cur, newMax>>
        BY ZenonT(60), <2>2 DEF UpdateLocalCsnMin, UpdateStep, ScanThread, AdvanceLocalCsnMin, vars, csnVars, thrdVars, histVars
      <3>2. QED BY <3>1 DEF NInv
    <2>3. CASE Restart
      <3>1. /\ nextCsn' = ctlCsn + 1 /\ maxReservedCsn' = ctlCsn /\ UNCHANGED <<ctlCsn, issued>>
            /\ \A t \in Thread : pc'[t] = "none"
        BY <2>3 DEF Restart, FirstCsn
      <3>2. ctlCsn \in Nat BY DEF Types
      <3>3. QED BY <3>1, <3>2 DEF NInv, Drawing
    <2>4. QED BY <2>1, <2>2, <2>3 DEF Next
  <1>3. HInv => Types BY DEF HInv
  <1>4. QED BY HInvariant, <1>1, <1>2, <1>3, PTL DEF Spec

\* Every committed number lies within the bound on disk.
THEOREM IssuedOnDisk == Spec => []IssuedReserved
  <1>1. NInv => IssuedReserved BY DEF NInv, IssuedReserved
  <1>2. QED BY NInvariant, <1>1, PTL

\* No number is given to two commits, however often the node crashes.
THEOREM CsnUnique == Spec => NoCsnTwice
  <1>1. NInv => \A t \in Thread : pc[t] = "wait" /\ pc'[t] = "end" => cur[t] \notin issued
    BY SMTT(60) DEF NInv, Drawing
  <1>2. QED BY NInvariant, <1>1, PTL DEF NoCsnTwice

(***************************************************************************)
(* The CSN manager implements CsnHorizon.                                  *)
(***************************************************************************)
\* What is in use, before and after a step.
LEMMA InUseMember ==
  ASSUME NEW t \in Thread
  PROVE  /\ \A csn : csn \in InUse(t) <=>
              /\ csn # INVALID_CSN
              /\ \/ csn = snapshot[t]
                 \/ \E i \in DOMAIN cursors[t] : csn = cursors[t][i]
                 \/ csn = cur[t] /\ pc[t] = "read"
         /\ \A csn : csn \in InUse(t)' <=>
              /\ csn # INVALID_CSN
              /\ \/ csn = snapshot'[t]
                 \/ \E i \in DOMAIN cursors'[t] : csn = cursors'[t][i]
                 \/ csn = cur'[t] /\ pc'[t] = "read"
  BY SMTT(60) DEF InUse

\* Every action of a thread but two only drops snapshots.
LEMMA OnlyDrops ==
  ASSUME Types, NEW t \in Thread, ThreadInv(t), Statement(t) \/ Step(t),
         ~ReadNextCsn(t), ~GetNextCsn(t)
  PROVE  /\ InUse(t)' \subseteq InUse(t)
         /\ \A u \in Thread \ {t} : InUse(u)' = InUse(u)
         /\ UNCHANGED <<nextCsn, localCsnMin>>
  <1> DEFINE Others == \A u \in Thread \ {t} :
               pc'[u] = pc[u] /\ cur'[u] = cur[u] /\ snapshot'[u] = snapshot[u] /\ cursors'[u] = cursors[u]
             Frame == /\ Others /\ pc'[t] # "read" /\ (cursors'[t] = cursors[t] \/ cursors'[t] = <<>>)
                      /\ snapshot'[t] \in {snapshot[t], INVALID_CSN} /\ UNCHANGED <<nextCsn, localCsnMin>>
  <1>1. pc \in [Thread -> PC] /\ cur \in [Thread -> Nat] /\ snapshot \in [Thread -> Nat]
        /\ cursors \in [Thread -> Seq(Nat)]
    BY DEF Types
  <1>2. Others => \A u \in Thread \ {t} : InUse(u)' = InUse(u) BY ZenonT(60) DEF InUse
  <1>3. ASSUME Frame
        PROVE  /\ InUse(t)' \subseteq InUse(t)
               /\ \A u \in Thread \ {t} : InUse(u)' = InUse(u)
               /\ UNCHANGED <<nextCsn, localCsnMin>>
    <2>1. {cursors'[t][i] : i \in DOMAIN cursors'[t]} \subseteq {cursors[t][i] : i \in DOMAIN cursors[t]}
      <3>1. CASE cursors'[t] = cursors[t] BY ONLY ZenonT(60), <3>1
      <3>2. CASE cursors'[t] = <<>> BY ONLY ZenonT(60), <3>2, NoElements
      <3>3. QED BY ZenonT(60), <1>3, <3>1, <3>2
    <2>2. snapshot'[t] \in {snapshot[t], INVALID_CSN} /\ pc'[t] # "read" BY ZenonT(60), <1>3
    <2>3. InUse(t)' \subseteq InUse(t) BY ZenonT(60), <2>1, <2>2 DEF InUse
    <2>4. QED BY ONLY ZenonT(60), <1>2, <1>3, <2>3
  <1>4. CASE Start(t)
    <2>1. Frame BY SMTT(60), <1>1, <1>4 DEF Start, Goto, csnVars
    <2>2. QED BY ZenonT(60), <2>1, <1>3
  <1>5. CASE SetSnapshotCsn(t)
    <2>1. Frame BY SMTT(60), <1>1, <1>5 DEF SetSnapshotCsn, Goto, csnVars
    <2>2. QED BY ZenonT(60), <2>1, <1>3
  <1>6. CASE SetSnapshotCsnRefused(t)
    <2>1. Frame BY SMTT(60), <1>1, <1>6 DEF SetSnapshotCsnRefused, Goto, csnVars
    <2>2. QED BY <2>1, <1>3
  <1>7. CASE NextCommand(t)
    <2>1. Frame BY SMTT(60), <1>1, <1>7 DEF NextCommand, Goto, csnVars
    <2>2. QED BY <2>1, <1>3
  <1>8. CASE ResetSnapshotCsn(t)
    <2>1. Frame BY SMTT(60), <1>1, <1>8 DEF ResetSnapshotCsn, Goto, csnVars
    <2>2. QED BY <2>1, <1>3
  <1>9. CASE Commit(t)
    <2>1. Frame BY SMTT(60), <1>1, <1>9 DEF Commit, Goto, csnVars
    <2>2. QED BY <2>1, <1>3
  <1>10. CASE Abort(t)
    <2>1. Frame BY SMTT(60), <1>1, <1>10, CleanupResourceFrame DEF Abort, Goto, csnVars
    <2>2. QED BY <2>1, <1>3
  <1>11. CASE UpdateMaxReservedCsnIfNecessary(t)
    <2>1. Frame BY SMTT(60), <1>1, <1>11 DEF UpdateMaxReservedCsnIfNecessary, Goto, csnVars
    <2>2. QED BY <2>1, <1>3
  <1>12. CASE UpdateMaxReservedCsnRedundant(t)
    <2>1. Frame BY SMTT(60), <1>1, <1>12 DEF UpdateMaxReservedCsnRedundant, Goto, csnVars
    <2>2. QED BY <2>1, <1>3
  <1>13. CASE SetMaxReservedCSN(t)
    <2>1. Frame BY SMTT(60), <1>1, <1>13 DEF SetMaxReservedCSN, Goto, csnVars
    <2>2. QED BY <2>1, <1>3
  <1>14. CASE PushMaxReservedCsn(t)
    <2>1. Frame BY SMTT(60), <1>1, <1>14 DEF PushMaxReservedCsn, Goto, csnVars
    <2>2. QED BY <2>1, <1>3
  <1>15. CASE SetMaxReservedCSNFails(t)
    <2>1. Frame BY SMTT(60), <1>1, <1>15 DEF SetMaxReservedCSNFails, Goto, csnVars
    <2>2. QED BY <2>1, <1>3
  <1>16. CASE Drawn(t)
    <2>1. Frame BY SMTT(60), <1>1, <1>16 DEF Drawn, Goto, csnVars
    <2>2. QED BY <2>1, <1>3
  <1>17. CASE CommitEnds(t)
    <2>1. Frame BY SMTT(60), <1>1, <1>17, CleanupResourceFrame DEF CommitEnds, Goto, csnVars
    <2>2. QED BY <2>1, <1>3
  <1>18. CASE PublishSnapshot(t)
    <2>1. /\ pc[t] = "read" /\ pc'[t] = "txn" /\ snapshot'[t] = cur[t] /\ cursors'[t] = cursors[t]
          /\ Others /\ UNCHANGED <<nextCsn, localCsnMin>>
      BY SMTT(60), <1>1, <1>18 DEF PublishSnapshot, Goto, csnVars
    <2>2. QED BY ZenonT(60), <1>2, <2>1 DEF InUse
  <1>19. CASE AddCursorSnapshot(t)
    <2>1. /\ pc[t] = "txn" /\ UNCHANGED <<pc, snapshot, cur, nextCsn, localCsnMin>>
          /\ cursors'[t] = Append(cursors[t], snapshot[t]) /\ Others
      BY SMTT(60), <1>1, <1>19 DEF AddCursorSnapshot, Goto, csnVars
    <2>2. cursors[t] \in Seq(Nat) /\ snapshot[t] \in Nat BY SMTT(60), <1>1
    <2>3. \A i \in DOMAIN cursors'[t] :
            cursors'[t][i] = snapshot[t] \/ (i \in DOMAIN cursors[t] /\ cursors'[t][i] = cursors[t][i])
      <3>1. \A i \in DOMAIN Append(cursors[t], snapshot[t]) :
              \/ Append(cursors[t], snapshot[t])[i] = snapshot[t]
              \/ i \in DOMAIN cursors[t] /\ Append(cursors[t], snapshot[t])[i] = cursors[t][i]
        BY ONLY ZenonT(60), <2>2, AppendElements
      <3>2. QED BY ONLY ZenonT(60), <2>1, <3>1
    <2>4. InUse(t)' \subseteq InUse(t)
      <3> SUFFICES ASSUME NEW csn \in InUse(t)' PROVE csn \in InUse(t)
        BY SMTT(60)
      <3>1. /\ csn # INVALID_CSN
            /\ \/ csn = snapshot'[t]
               \/ \E j \in DOMAIN cursors'[t] : csn = cursors'[t][j]
               \/ csn = cur'[t] /\ pc'[t] = "read"
        BY ZenonT(60), InUseMember
      <3>2. snapshot'[t] = snapshot[t] /\ cur'[t] = cur[t] /\ pc'[t] = pc[t] BY Zenon, <2>1
      <3>3. \/ csn = snapshot[t]
            \/ \E j \in DOMAIN cursors[t] : csn = cursors[t][j]
            \/ csn = cur[t] /\ pc[t] = "read"
        BY ONLY ZenonT(60), <3>1, <3>2, <2>3
      <3>4. QED BY ZenonT(60), <3>1, <3>3, InUseMember
    <2>5. QED BY ZenonT(60), <1>2, <2>1, <2>4
  <1>20. CASE DeleteCursorSnapshot(t)
    <2>1. PICK i \in DOMAIN cursors[t] : cursors' = [cursors EXCEPT ![t] = Without(@, i)]
      BY ZenonT(60), <1>20 DEF DeleteCursorSnapshot
    <2>2. /\ UNCHANGED <<pc, snapshot, cur, nextCsn, localCsnMin>>
          /\ cursors'[t] = Without(cursors[t], i) /\ Others
      BY SMTT(60), <1>1, <1>20, <2>1 DEF DeleteCursorSnapshot, csnVars
    <2>3. \A j \in DOMAIN cursors'[t] : \E k \in DOMAIN cursors[t] : cursors'[t][j] = cursors[t][k]
      <3>1. cursors[t] \in Seq(Nat) BY SMTT(60), <1>1
      <3>2. QED BY ONLY SMTT(60), <2>1, <2>2, <3>1, WithoutType
    <2>4. InUse(t)' \subseteq InUse(t)
      <3> SUFFICES ASSUME NEW csn \in InUse(t)' PROVE csn \in InUse(t)
        BY SMTT(60)
      <3>1. /\ csn # INVALID_CSN
            /\ \/ csn = snapshot'[t]
               \/ \E j \in DOMAIN cursors'[t] : csn = cursors'[t][j]
               \/ csn = cur'[t] /\ pc'[t] = "read"
        BY ZenonT(60), InUseMember
      <3>2. snapshot'[t] = snapshot[t] /\ cur'[t] = cur[t] /\ pc'[t] = pc[t] BY Zenon, <2>2
      <3>3. \/ csn = snapshot[t]
            \/ \E j \in DOMAIN cursors[t] : csn = cursors[t][j]
            \/ csn = cur[t] /\ pc[t] = "read"
        BY ONLY ZenonT(60), <3>1, <3>2, <2>3
      <3>4. QED BY ZenonT(60), <3>1, <3>3, InUseMember
    <2>5. QED BY Zenon, <1>2, <2>2, <2>4
  <1>21. CASE DeleteAllCursorSnapshots(t)
    <2>1. Frame BY SMTT(60), <1>1, <1>21 DEF DeleteAllCursorSnapshots, csnVars
    <2>2. QED BY <2>1, <1>3
  <1>22. QED
    BY Zenon, <1>4, <1>5, <1>6, <1>7, <1>8, <1>9, <1>10, <1>11, <1>12, <1>13, <1>14, <1>15, <1>16, <1>17,
       <1>18, <1>19, <1>20, <1>21 DEF Statement, Step

\* One step of the manager is one step of CsnHorizon, or none.
LEMMA HorizonStep ==
  ASSUME HInv, [Next]_vars
  PROVE  [Horizon!Next]_(Horizon!hvars)
  <1> DEFINE inUse == [t \in Thread |-> InUse(t)]
  <1>1. Types /\ \A t \in Thread : ThreadInv(t) BY DEF HInv
  <1>2. ASSUME NEW t \in Thread, Statement(t) \/ Step(t), ~ReadNextCsn(t), ~GetNextCsn(t)
        PROVE  Horizon!DropSnapshots(t)
    <2>1. /\ InUse(t)' \subseteq InUse(t)
          /\ \A u \in Thread \ {t} : InUse(u)' = InUse(u)
          /\ UNCHANGED <<nextCsn, localCsnMin>>
      BY <1>1, <1>2, OnlyDrops
    <2>2. inUse' = [inUse EXCEPT ![t] = InUse(t)'] BY ZenonT(60), <2>1
    <2>3. InUse(t)' \in SUBSET inUse[t] BY SMTT(60), <2>1
    <2>4. QED BY ZenonT(60), <2>1, <2>2, <2>3 DEF Horizon!DropSnapshots
  <1>3. ASSUME NEW t \in Thread, ReadNextCsn(t)
        PROVE  Horizon!TakeSnapshot(t)
    <2>1. /\ pc[t] = "announced" /\ pc'[t] = "read" /\ cur'[t] = nextCsn /\ nextCsn # INVALID_CSN
          /\ \A u \in Thread \ {t} : pc'[u] = pc[u] /\ cur'[u] = cur[u]
          /\ UNCHANGED <<nextCsn, localCsnMin, snapshot, cursors>>
      BY SMTT(60), <1>1, <1>3 DEF ReadNextCsn, Goto, Types, csnVars
    <2>2. InUse(t)' = InUse(t) \cup {nextCsn} /\ \A u \in Thread \ {t} : InUse(u)' = InUse(u)
      BY <2>1 DEF InUse
    <2>3. inUse' = [inUse EXCEPT ![t] = @ \cup {nextCsn}] BY ZenonT(60), <2>2
    <2>4. QED BY SMTT(60), <2>1, <2>3 DEF Horizon!TakeSnapshot
  <1>4. ASSUME NEW t \in Thread, GetNextCsn(t)
        PROVE  Horizon!IssueCsn
    <2>1. /\ pc[t] = "commit" /\ pc'[t] \in {"reserve", "wait"} /\ nextCsn' = nextCsn + 1
          /\ \A u \in Thread \ {t} : pc'[u] = pc[u] /\ cur'[u] = cur[u]
          /\ UNCHANGED <<localCsnMin, snapshot, cursors>>
      BY <1>1, <1>4 DEF GetNextCsn, Goto, Types
    <2>2. \A u \in Thread : InUse(u)' = InUse(u) BY ZenonT(60), <2>1 DEF InUse
    <2>3. inUse' = inUse BY <2>2
    <2>4. QED BY SMTT(60), <2>1, <2>3 DEF Horizon!IssueCsn
  <1>5. CASE \E t \in Thread : Statement(t) \/ Step(t)
    BY <1>2, <1>3, <1>4, <1>5 DEF Horizon!Next
  <1>6. CASE UpdateLocalCsnMin \/ (\E t \in Thread : ScanThread(t)) \/ UNCHANGED vars
    <2>1. UNCHANGED <<nextCsn, localCsnMin, snapshot, cursors, pc, cur>>
      BY ZenonT(60), <1>6 DEF UpdateLocalCsnMin, ScanThread, vars, csnVars, thrdVars
    <2>2. \A u \in Thread : InUse(u)' = InUse(u) BY <2>1 DEF InUse
    <2>3. inUse' = inUse BY <2>2
    <2>4. QED BY <2>1, <2>3 DEF Horizon!hvars
  <1>7. CASE AdvanceLocalCsnMin
    <2>1. /\ scan.on /\ scan.left = {} /\ localCsnMin' = NewLocalCsnMin
          /\ UNCHANGED <<nextCsn, snapshot, cursors, pc, cur>>
      BY SMTT(60), <1>1, <1>7 DEF AdvanceLocalCsnMin, csnVars, thrdVars
    <2>2. \A u \in Thread : InUse(u)' = InUse(u) BY SMTT(60), <2>1 DEF InUse
    <2>3. inUse' = inUse BY <2>2
    <2>4. localCsnMin' \in localCsnMin..nextCsn BY SMTT(60), <1>1, <2>1, NewHorizon DEF Types
    <2>5. \A t \in Thread : \A csn \in inUse[t] : localCsnMin' <= csn BY SMTT(60), <2>1, NewHorizon DEF Covers
    <2>6. Horizon!AdvanceHorizon BY <2>1, <2>3, <2>4, <2>5 DEF Horizon!AdvanceHorizon
    <2>7. QED BY SMTT(60), <2>6 DEF Horizon!Next
  <1>8. CASE Restart
    <2>1. \A t \in Thread : InUse(t)' = {} BY <1>8 DEF Restart, InUse
    <2>2. inUse' = [t \in Thread |-> {}] BY <2>1
    <2>3. nextCsn' \in Nat /\ localCsnMin' = nextCsn' BY <1>1, <1>8 DEF Restart, FirstCsn, Types
    <2>4. Horizon!Restart BY <2>2, <2>3 DEF Horizon!Restart
    <2>5. QED BY <2>4 DEF Horizon!Next
  <1>9. QED BY <1>5, <1>6, <1>7, <1>8 DEF Next, UpdateStep

\* The CSN manager keeps CsnHorizon's promise, for any number of threads and any
\* block size.
THEOREM HorizonImplemented == Spec => HorizonKept
  <1>1. Init => Horizon!Init
    BY DEF Init, Horizon!Init, InUse, FirstCsn, INVALID_CSN
  <1>2. HInv /\ [Next]_vars => [Horizon!Next]_(Horizon!hvars) BY HorizonStep
  <1>3. QED BY HInvariant, <1>1, <1>2, PTL DEF Spec, HorizonKept, Horizon!Spec

(***************************************************************************)
(* The bound.  Bounds are multiples of Increment and the number that sends *)
(* its thread pushing is the first above one.  So while the latest number  *)
(* lies above the bound, the first number of its block, or of a later one, *)
(* is with a thread that has still to push.                                *)
(***************************************************************************)
Multiple(csn) == \E k \in Nat : csn = k * Increment
First(csn) == \E k \in Nat : csn = k * Increment + 1

Pushing == {"reserve", "lock", "written"}

LockRight ==
  /\ reserveLock \in {NoOne} \cup {<<t>> : t \in Thread}
  /\ \A t \in Thread : reserveLock = <<t>> <=> pc[t] = "written"

PushInv(t) ==
  /\ pc[t] \in Pushing => First(cur[t])
  /\ pc[t] \in {"lock", "written"} => Multiple(newMax[t]) /\ newMax[t] >= cur[t] + Increment
  /\ pc[t] = "written" => newMax[t] > maxReservedCsn

\* Somebody pushes for the latest number drawn.
LatestPushed ==
  ~writeFailed /\ nextCsn > maxReservedCsn + 1 =>
    \E u \in Thread : pc[u] \in Pushing /\ nextCsn <= cur[u] + Increment

PInv ==
  /\ writeFailed \in BOOLEAN
  /\ Multiple(maxReservedCsn) /\ Multiple(ctlCsn)
  /\ LockRight
  /\ \A t \in Thread : PushInv(t)
  /\ LatestPushed

\* Division with remainder.
LEMMA Division ==
  /\ \A n \in Nat : /\ n = (n \div Increment) * Increment + (n % Increment)
                    /\ n \div Increment \in Nat /\ n % Increment \in 0..(Increment - 1)
  /\ \A k, j \in Nat, r, q \in 0..(Increment - 1) :
       k * Increment + r = j * Increment + q => r = q
  BY CsnAssumption

\* FirstOfBlock tells the numbers just above a multiple.
LEMMA FirstOfBlockRight == \A n \in Nat : FirstOfBlock(n) <=> First(n)
  <1> TAKE n \in Nat
  <1>1. /\ n = (n \div Increment) * Increment + (n % Increment)
        /\ n \div Increment \in Nat /\ n % Increment \in 0..(Increment - 1)
    BY Division
  <1>2. ASSUME First(n) PROVE FirstOfBlock(n)
    <2>1. PICK k \in Nat : n = k * Increment + 1 BY <1>2 DEF First
    <2>2. 1 \in 0..(Increment - 1) BY CsnAssumption
    <2>3. n % Increment = 1 BY <1>1, <2>1, <2>2, Division
    <2>4. QED BY <2>3 DEF FirstOfBlock, FIRST_NORMAL
  <1>3. ASSUME FirstOfBlock(n) PROVE First(n)
    BY <1>1, <1>3 DEF First, FirstOfBlock, FIRST_NORMAL
  <1>4. QED BY <1>2, <1>3

\* The next multiple, and the next first number.
LEMMA NextBlock ==
  /\ \A n \in Nat : Multiple(n) => Multiple(n + Increment) /\ First(n + 1)
  /\ \A n \in Nat : First(n) => First(n + Increment)
  <1>1. \A k \in Nat : k * Increment + Increment = (k + 1) * Increment /\ k + 1 \in Nat /\ k * Increment \in Nat
    BY CsnAssumption
  <1>2. ASSUME NEW n \in Nat, Multiple(n) PROVE Multiple(n + Increment) /\ First(n + 1)
    BY <1>1, <1>2 DEF Multiple, First
  <1>3. ASSUME NEW n \in Nat, First(n) PROVE First(n + Increment)
    <2>1. PICK k \in Nat : n = k * Increment + 1 BY <1>3 DEF First
    <2>2. n + Increment = (k + 1) * Increment + 1 BY <1>1, <2>1, CsnAssumption
    <2>3. QED BY <1>1, <2>2 DEF First
  <1>4. QED BY <1>2, <1>3

\* The bound a push asks for is a block above the number it is for.
LEMMA PushedRight ==
  ASSUME NEW old \in Nat, NEW csn \in Nat, Multiple(old), Pushed(old, csn) > old
  PROVE  Multiple(Pushed(old, csn)) /\ Pushed(old, csn) >= csn + Increment
  <1>0. Increment \in Nat /\ Increment >= 2 BY CsnAssumption
  <1>1. CASE old <= csn
    <2>1. /\ csn = (csn \div Increment) * Increment + (csn % Increment)
          /\ csn \div Increment \in Nat /\ csn % Increment \in 0..(Increment - 1)
      BY Division
    <2>2. /\ (csn \div Increment + 1) * Increment + Increment = (csn \div Increment + 2) * Increment
          /\ (csn \div Increment + 2) * Increment >= csn + Increment
      BY <1>0, <2>1
    <2>3. Pushed(old, csn) = (csn \div Increment + 2) * Increment BY <1>1, <2>2 DEF Pushed
    <2>4. csn \div Increment + 2 \in Nat BY <2>1
    <2>5. QED BY <2>2, <2>3, <2>4 DEF Multiple
  <1>2. CASE ~ (old <= csn)
    <2>1. Pushed(old, csn) = old + Increment BY <1>0, <1>2 DEF Pushed
    <2>2. QED BY <1>0, <1>2, <2>1, NextBlock
  <1>3. QED BY <1>1, <1>2

\* A push that asks for nothing new has the bound a block above its number.
LEMMA PushedNothing ==
  ASSUME NEW old \in Nat, NEW csn \in Nat, ~ (Pushed(old, csn) > old)
  PROVE  csn + Increment < old
  <1>0. Increment \in Nat /\ Increment >= 2 BY CsnAssumption
  <1>1. CASE old <= csn
    <2>1. /\ csn = (csn \div Increment) * Increment + (csn % Increment)
          /\ csn \div Increment \in Nat /\ csn % Increment \in 0..(Increment - 1)
      BY Division
    <2>2. (csn \div Increment + 1) * Increment + Increment >= csn + Increment BY <1>0, <2>1
    <2>3. (csn \div Increment + 1) * Increment + Increment > old BY <1>0, <1>1, <2>1, <2>2
    <2>4. QED BY <1>1, <2>3 DEF Pushed
  <1>2. CASE ~ (old <= csn) BY <1>0, <1>2 DEF Pushed
  <1>3. QED BY <1>1, <1>2

\* A step of thread t that neither draws a number nor pushes.
Quiet(t) ==
  /\ pc[t] \notin Pushing /\ pc'[t] \notin Pushing
  /\ \A u \in Thread \ {t} : pc'[u] = pc[u] /\ cur'[u] = cur[u] /\ newMax'[u] = newMax[u]
  /\ UNCHANGED <<nextCsn, maxReservedCsn, ctlCsn, reserveLock, writeFailed>>

\* Such a step keeps PInv.
LEMMA QuietStep ==
  ASSUME PInv, NEW t \in Thread, Quiet(t)
  PROVE  PInv'
  <1>1. LockRight'
    <2>1. pc[t] # "written" /\ pc'[t] # "written" BY Zenon DEF Quiet, Pushing
    <2>2. \A u \in Thread : pc'[u] = "written" <=> pc[u] = "written" BY Zenon, <2>1 DEF Quiet
    <2>3. QED BY Zenon, <2>2 DEF LockRight, PInv, Quiet
  <1>2. \A u \in Thread : PushInv(u)'
    <2> SUFFICES ASSUME NEW u \in Thread PROVE PushInv(u)'
      OBVIOUS
    <2>1. CASE u = t BY Zenon, <2>1 DEF PushInv, Quiet, Pushing
    <2>2. CASE u # t BY ZenonT(40), <2>2 DEF PushInv, Quiet, PInv, First, Multiple
    <2>3. QED BY <2>1, <2>2
  <1>3. LatestPushed' BY Zenon DEF LatestPushed, Quiet, PInv
  <1>4. QED BY Zenon, <1>1, <1>2, <1>3 DEF PInv, Quiet, Multiple

\* The actions of a thread that are not about drawing a number.
LEMMA QuietActions ==
  ASSUME Types, NEW t \in Thread,
         Statement(t) \/ ReadNextCsn(t) \/ PublishSnapshot(t) \/ Drawn(t) \/ CommitEnds(t)
  PROVE  Quiet(t)
  <1>1. pc \in [Thread -> PC] /\ cur \in [Thread -> Nat] /\ newMax \in [Thread -> Nat] BY DEF Types
  <1> USE DEF Quiet, Pushing, Goto, csnVars, histVars
  <1>2. CASE Start(t) BY <1>1, <1>2 DEF Start
  <1>3. CASE SetSnapshotCsn(t) BY <1>1, <1>3 DEF SetSnapshotCsn
  <1>4. CASE SetSnapshotCsnRefused(t) BY <1>1, <1>4 DEF SetSnapshotCsnRefused
  <1>5. CASE NextCommand(t) BY <1>1, <1>5 DEF NextCommand
  <1>6. CASE ResetSnapshotCsn(t) BY <1>1, <1>6 DEF ResetSnapshotCsn
  <1>7. CASE AddCursorSnapshot(t) BY <1>1, <1>7 DEF AddCursorSnapshot
  <1>8. CASE DeleteCursorSnapshot(t) BY <1>1, <1>8 DEF DeleteCursorSnapshot
  <1>9. CASE DeleteAllCursorSnapshots(t) BY <1>1, <1>9 DEF DeleteAllCursorSnapshots
  <1>10. CASE Commit(t) BY <1>1, <1>10 DEF Commit
  <1>11. CASE Abort(t) BY <1>1, <1>11 DEF Abort
  <1>12. CASE ReadNextCsn(t) BY <1>1, <1>12 DEF ReadNextCsn
  <1>13. CASE PublishSnapshot(t) BY <1>1, <1>13 DEF PublishSnapshot
  <1>14. CASE Drawn(t) BY <1>1, <1>14 DEF Drawn
  <1>15. CASE CommitEnds(t) BY <1>1, <1>15 DEF CommitEnds
  <1>16. QED BY Zenon, <1>2, <1>3, <1>4, <1>5, <1>6, <1>7, <1>8, <1>9, <1>10, <1>11, <1>12, <1>13, <1>14,
                <1>15 DEF Statement

\* A number is drawn: it is the first above the bound or above a block, and its
\* thread pushes, or the one that pushes for the number before pushes for it too.
LEMMA DrawStep ==
  ASSUME Types, PInv, NEW t \in Thread, GetNextCsn(t)
  PROVE  PInv'
  <1>1. /\ nextCsn \in Nat /\ maxReservedCsn \in Nat /\ pc \in [Thread -> PC] /\ cur \in [Thread -> Nat]
    BY DEF Types
  <1>2. /\ pc[t] = "commit" /\ pc'[t] = (IF First(nextCsn) THEN "reserve" ELSE "wait")
        /\ cur'[t] = nextCsn /\ nextCsn' = nextCsn + 1
        /\ \A u \in Thread \ {t} : pc'[u] = pc[u] /\ cur'[u] = cur[u]
        /\ UNCHANGED <<maxReservedCsn, ctlCsn, reserveLock, newMax, writeFailed>>
    BY <1>1, FirstOfBlockRight DEF GetNextCsn, Goto, histVars
  <1>3. LockRight'
    <2>1. \A u \in Thread : pc'[u] = "written" <=> pc[u] = "written" BY <1>2
    <2>2. QED BY Zenon, <1>2, <2>1 DEF LockRight, PInv
  <1>4. \A u \in Thread : PushInv(u)'
    <2> SUFFICES ASSUME NEW u \in Thread PROVE PushInv(u)'
      OBVIOUS
    <2>1. CASE u = t
      <3>1. pc'[t] \in Pushing => First(cur[t])' BY <1>2 DEF Pushing, First
      <3>2. pc'[t] \notin {"lock", "written"} BY <1>2
      <3>3. QED BY Zenon, <2>1, <3>1, <3>2 DEF PushInv
    <2>2. CASE u # t BY Zenon, <1>2, <2>2 DEF PushInv, PInv, First, Multiple
    <2>3. QED BY <2>1, <2>2
  <1>5. LatestPushed'
    <2> SUFFICES ASSUME ~ writeFailed, nextCsn > maxReservedCsn
                 PROVE  \E u \in Thread : pc'[u] \in Pushing /\ nextCsn + 1 <= cur'[u] + Increment
      BY <1>1, <1>2 DEF LatestPushed
    <2>0. Increment \in Nat /\ Increment >= 2 BY CsnAssumption
    <2>1. CASE First(nextCsn) BY <1>1, <1>2, <2>0, <2>1 DEF Pushing
    <2>2. CASE ~ First(nextCsn)
      <3>1. First(maxReservedCsn + 1) BY <1>1, NextBlock DEF PInv
      <3>2. nextCsn > maxReservedCsn + 1 BY <1>1, <2>2, <3>1
      <3>3. PICK u \in Thread : pc[u] \in Pushing /\ nextCsn <= cur[u] + Increment
        BY Zenon, <3>2 DEF PInv, LatestPushed
      <3>4. First(cur[u] + Increment) BY <1>1, <3>3, NextBlock DEF PInv, PushInv
      <3>5. nextCsn + 1 <= cur[u] + Increment BY <1>1, <2>0, <2>2, <3>3, <3>4
      <3>6. u # t BY <1>2, <3>3 DEF Pushing
      <3>7. QED BY <1>2, <3>3, <3>5, <3>6
    <2>3. QED BY <2>1, <2>2
  <1>6. QED BY Zenon, <1>2, <1>3, <1>4, <1>5 DEF PInv, Multiple

\* The bound is asked for, or found to be far enough.
LEMMA AskStep ==
  ASSUME Types, PInv, NEW t \in Thread, UpdateMaxReservedCsnIfNecessary(t)
  PROVE  PInv'
  <1> DEFINE asked == Pushed(maxReservedCsn, cur[t])
  <1>0. Increment \in Nat /\ Increment >= 2 BY CsnAssumption
  <1>1. /\ nextCsn \in Nat /\ maxReservedCsn \in Nat /\ pc \in [Thread -> PC] /\ cur \in [Thread -> Nat]
        /\ newMax \in [Thread -> Nat]
    BY DEF Types
  <1>2. /\ pc[t] = "reserve" /\ pc'[t] = (IF asked > maxReservedCsn THEN "lock" ELSE "wait")
        /\ asked > maxReservedCsn => newMax'[t] = asked
        /\ \A u \in Thread \ {t} : pc'[u] = pc[u] /\ newMax'[u] = newMax[u]
        /\ UNCHANGED <<nextCsn, maxReservedCsn, ctlCsn, reserveLock, cur, writeFailed>>
    BY <1>1 DEF UpdateMaxReservedCsnIfNecessary, Goto, csnVars, histVars
  <1>3. LockRight'
    <2>1. \A u \in Thread : pc'[u] = "written" <=> pc[u] = "written" BY <1>2
    <2>2. QED BY Zenon, <1>2, <2>1 DEF LockRight, PInv
  <1>4. \A u \in Thread : PushInv(u)'
    <2> SUFFICES ASSUME NEW u \in Thread PROVE PushInv(u)'
      OBVIOUS
    <2>1. CASE u = t
      <3>1. First(cur[t])' BY Zenon, <1>2 DEF PInv, PushInv, Pushing, First
      <3>2. asked > maxReservedCsn => Multiple(asked) /\ asked >= cur[t] + Increment
        BY SMTT(20), <1>1, PushedRight DEF PInv
      <3>3. pc'[t] \in {"lock", "written"} => asked > maxReservedCsn /\ pc'[t] # "written" BY <1>2
      <3>4. pc'[t] # "written" BY <1>2
      <3>5. QED BY Zenon, <1>2, <2>1, <3>1, <3>2, <3>3, <3>4 DEF PushInv, Multiple
    <2>2. CASE u # t BY Zenon, <1>2, <2>2 DEF PushInv, PInv, First, Multiple
    <2>3. QED BY <2>1, <2>2
  <1>5. LatestPushed'
    <2> SUFFICES ASSUME ~ writeFailed, nextCsn > maxReservedCsn + 1
                 PROVE  \E u \in Thread : pc'[u] \in Pushing /\ nextCsn <= cur[u] + Increment
      BY Zenon, <1>2 DEF LatestPushed
    <2>1. PICK u \in Thread : pc[u] \in Pushing /\ nextCsn <= cur[u] + Increment
      BY Zenon DEF PInv, LatestPushed
    <2>2. CASE u # t BY Zenon, <1>2, <2>1, <2>2
    <2>3. CASE u = t
      <3>1. asked > maxReservedCsn
        <4>1. SUFFICES ASSUME ~ (asked > maxReservedCsn) PROVE FALSE OBVIOUS
        <4>2. cur[t] + Increment < maxReservedCsn BY <1>1, <4>1, PushedNothing
        <4>3. cur[t] \in Nat BY <1>1
        <4>4. QED BY <1>0, <1>1, <2>1, <2>3, <4>2, <4>3
      <3>2. QED BY <1>2, <2>1, <2>3, <3>1 DEF Pushing
    <2>4. QED BY <2>2, <2>3
  <1>6. QED BY Zenon, <1>2, <1>3, <1>4, <1>5 DEF PInv, Multiple

\* Somebody else has pushed the bound to where this push would.
LEMMA RedundantStep ==
  ASSUME Types, PInv, NEW t \in Thread, UpdateMaxReservedCsnRedundant(t)
  PROVE  PInv'
  <1>0. Increment \in Nat /\ Increment >= 2 BY CsnAssumption
  <1>1. /\ nextCsn \in Nat /\ maxReservedCsn \in Nat /\ pc \in [Thread -> PC] /\ cur \in [Thread -> Nat]
        /\ newMax \in [Thread -> Nat]
    BY DEF Types
  <1>2. /\ pc[t] = "lock" /\ pc'[t] = "wait" /\ newMax[t] <= maxReservedCsn
        /\ \A u \in Thread \ {t} : pc'[u] = pc[u] /\ newMax'[u] = newMax[u]
        /\ UNCHANGED <<nextCsn, maxReservedCsn, ctlCsn, reserveLock, cur, writeFailed>>
    BY <1>1 DEF UpdateMaxReservedCsnRedundant, Goto, csnVars, histVars
  <1>3. LockRight'
    <2>1. \A u \in Thread : pc'[u] = "written" <=> pc[u] = "written" BY <1>2
    <2>2. QED BY Zenon, <1>2, <2>1 DEF LockRight, PInv
  <1>4. \A u \in Thread : PushInv(u)'
    <2> SUFFICES ASSUME NEW u \in Thread PROVE PushInv(u)'
      OBVIOUS
    <2>1. CASE u = t BY <1>2, <2>1 DEF PushInv, Pushing
    <2>2. CASE u # t BY Zenon, <1>2, <2>2 DEF PushInv, PInv, First, Multiple
    <2>3. QED BY <2>1, <2>2
  <1>5. LatestPushed'
    <2> SUFFICES ASSUME ~ writeFailed, nextCsn > maxReservedCsn + 1
                 PROVE  \E u \in Thread : pc'[u] \in Pushing /\ nextCsn <= cur[u] + Increment
      BY Zenon, <1>2 DEF LatestPushed
    <2>1. PICK u \in Thread : pc[u] \in Pushing /\ nextCsn <= cur[u] + Increment
      BY Zenon DEF PInv, LatestPushed
    <2>2. u # t
      <3>1. newMax[t] >= cur[t] + Increment BY Zenon, <1>2 DEF PInv, PushInv
      <3>2. cur[t] \in Nat /\ newMax[t] \in Nat BY <1>1
      <3>3. ~ (nextCsn <= cur[t] + Increment) BY <1>0, <1>1, <1>2, <3>1, <3>2
      <3>4. QED BY <2>1, <3>3
    <2>3. QED BY Zenon, <1>2, <2>1, <2>2
  <1>6. QED BY Zenon, <1>2, <1>3, <1>4, <1>5 DEF PInv, Multiple

\* The bound is written; m_maxReservedCsnLock stays held.
LEMMA WriteStep ==
  ASSUME Types, PInv, NEW t \in Thread, SetMaxReservedCSN(t)
  PROVE  PInv'
  <1>1. /\ nextCsn \in Nat /\ maxReservedCsn \in Nat /\ ctlCsn \in Nat /\ pc \in [Thread -> PC]
        /\ cur \in [Thread -> Nat] /\ newMax \in [Thread -> Nat] /\ Increment \in Nat
    BY CsnAssumption DEF Types
  <1>2. /\ pc[t] = "lock" /\ pc'[t] = "written" /\ reserveLock = NoOne /\ reserveLock' = <<t>>
        /\ newMax[t] > maxReservedCsn
        /\ newMax'[t] = (IF newMax[t] <= ctlCsn THEN ctlCsn ELSE newMax[t]) /\ ctlCsn' = newMax'[t]
        /\ \A u \in Thread \ {t} : pc'[u] = pc[u] /\ newMax'[u] = newMax[u]
        /\ UNCHANGED <<nextCsn, maxReservedCsn, cur, writeFailed>>
    BY <1>1 DEF SetMaxReservedCSN, Goto, histVars
  <1>3. LockRight'
    <2>1. \A u \in Thread : pc[u] # "written" BY <1>2 DEF PInv, LockRight, NoOne
    <2>2. \A u \in Thread : <<t>> = <<u>> <=> u = t OBVIOUS
    <2>3. \A u \in Thread : pc'[u] = "written" <=> u = t BY Zenon, <1>2, <2>1
    <2>4. QED BY <1>2, <2>2, <2>3 DEF LockRight
  <1>4. /\ Multiple(newMax[t]) /\ newMax[t] >= cur[t] + Increment /\ First(cur[t]) /\ Multiple(ctlCsn)
    BY Zenon, <1>2 DEF PInv, PushInv, Pushing
  <1>5. Multiple(newMax'[t]) /\ newMax'[t] >= cur[t] + Increment /\ newMax'[t] > maxReservedCsn
    <2>1. newMax[t] \in Nat /\ cur[t] \in Nat BY <1>1
    <2>2. CASE newMax[t] <= ctlCsn
      <3>1. newMax'[t] = ctlCsn BY <1>2, <2>2
      <3>2. ctlCsn >= cur[t] + Increment /\ ctlCsn > maxReservedCsn BY <1>1, <1>2, <1>4, <2>1, <2>2
      <3>3. QED BY Zenon, <1>4, <3>1, <3>2
    <2>3. CASE ~ (newMax[t] <= ctlCsn)
      <3>1. newMax'[t] = newMax[t] BY <1>2, <2>3
      <3>2. QED BY Zenon, <1>2, <1>4, <3>1
    <2>4. QED BY <2>2, <2>3
  <1>6. \A u \in Thread : PushInv(u)'
    <2> SUFFICES ASSUME NEW u \in Thread PROVE PushInv(u)'
      OBVIOUS
    <2>1. CASE u = t BY Zenon, <1>2, <1>4, <1>5, <2>1 DEF PushInv, First, Multiple
    <2>2. CASE u # t BY Zenon, <1>2, <2>2 DEF PushInv, PInv, First, Multiple
    <2>3. QED BY <2>1, <2>2
  <1>7. LatestPushed'
    <2>1. \A u \in Thread : pc[u] \in Pushing => pc'[u] \in Pushing BY Zenon, <1>2 DEF Pushing
    <2>2. QED BY Zenon, <1>2, <2>1 DEF LatestPushed, PInv
  <1>8. QED BY Zenon, <1>2, <1>3, <1>5, <1>6, <1>7 DEF PInv, Multiple

\* The bound is pushed in memory: it grows, and is past the number it is for.
LEMMA BoundStep ==
  ASSUME Types, PInv, NEW t \in Thread, PushMaxReservedCsn(t)
  PROVE  PInv'
  <1>1. /\ nextCsn \in Nat /\ maxReservedCsn \in Nat /\ pc \in [Thread -> PC]
        /\ cur \in [Thread -> Nat] /\ newMax \in [Thread -> Nat] /\ Increment \in Nat
    BY CsnAssumption DEF Types
  <1>2. /\ pc[t] = "written" /\ pc'[t] = "wait" /\ reserveLock' = NoOne /\ maxReservedCsn' = newMax[t]
        /\ \A u \in Thread \ {t} : pc'[u] = pc[u] /\ newMax'[u] = newMax[u]
        /\ UNCHANGED <<nextCsn, ctlCsn, cur, writeFailed>>
    BY <1>1 DEF PushMaxReservedCsn, Goto, histVars
  <1>3. \A u \in Thread : pc'[u] # "written"
    <2> SUFFICES ASSUME NEW u \in Thread, u # t PROVE pc[u] # "written"
      BY <1>2
    <2>1. reserveLock = <<t>> BY Zenon, <1>2 DEF PInv, LockRight
    <2>2. <<t>> # <<u>> OBVIOUS
    <2>3. QED BY Zenon, <2>1, <2>2 DEF PInv, LockRight
  <1>4. LockRight' BY <1>2, <1>3 DEF LockRight, NoOne
  <1>5. Multiple(newMax[t]) /\ newMax[t] >= cur[t] + Increment /\ newMax[t] > maxReservedCsn
    BY Zenon, <1>2 DEF PInv, PushInv
  <1>6. \A u \in Thread : PushInv(u)'
    <2> SUFFICES ASSUME NEW u \in Thread PROVE PushInv(u)'
      OBVIOUS
    <2>1. CASE u = t BY <1>2, <2>1 DEF PushInv, Pushing
    <2>2. CASE u # t BY Zenon, <1>2, <1>3, <2>2 DEF PushInv, PInv, First, Multiple
    <2>3. QED BY <2>1, <2>2
  <1>7. LatestPushed'
    <2> SUFFICES ASSUME ~ writeFailed, nextCsn > newMax[t] + 1
                 PROVE  \E u \in Thread : pc'[u] \in Pushing /\ nextCsn <= cur[u] + Increment
      BY Zenon, <1>2 DEF LatestPushed
    <2>0. newMax[t] \in Nat /\ cur[t] \in Nat BY <1>1
    <2>1. nextCsn > maxReservedCsn + 1 BY <1>1, <1>5, <2>0
    <2>2. PICK u \in Thread : pc[u] \in Pushing /\ nextCsn <= cur[u] + Increment
      BY Zenon, <2>1 DEF PInv, LatestPushed
    <2>3. ~ (nextCsn <= cur[t] + Increment) BY <1>1, <1>5, <2>0
    <2>4. QED BY Zenon, <1>2, <2>2, <2>3
  <1>8. QED BY Zenon, <1>2, <1>4, <1>5, <1>6, <1>7 DEF PInv, Multiple

\* The write fails; the value may have reached the disk all the same.
LEMMA FailStep ==
  ASSUME Types, PInv, NEW t \in Thread, SetMaxReservedCSNFails(t)
  PROVE  PInv'
  <1>1. pc \in [Thread -> PC] /\ cur \in [Thread -> Nat] /\ newMax \in [Thread -> Nat] BY DEF Types
  <1>2. /\ pc[t] = "lock" /\ pc'[t] = "end" /\ writeFailed' = TRUE
        /\ ctlCsn' = ctlCsn \/ ctlCsn' = newMax[t]
        /\ \A u \in Thread \ {t} : pc'[u] = pc[u] /\ newMax'[u] = newMax[u] /\ cur'[u] = cur[u]
        /\ UNCHANGED <<nextCsn, maxReservedCsn, reserveLock>>
    BY <1>1 DEF SetMaxReservedCSNFails, Goto
  <1>3. LockRight'
    <2>1. \A u \in Thread : pc'[u] = "written" <=> pc[u] = "written" BY <1>2
    <2>2. QED BY Zenon, <1>2, <2>1 DEF LockRight, PInv
  <1>4. \A u \in Thread : PushInv(u)'
    <2> SUFFICES ASSUME NEW u \in Thread PROVE PushInv(u)'
      OBVIOUS
    <2>1. CASE u = t BY <1>2, <2>1 DEF PushInv, Pushing
    <2>2. CASE u # t BY Zenon, <1>2, <2>2 DEF PushInv, PInv, First, Multiple
    <2>3. QED BY <2>1, <2>2
  <1>5. Multiple(newMax[t]) /\ Multiple(ctlCsn) BY Zenon, <1>2 DEF PInv, PushInv
  <1>6. Multiple(ctlCsn') BY Zenon, <1>2, <1>5
  <1>7. QED BY Zenon, <1>2, <1>3, <1>4, <1>6 DEF PInv, LatestPushed, Multiple

\* Nothing is drawn beyond the bound after a start.
LEMMA BoundRestart ==
  ASSUME Types, PInv, Restart
  PROVE  PInv'
  <1>1. /\ ctlCsn \in Nat /\ nextCsn' = ctlCsn + 1 /\ maxReservedCsn' = ctlCsn /\ ctlCsn' = ctlCsn
        /\ reserveLock' = NoOne /\ writeFailed' = FALSE /\ \A t \in Thread : pc'[t] = "none"
    BY DEF Restart, FirstCsn, Types
  <1>2. LockRight' BY <1>1 DEF LockRight, NoOne
  <1>3. \A t \in Thread : PushInv(t)' BY <1>1 DEF PushInv, Pushing
  <1>4. LatestPushed' BY <1>1 DEF LatestPushed
  <1>5. QED BY Zenon, <1>1, <1>2, <1>3, <1>4 DEF PInv, Multiple

\* PInv is an invariant, with the types and the numbers.
LEMMA PInvariant == Spec => [](Types /\ NInv /\ PInv)
  <1>1. Init => PInv
    <2> SUFFICES ASSUME Init PROVE PInv
      OBVIOUS
    <2>1. /\ ctlCsn = 0 /\ nextCsn = 1 /\ maxReservedCsn = 0 /\ reserveLock = NoOne /\ writeFailed = FALSE
          /\ \A t \in Thread : pc[t] = "none"
      BY DEF Init, FirstCsn, INVALID_CSN
    <2>2. 0 = 0 * Increment BY CsnAssumption
    <2>3. LockRight BY <2>1 DEF LockRight, NoOne
    <2>4. \A t \in Thread : PushInv(t) BY <2>1 DEF PushInv, Pushing
    <2>5. LatestPushed BY <2>1 DEF LatestPushed
    <2>6. QED BY Zenon, <2>1, <2>2, <2>3, <2>4, <2>5 DEF PInv, Multiple
  <1>2. Types /\ PInv /\ [Next]_vars => PInv'
    <2> SUFFICES ASSUME Types, PInv, [Next]_vars PROVE PInv'
      OBVIOUS
    <2>1. ASSUME NEW t \in Thread, Statement(t) \/ Step(t) PROVE PInv'
      <3>1. CASE Statement(t) \/ ReadNextCsn(t) \/ PublishSnapshot(t) \/ Drawn(t) \/ CommitEnds(t)
        BY Zenon, <3>1, QuietActions, QuietStep
      <3>2. CASE GetNextCsn(t) BY Zenon, <3>2, DrawStep
      <3>3. CASE UpdateMaxReservedCsnIfNecessary(t) BY Zenon, <3>3, AskStep
      <3>4. CASE UpdateMaxReservedCsnRedundant(t) BY Zenon, <3>4, RedundantStep
      <3>5. CASE SetMaxReservedCSN(t) BY Zenon, <3>5, WriteStep
      <3>6. CASE PushMaxReservedCsn(t) BY Zenon, <3>6, BoundStep
      <3>7. CASE SetMaxReservedCSNFails(t) BY Zenon, <3>7, FailStep
      <3>8. QED BY Zenon, <2>1, <3>1, <3>2, <3>3, <3>4, <3>5, <3>6, <3>7 DEF Step
    <2>2. CASE UpdateLocalCsnMin \/ UpdateStep \/ UNCHANGED vars
      <3>1. UNCHANGED <<nextCsn, maxReservedCsn, ctlCsn, reserveLock, writeFailed, pc, cur, newMax>>
        BY Zenon, <2>2 DEF UpdateLocalCsnMin, UpdateStep, ScanThread, AdvanceLocalCsnMin, vars, csnVars,
                           thrdVars, histVars
      <3>2. QED BY Zenon, <3>1 DEF PInv, LockRight, PushInv, LatestPushed, First, Multiple
    <2>3. CASE Restart BY Zenon, <2>3, BoundRestart
    <2>4. QED BY Zenon, <2>1, <2>2, <2>3 DEF Next
  <1>3. QED BY NInvariant, <1>1, <1>2, PTL DEF Spec

\* The state has its type, and m_maxReservedCsnLock is held exactly across the write
\* of the control file.
THEOREM CsnTypes == Spec => []TypeOK
  <1>1. Types /\ NInv /\ PInv => TypeOK
    <2> SUFFICES ASSUME Types, NInv, PInv PROVE TypeOK
      OBVIOUS
    <2>1. /\ nextCsn \in Csn /\ maxReservedCsn \in Csn /\ ctlCsn \in Csn /\ localCsnMin \in Csn
          /\ csnMin \in [Thread -> Csn \cup {MAX_COMMITSEQNO}] /\ snapshot \in [Thread -> Csn]
          /\ cursors \in [Thread -> Seq(Csn)] /\ pc \in [Thread -> PC]
          /\ cur \in [Thread -> Csn] /\ newMax \in [Thread -> Csn]
          /\ scan \in [on : BOOLEAN, next : Csn, min : Csn \cup {MAX_COMMITSEQNO}, left : SUBSET Thread]
      BY Zenon DEF Types, Csn
    <2>2. QED BY Zenon, <2>1 DEF NInv, PInv, LockRight, TypeOK, Csn
  <1>2. QED BY PInvariant, <1>1, PTL

\* While no write of the control file fails, every commit that waits for the bound
\* has somebody on the way to push it past the number it drew, for any number of
\* threads, any block size and any number of restarts.
THEOREM WaitersHavePushers == Spec => []WaiterHasPusher
  <1>1. Types /\ NInv /\ PInv => WaiterHasPusher
    <2> SUFFICES ASSUME Types, NInv, PInv, NEW t \in Thread,
                        pc[t] = "wait", cur[t] > maxReservedCsn, ~writeFailed
                 PROVE  \E u \in Thread : pc[u] \in Pushing /\ cur[t] < cur[u] + Increment
      BY Zenon DEF WaiterHasPusher, Pushing
    <2>1. /\ nextCsn \in Nat /\ maxReservedCsn \in Nat /\ cur \in [Thread -> Nat] /\ Increment \in Nat
      BY CsnAssumption DEF Types
    <2>2. cur[t] < nextCsn BY Zenon DEF NInv, Drawing
    <2>3. nextCsn > maxReservedCsn + 1 BY <2>1, <2>2
    <2>4. PICK u \in Thread : pc[u] \in Pushing /\ nextCsn <= cur[u] + Increment
      BY Zenon, <2>3 DEF PInv, LatestPushed
    <2>5. cur[t] < cur[u] + Increment BY <2>1, <2>2, <2>4
    <2>6. QED BY <2>4, <2>5
  <1>2. QED BY PInvariant, <1>1, PTL
=============================================================================
