--------------------------- MODULE LockEntryProofs ---------------------------
(***************************************************************************)
(* What the operations of one entry of the main lock table keep, whatever  *)
(* the threads and however long the queues: EntryInv.                      *)
(***************************************************************************)
EXTENDS LockEntryInv, TLAPS, WellFoundedInduction, FiniteSetTheorems, SequenceTheorems

-----------------------------------------------------------------------------
(* Modes, and numbers.                                                     *)

Apart(S, T) == S \cap T = {}

\* A nonempty set of numbers has a least element.
LEMMA LeastNumber ==
  ASSUME NEW T, T \subseteq Nat, T # {}
  PROVE  \E n \in T : \A m \in T : n <= m
  <1>1. IsWellFoundedOn(OpToRel(<, Nat), Nat) BY Zenon, NatLessThanWellFounded
  <1>2. PICK n \in T : \A m \in T : ~ (<<m, n>> \in OpToRel(<, Nat)) BY Zenon, <1>1, WFMin
  <1>3. \A m \in T : ~ (m < n) BY Zenon, <1>2 DEF OpToRel
  <1>4. QED BY <1>3

\* The conflict table, as one table.
LEMMA ConflictTable ==
  ASSUME NEW m \in LockMode, NEW n \in LockMode
  PROVE  HasConflictWithMode(m, n) <=>
           \/ m = 1 /\ n = 8
           \/ m = 2 /\ n >= 7
           \/ m = 3 /\ n >= 5
           \/ m = 4 /\ n >= 4
           \/ m = 5 /\ n >= 3 /\ n # 5
           \/ m = 6 /\ n >= 3
           \/ m = 7 /\ n >= 2
           \/ m = 8
  <1>1. m \in 1..8 /\ n \in 1..8 BY DEF LockMode
  <1>2. m = 1 \/ m = 2 \/ m = 3 \/ m = 4 \/ m = 5 \/ m = 6 \/ m = 7 \/ m = 8 BY <1>1
  <1>3. CASE m = 1
    <2>1. GetConflictMask(m) = {8}
      BY <1>3 DEF GetConflictMask, AccessShare, RowShare, RowExclusive, ShareUpdateExclusive,
                  Share, ShareRowExclusive, Exclusive, AccessExclusive
    <2>2. QED BY <2>1, <1>1, <1>3 DEF HasConflictWithMode
  <1>4. CASE m = 2
    <2>1. GetConflictMask(m) = {7, 8}
      BY <1>4 DEF GetConflictMask, AccessShare, RowShare, RowExclusive, ShareUpdateExclusive,
                  Share, ShareRowExclusive, Exclusive, AccessExclusive
    <2>2. QED BY <2>1, <1>1, <1>4 DEF HasConflictWithMode
  <1>5. CASE m = 3
    <2>1. GetConflictMask(m) = {5, 6, 7, 8}
      BY <1>5 DEF GetConflictMask, AccessShare, RowShare, RowExclusive, ShareUpdateExclusive,
                  Share, ShareRowExclusive, Exclusive, AccessExclusive
    <2>2. QED BY <2>1, <1>1, <1>5 DEF HasConflictWithMode
  <1>6. CASE m = 4
    <2>1. GetConflictMask(m) = {4, 5, 6, 7, 8}
      BY <1>6 DEF GetConflictMask, AccessShare, RowShare, RowExclusive, ShareUpdateExclusive,
                  Share, ShareRowExclusive, Exclusive, AccessExclusive
    <2>2. QED BY <2>1, <1>1, <1>6 DEF HasConflictWithMode
  <1>7. CASE m = 5
    <2>1. GetConflictMask(m) = {3, 4, 6, 7, 8}
      BY <1>7 DEF GetConflictMask, AccessShare, RowShare, RowExclusive, ShareUpdateExclusive,
                  Share, ShareRowExclusive, Exclusive, AccessExclusive
    <2>2. QED BY <2>1, <1>1, <1>7 DEF HasConflictWithMode
  <1>8. CASE m = 6
    <2>1. GetConflictMask(m) = {3, 4, 5, 6, 7, 8}
      BY <1>8 DEF GetConflictMask, AccessShare, RowShare, RowExclusive, ShareUpdateExclusive,
                  Share, ShareRowExclusive, Exclusive, AccessExclusive
    <2>2. QED BY <2>1, <1>1, <1>8 DEF HasConflictWithMode
  <1>9. CASE m = 7
    <2>1. GetConflictMask(m) = {2, 3, 4, 5, 6, 7, 8}
      BY <1>9 DEF GetConflictMask, AccessShare, RowShare, RowExclusive, ShareUpdateExclusive,
                  Share, ShareRowExclusive, Exclusive, AccessExclusive
    <2>2. QED BY <2>1, <1>1, <1>9 DEF HasConflictWithMode
  <1>10. CASE m = 8
    <2>1. GetConflictMask(m) = LockMode
      BY <1>10 DEF GetConflictMask, AccessShare, RowShare, RowExclusive, ShareUpdateExclusive,
                  Share, ShareRowExclusive, Exclusive, AccessExclusive
    <2>2. QED BY <2>1, <1>1, <1>10 DEF HasConflictWithMode
  <1>11. QED BY <1>2, <1>3, <1>4, <1>5, <1>6, <1>7, <1>8, <1>9, <1>10

\* Conflicts are mutual.
LEMMA ConflictSymmetric ==
  ASSUME NEW m \in LockMode, NEW n \in LockMode
  PROVE  HasConflictWithMode(m, n) <=> HasConflictWithMode(n, m)
  <1>1. m \in 1..8 /\ n \in 1..8 BY DEF LockMode
  <1>2. QED BY <1>1, ConflictTable

\* A conflict with a mask is a conflict with one of its modes.
LEMMA ConflictWithMask ==
  ASSUME NEW m, NEW mask
  PROVE  HasConflictWithMask(m, mask) <=> \E n \in mask : HasConflictWithMode(m, n)
  BY DEF HasConflictWithMask, HasConflictWithMode

-----------------------------------------------------------------------------
(* Counting requests of one mode.                                          *)

\* The requests of one mode, when sets of requests are put together or taken away.
LEMMA CountOfMode ==
  ASSUME NEW S, IsFiniteSet(S), NEW m
  PROVE  IsFiniteSet(OfMode(S, m)) /\ Cardinality(OfMode(S, m)) \in Nat
  <1>1. OfMode(S, m) \subseteq S BY DEF OfMode
  <1>2. QED BY <1>1, FS_Subset, FS_CardinalityType

\* The mode counts of two sets with no request in common add up.
LEMMA CountUnion ==
  ASSUME NEW S, IsFiniteSet(S), NEW T, IsFiniteSet(T), Apart(S, T)
  PROVE  /\ IsFiniteSet(S \cup T)
         /\ \A m : Cardinality(OfMode(S \cup T, m)) = Cardinality(OfMode(S, m)) + Cardinality(OfMode(T, m))
  <1>0. SUFFICES ASSUME NEW m
                 PROVE  /\ IsFiniteSet(S \cup T)
                        /\ Cardinality(OfMode(S \cup T, m))
                             = Cardinality(OfMode(S, m)) + Cardinality(OfMode(T, m))
    OBVIOUS
  <1>1. OfMode(S \cup T, m) = OfMode(S, m) \cup OfMode(T, m) BY DEF OfMode
  <1>2. OfMode(S, m) \cap OfMode(T, m) = {} BY DEF OfMode, Apart
  <1>3. /\ IsFiniteSet(OfMode(S, m)) /\ Cardinality(OfMode(S, m)) \in Nat
        /\ IsFiniteSet(OfMode(T, m)) /\ Cardinality(OfMode(T, m)) \in Nat
    BY CountOfMode
  <1>4. Cardinality(OfMode(S, m) \cup OfMode(T, m))
          = Cardinality(OfMode(S, m)) + Cardinality(OfMode(T, m)) - Cardinality({})
    BY <1>2, <1>3, FS_Union
  <1>5. Cardinality({}) = 0 BY FS_EmptySet
  <1>6. IsFiniteSet(S \cup T) BY Zenon, FS_Union
  <1> DEFINE a == Cardinality(OfMode(S, m))
             b == Cardinality(OfMode(T, m))
             c == Cardinality(OfMode(S \cup T, m))
  <1>7. c = a + b - 0 BY Zenon, <1>1, <1>4, <1>5
  <1>8. a \in Nat /\ b \in Nat BY <1>3
  <1> HIDE DEF a, b, c
  <1>9. c = a + b BY <1>7, <1>8
  <1>10. QED BY <1>6, <1>9 DEF a, b, c

\* The mode counts of a set without some of its requests.
LEMMA CountWithout ==
  ASSUME NEW S, IsFiniteSet(S), NEW T, T \subseteq S
  PROVE  /\ IsFiniteSet(S \ T) /\ IsFiniteSet(T)
         /\ \A m : Cardinality(OfMode(S \ T, m)) = Cardinality(OfMode(S, m)) - Cardinality(OfMode(T, m))
  <1>0. SUFFICES ASSUME NEW m
                 PROVE  /\ IsFiniteSet(S \ T) /\ IsFiniteSet(T)
                        /\ Cardinality(OfMode(S \ T, m))
                             = Cardinality(OfMode(S, m)) - Cardinality(OfMode(T, m))
    OBVIOUS
  <1>1. IsFiniteSet(S \ T) /\ IsFiniteSet(T) BY FS_Subset
  <1>2. (S \ T) \cup T = S /\ Apart(S \ T, T) BY DEF Apart
  <1>3. Cardinality(OfMode(S, m)) = Cardinality(OfMode(S \ T, m)) + Cardinality(OfMode(T, m))
    BY <1>1, <1>2, CountUnion
  <1>4. Cardinality(OfMode(S \ T, m)) \in Nat /\ Cardinality(OfMode(T, m)) \in Nat
    BY <1>1, CountOfMode
  <1>5. QED BY <1>1, <1>3, <1>4

\* A set of one request counts one of its own mode.
LEMMA CountOne ==
  ASSUME NEW r, NEW m
  PROVE  /\ IsFiniteSet({r})
         /\ Cardinality(OfMode({r}, m)) = IF r.mode = m THEN 1 ELSE 0
  <1>1. IsFiniteSet({r}) /\ Cardinality({r}) = 1 BY FS_Singleton
  <1>2. OfMode({r}, m) = IF r.mode = m THEN {r} ELSE {} BY DEF OfMode
  <1>3. Cardinality({}) = 0 BY FS_EmptySet
  <1>4. QED BY <1>1, <1>2, <1>3

\* Counting the first n links of a queue of distinct waiters is counting the waiters.
LEMMA CountLinks ==
  ASSUME NEW q \in Seq(Request), NEW n \in 0..Len(q), NEW m,
         \A i, j \in DOMAIN q : q[i] = q[j] => i = j
  PROVE  /\ IsFiniteSet({q[i] : i \in 1..n})
         /\ Cardinality({i \in 1..n : q[i].mode = m}) = Cardinality(OfMode({q[i] : i \in 1..n}, m))
  <1> DEFINE I == {i \in 1..n : q[i].mode = m}
             W == {q[i] : i \in 1..n}
             f == [i \in I |-> q[i]]
             g == [i \in 1..n |-> q[i]]
  <1>1. Len(q) \in Nat /\ DOMAIN q = 1..Len(q) /\ 1..n \subseteq DOMAIN q OBVIOUS
  <1>2. IsFiniteSet(1..n) /\ I \subseteq 1..n BY <1>1, FS_Interval
  <1>3. IsFiniteSet(I) BY <1>2, FS_Subset
  <1>4. f \in [I -> OfMode(W, m)] BY DEF OfMode
  <1>5. \A i, j \in I : f[i] = f[j] => i = j BY <1>1
  <1>6. \A w \in OfMode(W, m) : \E i \in I : f[i] = w BY DEF OfMode
  <1>7. f \in Bijection(I, OfMode(W, m)) BY <1>4, <1>5, <1>6 DEF Bijection, Injection, Surjection, IsInjective
  <1>8. Cardinality(OfMode(W, m)) = Cardinality(I) BY <1>3, <1>7, FS_Bijection DEF ExistsBijection
  <1>9. g \in Surjection(1..n, W) BY DEF Surjection
  <1>10. IsFiniteSet(W) BY <1>2, <1>9, FS_Surjection
  <1>11. QED BY <1>8, <1>10

\* The waiters of an entry whose waiters are distinct, counted by links.
LEMMA CountWaiters ==
  ASSUME NEW e \in Entry, NEW m, \A i, j \in DOMAIN e.waiting : e.waiting[i] = e.waiting[j] => i = j
  PROVE  /\ IsFiniteSet(Waiters(e))
         /\ Cardinality({i \in DOMAIN e.waiting : e.waiting[i].mode = m})
              = Cardinality(OfMode(Waiters(e), m))
  <1>1. e.waiting \in Seq(Request) BY DEF Entry
  <1>2. DOMAIN e.waiting = 1..Len(e.waiting) /\ Len(e.waiting) \in 0..Len(e.waiting) BY <1>1
  <1>3. Waiters(e) = {e.waiting[i] : i \in 1..Len(e.waiting)} BY <1>2 DEF Waiters
  <1> DEFINE q == e.waiting
             n == Len(e.waiting)
  <1>4. q \in Seq(Request) /\ n \in 0..Len(q) /\ \A i, j \in DOMAIN q : q[i] = q[j] => i = j
    BY <1>1, <1>2
  <1>5. Waiters(e) = {q[i] : i \in 1..n} /\ DOMAIN e.waiting = 1..n /\ e.waiting = q BY <1>2, <1>3
  <1> HIDE DEF q, n
  <1>6. /\ IsFiniteSet({q[i] : i \in 1..n})
        /\ Cardinality({i \in 1..n : q[i].mode = m}) = Cardinality(OfMode({q[i] : i \in 1..n}, m))
    BY Zenon, <1>4, CountLinks
  <1>7. QED BY <1>5, <1>6

\* The masks are the modes of the holders and of the waiters.
LEMMA MasksExact ==
  ASSUME NEW e, Counted(e)
  PROVE  /\ GrantMask(e) = {r.mode : r \in e.granted}
         /\ WaitMask(e) = {r.mode : r \in Waiters(e)}
  <1>1. e \in Entry /\ IsFiniteSet(e.granted) /\ IsFiniteSet(Waiters(e)) BY DEF Counted, Exact
  <1>2. e.granted \subseteq Request /\ Waiters(e) \subseteq Request BY <1>1 DEF Entry, Waiters
  <1>3. \A S : IsFiniteSet(S) => \A m : (Cardinality(OfMode(S, m)) # 0 <=> \E r \in S : r.mode = m)
    <2> SUFFICES ASSUME NEW S, IsFiniteSet(S), NEW m
                 PROVE  Cardinality(OfMode(S, m)) # 0 <=> \E r \in S : r.mode = m
      OBVIOUS
    <2>1. IsFiniteSet(OfMode(S, m)) BY CountOfMode
    <2>2. Cardinality(OfMode(S, m)) = 0 <=> OfMode(S, m) = {} BY <2>1, FS_EmptySet
    <2>3. QED BY <2>2 DEF OfMode
  <1>4. \A m \in LockMode : e.grantedCnt[m] # 0 <=> \E r \in e.granted : r.mode = m
    BY <1>1, <1>3 DEF Counted, Exact
  <1>5. \A m \in LockMode : e.waitingCnt[m] # 0 <=> \E r \in Waiters(e) : r.mode = m
    BY <1>1, <1>3 DEF Counted, Exact
  <1>6. \A r \in Request : r.mode \in LockMode BY DEF Request
  <1>7. GrantMask(e) = {r.mode : r \in e.granted} BY <1>2, <1>4, <1>6 DEF GrantMask
  <1>8. WaitMask(e) = {r.mode : r \in Waiters(e)} BY <1>2, <1>5, <1>6 DEF WaitMask
  <1>9. QED BY <1>7, <1>8

\* HasConflictWithAnyHolder looks at the mask first, and misses nothing by it.
LEMMA ConflictExact ==
  ASSUME NEW held, NEW mask, NEW r, \A h \in held : h.mode \in mask
  PROVE  ConflictsWithHolder(held, mask, r) <=> Blocks(held, r)
  BY ConflictWithMask DEF ConflictsWithHolder, Blocks

\* With exact counters the search of the holders finds just the real conflicts.
LEMMA HolderConflictExact ==
  ASSUME NEW e, Counted(e), NEW r
  PROVE  HasConflictWithAnyHolder(e, r) <=> Blocks(e.granted, r)
  <1>1. \A h \in e.granted : h.mode \in GrantMask(e) BY MasksExact
  <1>2. QED BY <1>1, ConflictExact DEF HasConflictWithAnyHolder

-----------------------------------------------------------------------------
(* Holders and waiters, one at a time.                                     *)

\* More holders block no less.
LEMMA BlocksMore ==
  ASSUME NEW S, NEW T, S \subseteq T, NEW r, Blocks(S, r)
  PROVE  Blocks(T, r)
  BY DEF Blocks

\* One more holder that conflicts with none of the others.
LEMMA CompatibleAdd ==
  ASSUME NEW S, S \subseteq Request, Compatible(S), NEW r \in Request, ~ Blocks(S, r)
  PROVE  Compatible(S \cup {r})
  <1> SUFFICES ASSUME NEW x \in S \cup {r}, NEW y \in S \cup {r}, y.thr # x.thr,
                      HasConflictWithMode(x.mode, y.mode)
               PROVE  FALSE
    BY DEF Compatible, Blocks
  <1>1. x.mode \in LockMode /\ y.mode \in LockMode BY DEF Request
  <1>2. HasConflictWithMode(y.mode, x.mode) BY <1>1, ConflictSymmetric
  <1>3. QED BY <1>2 DEF Compatible, Blocks

\* The counter of a mode goes up with one more request of it, and down with one less.
LEMMA CountUp ==
  ASSUME NEW S, NEW cnt, Exact(cnt, S), NEW r, r \notin S, r.mode \in LockMode
  PROVE  Exact([cnt EXCEPT ![r.mode] = @ + 1], S \cup {r})
  <1> DEFINE c == cnt
             d == [c EXCEPT ![r.mode] = @ + 1]
  <1>0. /\ IsFiniteSet(S) /\ c \in [LockMode -> Nat]
        /\ \A m \in LockMode : c[m] = Cardinality(OfMode(S, m))
    BY DEF Exact
  <1>1. \A m : /\ IsFiniteSet({r})
               /\ Cardinality(OfMode({r}, m)) = IF r.mode = m THEN 1 ELSE 0
    BY CountOne
  <1>2. Apart(S, {r}) BY DEF Apart
  <1>3. IsFiniteSet(S \cup {r}) BY Zenon, <1>0, <1>1, FS_Union
  <1>4. \A m : Cardinality(OfMode(S \cup {r}, m)) =
                 Cardinality(OfMode(S, m)) + Cardinality(OfMode({r}, m))
    <2>1. IsFiniteSet(S) /\ IsFiniteSet({r}) BY <1>0, <1>1
    <2>2. QED BY ONLY <2>1, <1>2, CountUnion
  <1>5. \A m \in LockMode : d[m] = Cardinality(OfMode(S \cup {r}, m))
    <2> TAKE m \in LockMode
    <2>1. CASE r.mode = m
      <3>1. d[m] = c[m] + 1 BY <1>0, <2>1
      <3>2. Cardinality(OfMode({r}, m)) = 1 BY <1>1, <2>1
      <3>3. Cardinality(OfMode(S \cup {r}, m)) = c[m] + 1 BY <3>2, <1>0, <1>4
      <3>4. QED BY <3>1, <3>3, <1>0
    <2>2. CASE r.mode # m
      <3>1. d[m] = c[m] BY <1>0, <2>2
      <3>2. Cardinality(OfMode({r}, m)) = 0 BY <1>1, <2>2
      <3>3. Cardinality(OfMode(S \cup {r}, m)) = c[m] + 0 BY <3>2, <1>0, <1>4
      <3>4. QED BY <3>1, <3>3, <1>0
    <2>3. QED BY <2>1, <2>2
  <1>6. d \in [LockMode -> Nat] BY <1>0
  <1> HIDE DEF d
  <1>7. Exact(d, S \cup {r}) BY <1>3, <1>5, <1>6 DEF Exact
  <1>8. QED BY <1>7 DEF d

\* A request that leaves lowers the count of its mode, and the counter stays exact.
LEMMA CountDown ==
  ASSUME NEW S, NEW cnt, Exact(cnt, S), NEW r \in S, r.mode \in LockMode
  PROVE  Exact([cnt EXCEPT ![r.mode] = @ - 1], S \ {r})
  <1> DEFINE c == cnt
             d == [c EXCEPT ![r.mode] = @ - 1]
  <1>0. /\ IsFiniteSet(S) /\ c \in [LockMode -> Nat]
        /\ \A m \in LockMode : c[m] = Cardinality(OfMode(S, m))
    BY DEF Exact
  <1>1. \A m : /\ IsFiniteSet({r})
               /\ Cardinality(OfMode({r}, m)) = IF r.mode = m THEN 1 ELSE 0
    BY CountOne
  <1>2. {r} \subseteq S OBVIOUS
  <1>3. IsFiniteSet(S \ {r}) BY <1>0, FS_Subset
  <1>4. \A m : Cardinality(OfMode(S \ {r}, m)) =
                 Cardinality(OfMode(S, m)) - Cardinality(OfMode({r}, m))
    <2>1. IsFiniteSet(S) BY <1>0
    <2>2. QED BY ONLY <2>1, <1>2, CountWithout
  <1>5. \A m : Cardinality(OfMode(S \ {r}, m)) \in Nat BY <1>3, CountOfMode
  <1>6. \A m \in LockMode : d[m] = Cardinality(OfMode(S \ {r}, m))
    <2> TAKE m \in LockMode
    <2>1. CASE r.mode = m
      <3>1. d[m] = c[m] - 1 BY <1>0, <2>1
      <3>2. Cardinality(OfMode({r}, m)) = 1 BY <1>1, <2>1
      <3>3. Cardinality(OfMode(S \ {r}, m)) = c[m] - 1 BY Zenon, <3>2, <1>0, <1>4
      <3>4. QED BY <3>1, <3>3, <1>0
    <2>2. CASE r.mode # m
      <3>1. d[m] = c[m] BY <1>0, <2>2
      <3>2. Cardinality(OfMode({r}, m)) = 0 BY <1>1, <2>2
      <3>3. Cardinality(OfMode(S \ {r}, m)) = c[m] - 0 BY <3>2, <1>0, <1>4
      <3>4. QED BY <3>1, <3>3, <1>0
    <2>3. QED BY <2>1, <2>2
  <1>7. DOMAIN d = LockMode /\ d = [m \in LockMode |-> d[m]] BY Zenon, <1>0
  <1>8. \A m \in LockMode : d[m] \in Nat BY <1>5, <1>6
  <1> HIDE DEF d
  <1>9. Exact(d, S \ {r}) BY <1>3, <1>6, <1>7, <1>8 DEF Exact
  <1>10. QED BY <1>9 DEF d

\* AddToHolderQueue.
LEMMA HolderAdded ==
  ASSUME NEW e, Counted(e), NEW r \in Request
  PROVE  LET f == AddToHolderQueue(e, r)
         IN  /\ Counted(f)
             /\ f.granted = e.granted \cup {r}
             /\ f.waiting = e.waiting
  <1>1. CASE r \in e.granted BY <1>1 DEF AddToHolderQueue
  <1>2. CASE r \notin e.granted
    <2> DEFINE f == AddToHolderQueue(e, r)
               d == [e.grantedCnt EXCEPT ![r.mode] = @ + 1]
    <2>1. e \in Entry BY DEF Counted
    <2>2. r.mode \in LockMode BY DEF Request
    <2>3. Exact(d, e.granted \cup {r}) BY <1>2, <2>2, CountUp DEF Counted
    <2>4. d \in [LockMode -> Nat] BY <2>3 DEF Exact
    <2>5. f = [e EXCEPT !.granted = @ \cup {r}, !.grantedCnt[r.mode] = @ + 1]
      BY <1>2 DEF AddToHolderQueue
    <2> HIDE DEF f
    <2>6. /\ f.granted = e.granted \cup {r} /\ f.waiting = e.waiting
          /\ f.waitingCnt = e.waitingCnt /\ f.grantedCnt = d
          /\ f \in Entry
      BY Zenon, <2>1, <2>4, <2>5 DEF Entry
    <2>7. Waiters(f) = Waiters(e) BY <2>6 DEF Waiters
    <2> HIDE DEF d
    <2>8. Counted(f) BY <2>3, <2>6, <2>7 DEF Counted
    <2>9. QED BY <2>6, <2>8 DEF f
  <1>3. QED BY <1>1, <1>2

\* RemoveFromHolderQueue.
LEMMA HolderRemoved ==
  ASSUME NEW e, Counted(e), NEW r \in e.granted
  PROVE  LET f == RemoveFromHolderQueue(e, r)
         IN  /\ Counted(f)
             /\ f.granted = e.granted \ {r}
             /\ f.waiting = e.waiting
  <1> DEFINE f == RemoveFromHolderQueue(e, r)
             d == [e.grantedCnt EXCEPT ![r.mode] = @ - 1]
  <1>1. e \in Entry BY DEF Counted
  <1>2. r \in Request /\ r.mode \in LockMode BY <1>1 DEF Entry, Request
  <1>3. Exact(d, e.granted \ {r}) BY <1>2, CountDown DEF Counted
  <1>4. d \in [LockMode -> Nat] BY <1>3 DEF Exact
  <1>5. f = [e EXCEPT !.granted = @ \ {r}, !.grantedCnt[r.mode] = @ - 1]
    BY DEF RemoveFromHolderQueue
  <1> HIDE DEF f
  <1>6. /\ f.granted = e.granted \ {r} /\ f.waiting = e.waiting
        /\ f.waitingCnt = e.waitingCnt /\ f.grantedCnt = d
        /\ f \in Entry
    BY Zenon, <1>1, <1>4, <1>5 DEF Entry
  <1>7. Waiters(f) = Waiters(e) BY <1>6 DEF Waiters
  <1> HIDE DEF d
  <1>8. Counted(f) BY <1>3, <1>6, <1>7 DEF Counted
  <1>9. QED BY <1>6, <1>8 DEF f

-----------------------------------------------------------------------------
(* The queue.                                                              *)

\* Two queues, one behind the other.
LEMMA Joined ==
  ASSUME NEW a \in Seq(Request), NEW b \in Seq(Request), NEW p, p = a \o b
  PROVE  /\ p \in Seq(Request) /\ Len(p) = Len(a) + Len(b)
         /\ \A k \in 1..(Len(a) + Len(b)) : p[k] = IF k <= Len(a) THEN a[k] ELSE b[k - Len(a)]
  BY ConcatProperties, Zenon

(* p is q with one more link, r, at place i; p is q without its link at i. *)
InsertedAt(p, q, r, i) ==
  /\ p \in Seq(Request) /\ Len(p) = Len(q) + 1
  /\ \A k \in 1..(Len(q) + 1) : p[k] = IF k < i THEN q[k] ELSE IF k = i THEN r ELSE q[k - 1]

UnlinkedAt(p, q, i) ==
  /\ p \in Seq(Request) /\ Len(p) = Len(q) - 1
  /\ \A k \in 1..(Len(q) - 1) : p[k] = IF k < i THEN q[k] ELSE q[k + 1]

\* A queue with one more link at place i.
LEMMA Inserted ==
  ASSUME NEW q \in Seq(Request), NEW r \in Request, NEW i \in 1..(Len(q) + 1), NEW p,
         p = SubSeq(q, 1, i - 1) \o <<r>> \o SubSeq(q, i, Len(q))
  PROVE  InsertedAt(p, q, r, i)
  <1> DEFINE a == SubSeq(q, 1, i - 1)
             b == SubSeq(q, i, Len(q))
             c == a \o <<r>>
  <1>1. Len(q) \in Nat /\ i \in Int /\ 1 <= i /\ i <= Len(q) + 1 OBVIOUS
  <1>2. a \in Seq(Request) /\ Len(a) = i - 1 /\ \A k \in 1..(i - 1) : a[k] = q[k] BY <1>1
  <1>3. /\ b \in Seq(Request) /\ Len(b) = Len(q) - i + 1
        /\ \A k \in 1..(Len(q) - i + 1) : b[k] = q[k + i - 1]
    BY <1>1
  <1> HIDE DEF a, b
  <1>4. /\ c \in Seq(Request) /\ Len(c) = i /\ \A k \in 1..(i - 1) : c[k] = q[k]
        /\ c[i] = r
    BY <1>1, <1>2
  <1> HIDE DEF c
  <1>5. p = c \o b BY DEF a, b, c
  <1>10. /\ p \in Seq(Request) /\ Len(p) = Len(c) + Len(b)
         /\ \A k \in 1..(Len(c) + Len(b)) : p[k] = IF k <= Len(c) THEN c[k] ELSE b[k - Len(c)]
    <2>1. c \in Seq(Request) /\ b \in Seq(Request) BY <1>3, <1>4
    <2>2. QED BY ONLY <2>1, <1>5, Joined, SMT
  <1>11. Len(c) = i /\ Len(c) + Len(b) = Len(q) + 1 BY <1>1, <1>3, <1>4
  <1>12. \A k \in 1..(Len(q) + 1) : p[k] = IF k <= i THEN c[k] ELSE b[k - i] BY Zenon, <1>10, <1>11
  <1>6. p \in Seq(Request) /\ Len(p) = Len(q) + 1 BY Zenon, <1>10, <1>11
  <1>7. \A k \in 1..i : p[k] = c[k] BY ONLY <1>1, <1>12
  <1>8. \A k \in (i + 1)..(Len(q) + 1) : p[k] = q[k - 1]
    <2> TAKE k \in (i + 1)..(Len(q) + 1)
    <2>2. /\ k - i \in 1..(Len(q) - i + 1) /\ (k - i) + i - 1 = k - 1
          /\ k \in 1..(Len(q) + 1) /\ ~ (k <= i)
      BY <1>1
    <2>1. p[k] = b[k - i] BY ONLY <2>2, <1>12
    <2>3. QED BY Zenon, <2>1, <2>2, <1>3
  <1>9. QED BY ONLY <1>1, <1>4, <1>6, <1>7, <1>8 DEF InsertedAt

\* A queue without its link at place i.
LEMMA Unlinked ==
  ASSUME NEW q \in Seq(Request), NEW i \in 1..Len(q), NEW p,
         p = SubSeq(q, 1, i - 1) \o SubSeq(q, i + 1, Len(q))
  PROVE  UnlinkedAt(p, q, i)
  <1> DEFINE a == SubSeq(q, 1, i - 1)
             b == SubSeq(q, i + 1, Len(q))
  <1>1. Len(q) \in Nat /\ i \in Int /\ 1 <= i /\ i <= Len(q) OBVIOUS
  <1>2. a \in Seq(Request) /\ Len(a) = i - 1 /\ \A k \in 1..(i - 1) : a[k] = q[k] BY <1>1
  <1>3. /\ b \in Seq(Request) /\ Len(b) = Len(q) - i
        /\ \A k \in 1..(Len(q) - i) : b[k] = q[k + i]
    BY <1>1
  <1> HIDE DEF a, b
  <1>4. p = a \o b BY DEF a, b
  <1>10. /\ p \in Seq(Request) /\ Len(p) = Len(a) + Len(b)
         /\ \A k \in 1..(Len(a) + Len(b)) : p[k] = IF k <= Len(a) THEN a[k] ELSE b[k - Len(a)]
    BY ONLY <1>2, <1>3, <1>4, Joined, ZenonT(40)
  <1>11. Len(a) = i - 1 /\ Len(a) + Len(b) = Len(q) - 1 BY <1>1, <1>2, <1>3
  <1>12. \A k \in 1..(Len(q) - 1) : p[k] = IF k <= i - 1 THEN a[k] ELSE b[k - (i - 1)]
    BY Zenon, <1>10, <1>11
  <1>5. p \in Seq(Request) /\ Len(p) = Len(q) - 1 BY Zenon, <1>10, <1>11
  <1>6. \A k \in 1..(i - 1) : p[k] = q[k] BY ONLY <1>1, <1>2, <1>12
  <1>7. \A k \in i..(Len(q) - 1) : p[k] = q[k + 1]
    <2> TAKE k \in i..(Len(q) - 1)
    <2>2. /\ k - (i - 1) \in 1..(Len(q) - i) /\ (k - (i - 1)) + i = k + 1
          /\ k \in 1..(Len(q) - 1) /\ ~ (k <= i - 1)
      BY <1>1
    <2>1. p[k] = b[k - (i - 1)] BY ONLY <2>2, <1>12
    <2>3. QED BY Zenon, <2>1, <2>2, <1>3
  <1>8. \A k \in 1..(Len(q) - 1) : p[k] = IF k < i THEN q[k] ELSE q[k + 1]
    <2> TAKE k \in 1..(Len(q) - 1)
    <2>1. CASE k < i
      <3>1. k \in 1..(i - 1) BY ONLY <1>1, <2>1, k \in 1..(Len(q) - 1)
      <3>2. QED BY <2>1, <3>1, <1>6, Zenon
    <2>2. CASE ~ (k < i)
      <3>1. k \in i..(Len(q) - 1) BY ONLY <1>1, <2>2, k \in 1..(Len(q) - 1)
      <3>2. QED BY <2>2, <3>1, <1>7, Zenon
    <2>3. QED BY <2>1, <2>2, Zenon
  <1>9. QED BY ONLY <1>5, <1>8, Zenon DEF UnlinkedAt

\* A queue without its first n links.
LEMMA Advanced ==
  ASSUME NEW q \in Seq(Request), NEW n \in 0..Len(q), NEW p, p = SubSeq(q, n + 1, Len(q))
  PROVE  /\ p \in Seq(Request) /\ Len(p) = Len(q) - n
         /\ \A k \in 1..(Len(q) - n) : p[k] = q[k + n]
  <1>1. Len(q) \in Nat /\ n \in Int /\ 0 <= n /\ n <= Len(q) OBVIOUS
  <1>2. /\ p \in Seq(Request) /\ Len(p) = Len(q) - n
        /\ \A k \in 1..(Len(q) - n) : p[k] = q[k + (n + 1) - 1]
    BY <1>1
  <1>3. \A k \in 1..(Len(q) - n) : k + (n + 1) - 1 = k + n BY <1>1
  <1>4. QED BY <1>2, <1>3

\* TryAddToWaiterQueue's insertion.
LEMMA WaiterInserted ==
  ASSUME NEW e, Counted(e), NEW r \in Request, r \notin Waiters(e),
         NEW i \in 1..(Len(e.waiting) + 1)
  PROVE  LET f == InsertWaiter(e, r, i)
         IN  /\ Counted(f)
             /\ f.granted = e.granted
             /\ Waiters(f) = Waiters(e) \cup {r}
             /\ f.waiting[1] = IF i = 1 THEN r ELSE e.waiting[1]
  <1> DEFINE f == InsertWaiter(e, r, i)
             d == [e.waitingCnt EXCEPT ![r.mode] = @ + 1]
             q == e.waiting
             p == SubSeq(q, 1, i - 1) \o <<r>> \o SubSeq(q, i, Len(q))
             n == Len(q)
  <1>1. e \in Entry BY DEF Counted
  <1>2. r.mode \in LockMode BY DEF Request
  <1>3. Exact(d, Waiters(e) \cup {r}) BY Zenon, <1>2, CountUp DEF Counted
  <1>4. d \in [LockMode -> Nat] BY <1>3 DEF Exact
  <1>5. q \in Seq(Request) /\ i \in 1..(Len(q) + 1) BY <1>1 DEF Entry
  <1>6. n \in Nat /\ DOMAIN q = 1..n /\ i \in 1..(n + 1) BY <1>5
  <1>7. \A j, k \in 1..n : q[j] = q[k] => j = k BY <1>6 DEF Counted
  <1>8. \A k \in 1..n : q[k] # r BY <1>6 DEF Waiters
  <1>9. f = [e EXCEPT !.waiting = p, !.waitingCnt[r.mode] = @ + 1] BY DEF InsertWaiter
  <1>10. Waiters(e) = {q[k] : k \in 1..n} BY <1>6 DEF Waiters
  <1>11. /\ p \in Seq(Request) /\ Len(p) = n + 1
         /\ \A k \in 1..(n + 1) : p[k] = IF k < i THEN q[k] ELSE IF k = i THEN r ELSE q[k - 1]
    <2> HIDE DEF q
    <2>1. p = SubSeq(q, 1, i - 1) \o <<r>> \o SubSeq(q, i, Len(q)) OBVIOUS
    <2> HIDE DEF p
    <2>2. r \in Request OBVIOUS
    <2>3. InsertedAt(p, q, r, i) BY ONLY <2>1, <2>2, <1>5, Inserted, Zenon
    <2>4. QED BY <2>3 DEF InsertedAt
  <1> HIDE DEF f, p, d
  <1>12. /\ f.granted = e.granted /\ f.waiting = p /\ f.waitingCnt = d
         /\ f.grantedCnt = e.grantedCnt /\ f \in Entry
    BY Zenon, <1>1, <1>4, <1>9, <1>11 DEF Entry, d
  <1> HIDE DEF q, n
  <1>13. DOMAIN f.waiting = 1..(n + 1) BY <1>11, <1>12, <1>6
  <1>14. \A j, k \in 1..(n + 1) : p[j] = p[k] => j = k
    <2> SUFFICES ASSUME NEW j \in 1..(n + 1), NEW k \in 1..(n + 1), p[j] = p[k] PROVE j = k
      OBVIOUS
    <2> DEFINE J == IF j < i THEN j ELSE j - 1
               K == IF k < i THEN k ELSE k - 1
    <2>1. j # i => J \in 1..n /\ p[j] = q[J] BY ONLY <1>6, <1>11, j \in 1..(n + 1)
    <2>2. k # i => K \in 1..n /\ p[k] = q[K] BY ONLY <1>6, <1>11, k \in 1..(n + 1)
    <2>3. p[i] = r BY ONLY <1>6, <1>11
    <2>4. CASE j = i /\ k = i BY <2>4
    <2>5. CASE j = i /\ k # i BY <2>5, <2>2, <2>3, <1>8
    <2>6. CASE j # i /\ k = i BY <2>6, <2>1, <2>3, <1>8
    <2>7. CASE j # i /\ k # i
      <3>1. J = K BY <2>7, <2>1, <2>2, <1>7
      <3>2. QED BY ONLY <3>1, <2>7, <1>6, j \in 1..(n + 1), k \in 1..(n + 1)
    <2>8. QED BY <2>4, <2>5, <2>6, <2>7
  <1>15. Waiters(f) = Waiters(e) \cup {r}
    <2>1. Waiters(f) = {p[k] : k \in 1..(n + 1)} BY <1>12, <1>13 DEF Waiters
    <2>2. \A k \in 1..(n + 1) : p[k] = r \/ \E j \in 1..n : p[k] = q[j]
      <3> TAKE k \in 1..(n + 1)
      <3>1. CASE k < i BY ONLY <3>1, <1>6, <1>11, k \in 1..(n + 1)
      <3>2. CASE k = i BY ONLY <3>2, <1>6, <1>11, k \in 1..(n + 1)
      <3>3. CASE k > i
        <4>1. p[k] = q[k - 1] /\ k - 1 \in 1..n BY ONLY <3>3, <1>6, <1>11, k \in 1..(n + 1)
        <4>2. QED BY <4>1
      <3>4. QED BY <3>1, <3>2, <3>3, <1>6
    <2>3. \A j \in 1..n : \E k \in 1..(n + 1) : p[k] = q[j]
      <3> TAKE j \in 1..n
      <3>1. CASE j < i
        <4>1. j \in 1..(n + 1) /\ p[j] = q[j] BY ONLY <3>1, <1>6, <1>11, j \in 1..n
        <4>2. QED BY <4>1
      <3>2. CASE j >= i
        <4>1. j + 1 \in 1..(n + 1) /\ ~ (j + 1 < i) /\ j + 1 # i /\ (j + 1) - 1 = j
          BY <3>2, <1>6
        <4>2. p[j + 1] = q[j] BY ONLY <4>1, <1>11
        <4>3. QED BY <4>1, <4>2
      <3>3. QED BY <3>1, <3>2, <1>6
    <2>4. p[i] = r /\ i \in 1..(n + 1) BY ONLY <1>6, <1>11
    <2>5. QED BY <2>1, <2>2, <2>3, <2>4, <1>10
  <1>16. f.waiting[1] = IF i = 1 THEN r ELSE q[1]
    <2>1. p[1] = IF i = 1 THEN r ELSE q[1] BY ONLY <1>6, <1>11
    <2>2. QED BY <2>1, <1>12
  <1>17. Counted(f)
    <2>1. \A j, k \in DOMAIN f.waiting : f.waiting[j] = f.waiting[k] => j = k
      BY <1>12, <1>13, <1>14
    <2>2. QED BY <2>1, <1>3, <1>12, <1>15 DEF Counted
  <1>18. QED BY <1>12, <1>15, <1>16, <1>17 DEF f, q

\* RemoveFromWaiterQueue.  The other waiters keep their order: At maps the
\* places of the shorter queue to theirs in the longer one.
LEMMA WaiterRemoved ==
  ASSUME NEW e, Counted(e), NEW r \in Waiters(e)
  PROVE  LET f == RemoveFromWaiterQueue(e, r)
         IN  /\ Counted(f)
             /\ f.granted = e.granted
             /\ Waiters(f) = Waiters(e) \ {r}
             /\ \E at \in [DOMAIN f.waiting -> DOMAIN e.waiting] :
                  /\ \A k \in DOMAIN f.waiting : f.waiting[k] = e.waiting[at[k]]
                  /\ \A j, k \in DOMAIN f.waiting : j < k => at[j] < at[k]
  <1> DEFINE f == RemoveFromWaiterQueue(e, r)
             d == [e.waitingCnt EXCEPT ![r.mode] = @ - 1]
             q == e.waiting
             i == CHOOSE k \in DOMAIN q : q[k] = r
             p == SubSeq(q, 1, i - 1) \o SubSeq(q, i + 1, Len(q))
             n == Len(q)
             at == [k \in 1..(n - 1) |-> IF k < i THEN k ELSE k + 1]
  <1>1. e \in Entry BY DEF Counted
  <1>2. q \in Seq(Request) BY <1>1 DEF Entry
  <1>3. n \in Nat /\ DOMAIN q = 1..n BY <1>2
  <1>4. i \in 1..n /\ q[i] = r
    <2>1. \E k \in DOMAIN q : q[k] = r BY DEF Waiters
    <2> HIDE DEF q
    <2>2. i \in DOMAIN q /\ q[i] = r BY <2>1
    <2>3. QED BY <2>2, <1>3
  <1>5. r.mode \in LockMode
    <2>1. Waiters(e) \subseteq Request BY <1>2 DEF Waiters
    <2>2. QED BY <2>1 DEF Request
  <1>6. Exact(d, Waiters(e) \ {r}) BY <1>5, CountDown DEF Counted
  <1>7. d \in [LockMode -> Nat] BY <1>6 DEF Exact
  <1>8. \A j, k \in 1..n : q[j] = q[k] => j = k BY <1>3 DEF Counted
  <1>9. f = [e EXCEPT !.waiting = p, !.waitingCnt[r.mode] = @ - 1]
    BY DEF RemoveFromWaiterQueue, Unlink
  <1>10. Waiters(e) = {q[k] : k \in 1..n} BY <1>3 DEF Waiters
  <1>11. /\ p \in Seq(Request) /\ Len(p) = n - 1
         /\ \A k \in 1..(n - 1) : p[k] = IF k < i THEN q[k] ELSE q[k + 1]
    <2>1. i \in 1..Len(q) BY <1>4
    <2> HIDE DEF q, i
    <2>2. p = SubSeq(q, 1, i - 1) \o SubSeq(q, i + 1, Len(q)) OBVIOUS
    <2> HIDE DEF p
    <2>3. UnlinkedAt(p, q, i) BY ONLY <2>1, <2>2, <1>2, Unlinked, Zenon
    <2>4. QED BY <2>3 DEF UnlinkedAt
  <1> HIDE DEF f, p, d, i
  <1>12. /\ f.granted = e.granted /\ f.waiting = p /\ f.waitingCnt = d
         /\ f.grantedCnt = e.grantedCnt /\ f \in Entry
    BY Zenon, <1>1, <1>7, <1>9, <1>11 DEF Entry, d
  <1> HIDE DEF q, n
  <1>13. DOMAIN f.waiting = 1..(n - 1) BY <1>11, <1>12, <1>3, <1>4
  <1>14. /\ at \in [1..(n - 1) -> 1..n]
         /\ \A k \in 1..(n - 1) : p[k] = q[at[k]]
         /\ \A j, k \in 1..(n - 1) : j < k => at[j] < at[k]
    <2>1. \A k \in 1..(n - 1) : at[k] \in 1..n BY <1>3, <1>4
    <2>2. \A k \in 1..(n - 1) : p[k] = q[at[k]] BY ONLY <1>3, <1>4, <1>11
    <2>3. \A j, k \in 1..(n - 1) : j < k => at[j] < at[k] BY ONLY <1>3, <1>4
    <2>4. QED BY <2>1, <2>2, <2>3
  <1>15. \A k \in 1..(n - 1) : at[k] # i BY <1>3, <1>4
  <1>16. \A j \in 1..n : j # i => \E k \in 1..(n - 1) : at[k] = j
    <2> SUFFICES ASSUME NEW j \in 1..n, j # i PROVE \E k \in 1..(n - 1) : at[k] = j OBVIOUS
    <2>1. CASE j < i
      <3>1. j \in 1..(n - 1) /\ at[j] = j BY ONLY <2>1, <1>3, <1>4, j \in 1..n
      <3>2. QED BY <3>1
    <2>2. CASE j > i
      <3>1. j - 1 \in 1..(n - 1) /\ at[j - 1] = j BY ONLY <2>2, <1>3, <1>4, j \in 1..n
      <3>2. QED BY <3>1
    <2>3. QED BY <2>1, <2>2, <1>4
  <1> HIDE DEF at
  <1>17. Waiters(f) = Waiters(e) \ {r}
    <2>1. Waiters(f) = {p[k] : k \in 1..(n - 1)} BY <1>12, <1>13 DEF Waiters
    <2>2. \A k \in 1..(n - 1) : p[k] \in Waiters(e) /\ p[k] # r
      BY <1>4, <1>8, <1>10, <1>14, <1>15
    <2>3. \A j \in 1..n : q[j] # r => \E k \in 1..(n - 1) : p[k] = q[j]
      BY <1>4, <1>14, <1>16
    <2>4. QED BY <2>1, <2>2, <2>3, <1>10
  <1>18. Counted(f)
    <2>1. \A j, k \in 1..(n - 1) : p[j] = p[k] => j = k
      <3> SUFFICES ASSUME NEW j \in 1..(n - 1), NEW k \in 1..(n - 1), p[j] = p[k] PROVE j = k
        OBVIOUS
      <3>1. at[j] = at[k] BY <1>8, <1>14
      <3>2. at[j] \in Int BY <1>14
      <3>3. QED BY <3>1, <3>2, <1>14
    <2>2. \A j, k \in DOMAIN f.waiting : f.waiting[j] = f.waiting[k] => j = k
      BY <2>1, <1>12, <1>13
    <2>3. QED BY <2>2, <1>6, <1>12, <1>17 DEF Counted
  <1>19. /\ at \in [DOMAIN f.waiting -> DOMAIN q]
         /\ \A k \in DOMAIN f.waiting : f.waiting[k] = q[at[k]]
         /\ \A j, k \in DOMAIN f.waiting : j < k => at[j] < at[k]
    BY <1>3, <1>12, <1>13, <1>14
  <1>20. QED BY <1>12, <1>17, <1>18, <1>19 DEF f, q

-----------------------------------------------------------------------------
(* AdvanceWaitingQueue.                                                    *)

\* NextConflicts misses no conflict, the waiters granted before included.
LEMMA NextConflictsExact ==
  ASSUME NEW e, Counted(e), NEW n \in 0..(Len(e.waiting) - 1)
  PROVE  NextConflicts(e, n) <=> Blocks(e.granted \cup FirstWaiters(e, n), e.waiting[n + 1])
  <1>1. \A h \in e.granted : h.mode \in GrantMask(e) BY MasksExact
  <1>2. \A h \in e.granted \cup FirstWaiters(e, n) :
          h.mode \in GrantMask(e) \cup {r.mode : r \in FirstWaiters(e, n)}
    BY <1>1
  <1>3. QED BY <1>2, ConflictExact DEF NextConflicts

\* The queue advances to the first waiter that is blocked.
LEMMA GrantableExact ==
  ASSUME NEW e, Counted(e)
  PROVE  LET n == Grantable(e)
         IN  /\ n \in 0..Len(e.waiting)
             /\ \A i \in 1..n : ~ Blocks(e.granted \cup FirstWaiters(e, i - 1), e.waiting[i])
             /\ n < Len(e.waiting) => Blocks(e.granted \cup FirstWaiters(e, n), e.waiting[n + 1])
  <1> DEFINE L == Len(e.waiting)
             T == {i \in 0..L : i = L \/ NextConflicts(e, i)}
             Good(n) == /\ \A i \in 0..(n - 1) : ~ NextConflicts(e, i)
                        /\ n < L => NextConflicts(e, n)
             g == Grantable(e)
  <1>1. L \in Nat
    <2>1. e.waiting \in Seq(Request) BY DEF Counted, Entry
    <2>2. QED BY <2>1
  <1>2. T \subseteq Nat /\ T # {} BY <1>1
  <1>3. PICK n \in T : \A m \in T : n <= m BY Zenon, <1>2, LeastNumber
  <1>4. n \in 0..L /\ Good(n)
    <2>1. n \in 0..L /\ (n = L \/ NextConflicts(e, n)) BY <1>3
    <2>2. \A i \in 0..(n - 1) : ~ NextConflicts(e, i)
      <3> SUFFICES ASSUME NEW i \in 0..(n - 1), NextConflicts(e, i) PROVE FALSE OBVIOUS
      <3>1. i \in 0..L /\ ~ (n <= i) BY <2>1, <1>1
      <3>2. i \in T BY <3>1
      <3>3. QED BY <3>1, <3>2, <1>3
    <2>3. QED BY <2>1, <2>2, <1>1
  <1>5. g = CHOOSE k \in 0..L : Good(k) BY DEF Grantable
  <1> HIDE DEF g, L, Good
  <1>6. g \in 0..L /\ Good(g) BY <1>4, <1>5
  <1> USE DEF L, Good
  <1>7. \A i \in 1..g : ~ Blocks(e.granted \cup FirstWaiters(e, i - 1), e.waiting[i])
    <2> SUFFICES ASSUME NEW i \in 1..g
                 PROVE  ~ Blocks(e.granted \cup FirstWaiters(e, i - 1), e.waiting[i])
      BY Zenon
    <2>1. i - 1 \in 0..(g - 1) /\ i - 1 \in 0..(Len(e.waiting) - 1) /\ (i - 1) + 1 = i BY <1>1, <1>6
    <2>2. ~ NextConflicts(e, i - 1) BY <2>1, <1>6
    <2>3. QED BY Zenon, <2>1, <2>2, NextConflictsExact
  <1>8. g < L => Blocks(e.granted \cup FirstWaiters(e, g), e.waiting[g + 1])
    <2> SUFFICES ASSUME g < L PROVE Blocks(e.granted \cup FirstWaiters(e, g), e.waiting[g + 1])
      OBVIOUS
    <2>1. g \in 0..(Len(e.waiting) - 1) BY <1>1, <1>6
    <2>2. NextConflicts(e, g) BY <1>6
    <2>3. QED BY Zenon, <2>1, <2>2, NextConflictsExact
  <1>9. QED BY Zenon, <1>6, <1>7, <1>8 DEF g

\* Holders and the waiters that were granted behind them fit together.
LEMMA CompatibleAdvance ==
  ASSUME NEW e, Counted(e), Compatible(e.granted), NEW n \in 0..Len(e.waiting),
         \A i \in 1..n : ~ Blocks(e.granted \cup FirstWaiters(e, i - 1), e.waiting[i])
  PROVE  Compatible(e.granted \cup FirstWaiters(e, n))
  <1> DEFINE q == e.waiting
  <1>1. e.granted \subseteq Request /\ q \in Seq(Request) BY DEF Counted, Entry
  <1>2. n \in Nat /\ \A i \in 1..n : q[i] \in Request BY <1>1
  <1> HIDE DEF q
  <1>3. \A k \in 0..n : FirstWaiters(e, k) = {q[i] : i \in 1..k} BY DEF FirstWaiters, q
  <1>4. \A r, s \in Request : HasConflictWithMode(r.mode, s.mode) => HasConflictWithMode(s.mode, r.mode)
    <2> SUFFICES ASSUME NEW r \in Request, NEW s \in Request, HasConflictWithMode(r.mode, s.mode)
                 PROVE  HasConflictWithMode(s.mode, r.mode)
      OBVIOUS
    <2>1. r.mode \in LockMode /\ s.mode \in LockMode BY DEF Request
    <2>2. QED BY <2>1, ConflictSymmetric
  \* a waiter that was granted, and one that held the lock before it
  <1>5. \A i \in 1..n : \A h \in e.granted :
          h.thr # q[i].thr => ~ HasConflictWithMode(q[i].mode, h.mode)
    BY DEF Blocks, q
  <1>6. \A i \in 1..n : \A j \in 1..n : j < i =>
          (q[j].thr # q[i].thr => ~ HasConflictWithMode(q[i].mode, q[j].mode))
    <2> SUFFICES ASSUME NEW i \in 1..n, NEW j \in 1..n, j < i, q[j].thr # q[i].thr
                 PROVE  ~ HasConflictWithMode(q[i].mode, q[j].mode)
      OBVIOUS
    <2>1. i - 1 \in 0..n /\ j \in 1..(i - 1) BY <1>2
    <2>2. q[j] \in FirstWaiters(e, i - 1) BY <2>1, <1>3
    <2>3. ~ Blocks(e.granted \cup FirstWaiters(e, i - 1), q[i]) BY Zenon DEF q
    <2>4. QED BY <2>2, <2>3 DEF Blocks
  <1>7. n \in 0..n BY <1>2
  <1>8. FirstWaiters(e, n) = {q[i] : i \in 1..n} BY <1>3, <1>7
  <1> SUFFICES ASSUME NEW x \in e.granted \cup FirstWaiters(e, n),
                      NEW y \in e.granted \cup FirstWaiters(e, n),
                      y.thr # x.thr, HasConflictWithMode(x.mode, y.mode)
               PROVE  FALSE
    BY DEF Compatible, Blocks
  <1>9. x \in Request /\ y \in Request BY <1>1, <1>2, <1>8
  <1>10. HasConflictWithMode(y.mode, x.mode) BY <1>4, <1>9
  <1>11. CASE x \in e.granted /\ y \in e.granted BY <1>11 DEF Compatible, Blocks
  <1>12. CASE x \in e.granted /\ y \in FirstWaiters(e, n) BY <1>12, <1>5, <1>8, <1>10
  <1>13. CASE x \in FirstWaiters(e, n) /\ y \in e.granted BY <1>13, <1>5, <1>8
  <1>14. CASE x \in FirstWaiters(e, n) /\ y \in FirstWaiters(e, n)
    <2>1. PICK i \in 1..n : x = q[i] BY <1>14, <1>8
    <2>2. PICK j \in 1..n : y = q[j] BY <1>14, <1>8
    <2>3. i < j \/ j < i \/ i = j BY <1>2
    <2>4. QED BY <2>1, <2>2, <2>3, <1>6, <1>10
  <1>15. QED BY <1>11, <1>12, <1>13, <1>14

\* GrantFirst.
LEMMA WaitersGranted ==
  ASSUME NEW e, Counted(e), NEW n \in 0..Len(e.waiting)
  PROVE  LET f == GrantFirst(e, n)
         IN  /\ Counted(f)
             /\ f.granted = e.granted \cup FirstWaiters(e, n)
             /\ Waiters(f) = Waiters(e) \ FirstWaiters(e, n)
             /\ FirstWaiters(e, n) \subseteq Waiters(e)
             /\ Len(f.waiting) = Len(e.waiting) - n
             /\ \A k \in 1..(Len(e.waiting) - n) : f.waiting[k] = e.waiting[k + n]
  <1> DEFINE f == GrantFirst(e, n)
             q == e.waiting
             L == Len(q)
             W == FirstWaiters(e, n)
             new == W \ e.granted
             p == SubSeq(q, n + 1, Len(q))
             gc == [m \in LockMode |-> e.grantedCnt[m] + Cardinality({r \in new : r.mode = m})]
             wc == [m \in LockMode |-> e.waitingCnt[m] - Cardinality({i \in 1..n : q[i].mode = m})]
  <1>1. e \in Entry /\ q \in Seq(Request) /\ e.granted \subseteq Request BY DEF Counted, Entry
  <1>2. L \in Nat /\ n \in 0..L /\ DOMAIN q = 1..L /\ 1..n \subseteq DOMAIN q BY <1>1
  <1>3. \A j, k \in DOMAIN q : q[j] = q[k] => j = k BY DEF Counted
  <1>4. W = {q[i] : i \in 1..n} BY DEF FirstWaiters
  <1>5. W \subseteq Request BY <1>1, <1>2, <1>4
  <1>6. W \subseteq Waiters(e) BY SMTT(20), <1>2, <1>4 DEF Waiters
  <1>7. /\ f.granted = e.granted \cup new /\ f.waiting = p
        /\ f.grantedCnt = gc /\ f.waitingCnt = wc
        /\ f = [granted |-> e.granted \cup new, waiting |-> p, grantedCnt |-> gc, waitingCnt |-> wc]
    BY DEF GrantFirst
  <1>8. Exact(e.grantedCnt, e.granted) /\ Exact(e.waitingCnt, Waiters(e)) BY DEF Counted
  <1> HIDE DEF f, W, q, L
  <1>9. IsFiniteSet(W) /\ \A m : Cardinality({i \in 1..n : q[i].mode = m}) = Cardinality(OfMode(W, m))
    <2>1. Len(q) = L BY DEF L
    <2>2. q \in Seq(Request) /\ n \in 0..Len(q) BY <2>1, <1>1, <1>2
    <2>3. /\ IsFiniteSet({q[i] : i \in 1..n})
          /\ \A m : Cardinality({i \in 1..n : q[i].mode = m}) = Cardinality(OfMode({q[i] : i \in 1..n}, m))
      BY ONLY Zenon, <1>3, <2>2, CountLinks
    <2>4. QED BY <2>3, <1>4
  <1>10. Exact(gc, e.granted \cup new)
    <2>1. IsFiniteSet(new) /\ IsFiniteSet(e.granted) BY <1>8, <1>9, FS_Subset DEF Exact
    <2>2. Apart(e.granted, new) BY DEF Apart
    <2> HIDE DEF new
    <2>3. IsFiniteSet(e.granted \cup new) BY Zenon, <2>1, FS_Union
    <2>4. \A m : Cardinality(OfMode(e.granted \cup new, m)) =
                   Cardinality(OfMode(e.granted, m)) + Cardinality(OfMode(new, m))
      <3> DEFINE S == e.granted
      <3>1. IsFiniteSet(new) /\ IsFiniteSet(S) /\ Apart(S, new) BY <2>1, <2>2
      <3> HIDE DEF S
      <3>2. \A m : Cardinality(OfMode(S \cup new, m)) =
                     Cardinality(OfMode(S, m)) + Cardinality(OfMode(new, m))
        BY ONLY <3>1, CountUnion
      <3>3. QED BY Zenon, <3>2 DEF S
    <2>5. \A m : Cardinality(OfMode(e.granted, m)) \in Nat /\ Cardinality(OfMode(new, m)) \in Nat
      BY ONLY <2>1, CountOfMode
    <2>6. \A m \in LockMode : e.grantedCnt[m] = Cardinality(OfMode(e.granted, m)) BY <1>8 DEF Exact
    <2>7. \A m \in LockMode : gc[m] = e.grantedCnt[m] + Cardinality(OfMode(new, m)) BY DEF OfMode
    <2>8. \A m \in LockMode : gc[m] = Cardinality(OfMode(e.granted \cup new, m)) /\ gc[m] \in Nat
      <3> SUFFICES ASSUME NEW m \in LockMode
                   PROVE  gc[m] = Cardinality(OfMode(e.granted \cup new, m)) /\ gc[m] \in Nat
        BY Zenon
      <3>1. gc[m] = Cardinality(OfMode(e.granted \cup new, m)) BY Zenon, <2>4, <2>6, <2>7
      <3>2. Cardinality(OfMode(e.granted, m)) + Cardinality(OfMode(new, m)) \in Nat BY <2>5
      <3>3. QED BY Zenon, <3>1, <3>2, <2>4
    <2>9. gc \in [LockMode -> Nat] BY <2>8
    <2> HIDE DEF gc
    <2>10. QED BY Zenon, <2>3, <2>8, <2>9 DEF Exact
  <1>11. Exact(wc, Waiters(e) \ W)
    <2>1. IsFiniteSet(Waiters(e)) BY <1>8 DEF Exact
    <2>2. IsFiniteSet(Waiters(e) \ W) BY <2>1, FS_Subset
    <2>3. \A m : Cardinality(OfMode(Waiters(e) \ W, m)) =
                   Cardinality(OfMode(Waiters(e), m)) - Cardinality(OfMode(W, m))
      <3> DEFINE S == Waiters(e)
      <3>1. IsFiniteSet(S) /\ W \subseteq S BY <2>1, <1>6
      <3> HIDE DEF S
      <3>2. \A m : Cardinality(OfMode(S \ W, m)) =
                     Cardinality(OfMode(S, m)) - Cardinality(OfMode(W, m))
        BY ONLY <3>1, CountWithout
      <3>3. QED BY Zenon, <3>2 DEF S
    <2>4. \A m : Cardinality(OfMode(Waiters(e) \ W, m)) \in Nat BY ONLY <2>2, CountOfMode
    <2>5. \A m \in LockMode : e.waitingCnt[m] = Cardinality(OfMode(Waiters(e), m)) BY <1>8 DEF Exact
    <2>6. \A m \in LockMode : wc[m] = e.waitingCnt[m] - Cardinality(OfMode(W, m)) BY <1>9
    <2>7. \A m \in LockMode : wc[m] = Cardinality(OfMode(Waiters(e) \ W, m)) BY ONLY Zenon, <2>3, <2>5, <2>6
    <2>8. wc \in [LockMode -> Nat] BY Zenon, <2>4, <2>7
    <2> HIDE DEF wc
    <2>9. QED BY Zenon, <2>2, <2>7, <2>8 DEF Exact
  <1>12. p \in Seq(Request) /\ Len(p) = L - n /\ \A k \in 1..(L - n) : p[k] = q[k + n]
    <2>1. p = SubSeq(q, n + 1, Len(q)) /\ Len(q) = L BY DEF L
    <2> HIDE DEF p
    <2>2. n \in 0..Len(q) BY <2>1, <1>2
    <2>3. p \in Seq(Request) /\ Len(p) = Len(q) - n /\ \A k \in 1..(Len(q) - n) : p[k] = q[k + n]
      BY ONLY <2>1, <2>2, <1>1, Advanced
    <2>4. QED BY <2>1, <2>3
  <1>13. DOMAIN p = 1..(L - n) BY <1>2, <1>12
  <1> HIDE DEF p
  <1>14. gc \in [LockMode -> Nat] /\ wc \in [LockMode -> Nat] BY <1>10, <1>11 DEF Exact
  <1> HIDE DEF gc, wc
  <1>15. f \in Entry BY <1>1, <1>5, <1>7, <1>12, <1>14 DEF Entry
  <1>16. \A k \in 1..(L - n) : k + n \in 1..L /\ k + n \notin 1..n BY <1>2
  <1>17. \A j \in 1..L : j \notin 1..n => j - n \in 1..(L - n) /\ (j - n) + n = j BY <1>2
  <1>18. Waiters(f) = Waiters(e) \ W
    <2>1. Waiters(f) = {p[k] : k \in 1..(L - n)} BY <1>7, <1>13 DEF Waiters
    <2>2. Waiters(e) = {q[k] : k \in 1..L} BY <1>2 DEF Waiters, q
    <2>3. \A k \in 1..(L - n) : p[k] = q[k + n] /\ k + n \in 1..L BY <1>12, <1>16
    <2>4. \A k \in 1..(L - n) : q[k + n] \notin W
      <3> SUFFICES ASSUME NEW k \in 1..(L - n), NEW i \in 1..n, q[k + n] = q[i] PROVE FALSE
        BY <1>4
      <3>1. k + n = i BY <1>2, <1>3, <1>16
      <3>2. QED BY <3>1, <1>16
    <2>5. \A j \in 1..L : q[j] \notin W => \E k \in 1..(L - n) : p[k] = q[j]
      <3> SUFFICES ASSUME NEW j \in 1..L, q[j] \notin W PROVE \E k \in 1..(L - n) : p[k] = q[j]
        OBVIOUS
      <3>1. j \notin 1..n BY <1>4
      <3>2. p[j - n] = q[j] BY <3>1, <1>12, <1>17
      <3>3. QED BY <3>1, <3>2, <1>17
    <2>6. \A x \in Waiters(f) : x \in Waiters(e) /\ x \notin W BY <2>1, <2>2, <2>3, <2>4
    <2>7. \A x \in Waiters(e) : x \notin W => x \in Waiters(f) BY <2>1, <2>2, <2>5
    <2>8. QED BY <2>6, <2>7
  <1>19. \A j, k \in DOMAIN f.waiting : f.waiting[j] = f.waiting[k] => j = k
    <2> SUFFICES ASSUME NEW j \in 1..(L - n), NEW k \in 1..(L - n), p[j] = p[k] PROVE j = k
      BY <1>7, <1>13
    <2>1. j + n = k + n BY Zenon, <1>2, <1>3, <1>12, <1>16
    <2>2. QED BY <2>1, <1>2
  <1>20. Counted(f) BY ZenonT(40), <1>7, <1>10, <1>11, <1>15, <1>18, <1>19 DEF Counted
  <1>21. f.granted = e.granted \cup W BY <1>7
  <1>22. Len(f.waiting) = L - n /\ \A k \in 1..(L - n) : f.waiting[k] = q[k + n] BY <1>7, <1>12
  <1>23. QED BY <1>6, <1>18, <1>20, <1>21, <1>22 DEF f, W, q, L

\* AdvanceWaitingQueue: the waiters it grants fit beside the holders, and the
\* one it stops at is blocked by one of them.
LEMMA QueueAdvanced ==
  ASSUME NEW e, Counted(e), Compatible(e.granted)
  PROVE  LET f == AdvanceWaitingQueue(e)
             W == FirstWaiters(e, Grantable(e))
         IN  /\ EntryInv(f)
             /\ f.granted = e.granted \cup W
             /\ Waiters(f) = Waiters(e) \ W
             /\ W \subseteq Waiters(e)
             /\ \A i \in DOMAIN e.waiting : e.waiting[i] \in Waiters(f) =>
                  \A r \in W : \E j \in DOMAIN e.waiting : j < i /\ e.waiting[j] = r
  <1> DEFINE n == Grantable(e)
             f == GrantFirst(e, n)
             W == FirstWaiters(e, n)
             q == e.waiting
             L == Len(q)
  <1>1. /\ n \in 0..L
        /\ \A i \in 1..n : ~ Blocks(e.granted \cup FirstWaiters(e, i - 1), q[i])
        /\ n < L => Blocks(e.granted \cup W, q[n + 1])
    BY Zenon, GrantableExact
  <1>2. f = AdvanceWaitingQueue(e) BY DEF AdvanceWaitingQueue
  <1>3. q \in Seq(Request) BY DEF Counted, Entry
  <1>4. L \in Nat /\ DOMAIN q = 1..L BY <1>3
  <1> HIDE DEF n
  <1>5. Compatible(e.granted \cup W) BY Zenon, <1>1, CompatibleAdvance
  <1>6. /\ Counted(f) /\ f.granted = e.granted \cup W
        /\ Waiters(f) = Waiters(e) \ W /\ W \subseteq Waiters(e)
        /\ Len(f.waiting) = L - n /\ \A k \in 1..(L - n) : f.waiting[k] = q[k + n]
    <2>1. n \in 0..Len(e.waiting) BY Zenon, <1>1
    <2> HIDE DEF n
    <2>2. Counted(f) /\ f.granted = e.granted \cup W BY Zenon, <2>1, WaitersGranted
    <2>3. Waiters(f) = Waiters(e) \ W /\ W \subseteq Waiters(e) BY Zenon, <2>1, WaitersGranted
    <2>4. Len(f.waiting) = L - n BY Zenon, <2>1, WaitersGranted
    <2>5. \A k \in 1..(L - n) : f.waiting[k] = q[k + n] BY ZenonT(40), <2>1, WaitersGranted
    <2>6. QED BY Zenon, <2>2, <2>3, <2>4, <2>5
  <1> HIDE DEF f
  <1>7. f.waiting # <<>> => Blocks(f.granted, f.waiting[1])
    <2> SUFFICES ASSUME f.waiting # <<>> PROVE Blocks(f.granted, f.waiting[1]) OBVIOUS
    <2>1. f.waiting \in Seq(Request) BY <1>6 DEF Counted, Entry
    <2>2. Len(f.waiting) # 0 BY <2>1
    <2>3. n < L /\ 1 \in 1..(L - n) /\ 1 + n = n + 1 BY <2>2, <1>1, <1>4, <1>6
    <2>4. f.waiting[1] = q[n + 1] BY <2>3, <1>6
    <2>5. QED BY <2>3, <2>4, <1>1, <1>6
  <1>8. EntryInv(f) BY <1>5, <1>6, <1>7 DEF EntryInv
  <1>9. ASSUME NEW i \in DOMAIN q, q[i] \in Waiters(f), NEW r \in W
        PROVE  \E j \in DOMAIN q : j < i /\ q[j] = r
    <2>1. PICK j \in 1..n : q[j] = r BY <1>9 DEF FirstWaiters
    <2>2. i \notin 1..n BY <1>9, <1>6 DEF FirstWaiters
    <2>3. j \in DOMAIN q /\ j < i BY <2>2, <1>1, <1>4
    <2>4. QED BY <2>1, <2>3
  <1>10. QED BY <1>2, <1>6, <1>8, <1>9 DEF n

-----------------------------------------------------------------------------
(* The operations of the table on an entry.                                *)

\* A request that waits, as IsWaiter finds it.
LEMMA WaiterFound ==
  ASSUME NEW e, NEW r
  PROVE  IsWaiter(e, r) <=> r \in Waiters(e)
  BY DEF IsWaiter, Waiters

\* The first waiter that locks of t block.
LEMMA FirstBlocking ==
  ASSUME NEW e, Counted(e), NEW t, BlockedWaiters(e, t) # {}
  PROVE  /\ FirstBlockingWaiter(e, t) \in BlockedWaiters(e, t)
         /\ FirstBlockingWaiter(e, t) \in 1..Len(e.waiting)
         /\ \A j \in BlockedWaiters(e, t) : FirstBlockingWaiter(e, t) <= j
  <1> DEFINE B == BlockedWaiters(e, t)
  <1>1. e.waiting \in Seq(Request) BY DEF Counted, Entry
  <1>2. B \subseteq 1..Len(e.waiting) /\ Len(e.waiting) \in Nat BY <1>1 DEF BlockedWaiters
  <1>3. FirstBlockingWaiter(e, t) = CHOOSE i \in B : \A j \in B : i <= j BY DEF FirstBlockingWaiter
  <1> HIDE DEF B
  <1>4. \E i \in B : \A j \in B : i <= j
    <2>1. B \subseteq Nat /\ B # {} BY <1>2 DEF B
    <2>2. QED BY Zenon, <2>1, LeastNumber
  <1>5. FirstBlockingWaiter(e, t) \in B /\ \A j \in B : FirstBlockingWaiter(e, t) <= j
    BY <1>3, <1>4
  <1>6. QED BY <1>2, <1>5 DEF B

\* Granting r keeps the entry right when no other holder conflicts with it.
LEMMA GrantedBeside ==
  ASSUME NEW e, EntryInv(e), NEW r \in Request, ~ Blocks(e.granted, r)
  PROVE  /\ EntryInv(AddToHolderQueue(e, r))
         /\ AddToHolderQueue(e, r).granted = e.granted \cup {r}
         /\ AddToHolderQueue(e, r).waiting = e.waiting
  <1> DEFINE f == AddToHolderQueue(e, r)
  <1>1. Counted(e) /\ Compatible(e.granted) BY DEF EntryInv
  <1>2. Counted(f) /\ f.granted = e.granted \cup {r} /\ f.waiting = e.waiting BY <1>1, HolderAdded
  <1> HIDE DEF f
  <1>3. e.granted \subseteq Request BY <1>1 DEF Counted, Entry
  <1>4. Compatible(f.granted) BY <1>1, <1>2, <1>3, CompatibleAdd
  <1>5. f.waiting # <<>> => Blocks(f.granted, f.waiting[1]) BY <1>2, BlocksMore DEF EntryInv
  <1>6. QED BY <1>2, <1>4, <1>5 DEF EntryInv, f

\* The locks of other threads on the entry block r when their modes conflict with it.
LEMMA OthersBlock ==
  ASSUME NEW e, NEW r
  PROVE  HasConflictWithMask(r.mode, OthersOwned(e, r.thr)) <=> Blocks(e.granted, r)
  BY ConflictWithMask DEF OthersOwned, Blocks

\* TryAddToWaiterQueue, for a request that the entry cannot grant at once.
LEMMA TriedToWait ==
  ASSUME NEW e, EntryInv(e), NEW r \in Request,
         e.waiting = <<>> => Blocks(e.granted, r)
  PROVE  EnqueueOK(e, r, FALSE, TryAddToWaiterQueue(e, r))
  <1> DEFINE res == TryAddToWaiterQueue(e, r)
             early == EarlyDeadLock(e, r)
             first == FirstBlockingWaiter(e, r.thr)
             ahead == {e.waiting[i].mode : i \in 1..(first - 1)}
  <1>1. Counted(e) /\ Compatible(e.granted) BY DEF EntryInv
  <1>2. e.waiting \in Seq(Request) BY <1>1 DEF Counted, Entry
  <1>3. Len(e.waiting) \in Nat /\ DOMAIN e.waiting = 1..Len(e.waiting) BY <1>2
  <1>4. CASE IsWaiter(e, r)
    <2>1. res.entry = e /\ res.ret = "waiting" BY <1>4 DEF TryAddToWaiterQueue
    <2>2. r \in Waiters(e) BY <1>4, WaiterFound
    <2> HIDE DEF res
    <2>3. EnqueueOK(e, r, FALSE, res) BY <2>1, <2>2 DEF EnqueueOK
    <2>4. QED BY Zenon, <2>3 DEF res
  <1>5. CASE ~ IsWaiter(e, r)
    <2>1. r \notin Waiters(e) BY SMTT(20), <1>5, WaiterFound
    <2>2. CASE BlockedWaiters(e, r.thr) = {}
      <3> DEFINE f == InsertWaiter(e, r, Len(e.waiting) + 1)
      <3>1. early = "no_deadlock" BY <2>2 DEF EarlyDeadLock
      <3>2. res.entry = f /\ res.ret = "waiting" BY <1>5, <3>1 DEF TryAddToWaiterQueue
      <3>3. Len(e.waiting) + 1 \in 1..(Len(e.waiting) + 1) BY <1>3
      <3>4. /\ Counted(f) /\ f.granted = e.granted /\ Waiters(f) = Waiters(e) \cup {r}
            /\ f.waiting[1] = IF Len(e.waiting) + 1 = 1 THEN r ELSE e.waiting[1]
        BY <1>1, <2>1, <3>3, WaiterInserted
      <3> HIDE DEF f, res
      <3>5. Blocks(f.granted, f.waiting[1])
        <4>1. CASE e.waiting = <<>> BY <4>1, <3>4
        <4>2. CASE e.waiting # <<>>
          <5>1. Len(e.waiting) + 1 # 1 BY <4>2, <1>2, <1>3
          <5>2. QED BY <4>2, <5>1, <3>4 DEF EntryInv
        <4>3. QED BY <4>1, <4>2
      <3>6. EntryInv(f) BY <1>1, <3>4, <3>5 DEF EntryInv
      <3>7. EnqueueOK(e, r, FALSE, res) BY <3>2, <3>4, <3>6 DEF EnqueueOK
      <3>8. QED BY Zenon, <3>7 DEF res
    <2>3. CASE BlockedWaiters(e, r.thr) # {}
      <3>1. /\ first \in BlockedWaiters(e, r.thr)
            /\ first \in 1..Len(e.waiting)
            /\ \A j \in BlockedWaiters(e, r.thr) : first <= j
        BY SMTT(20), <1>1, <2>3, FirstBlocking
      <3> HIDE DEF first
      <3>2. CASE ~ HasConflictWithMask(r.mode, OthersOwned(e, r.thr) \cup ahead)
        <4>1. early = "grant" BY <2>3, <3>2 DEF EarlyDeadLock, first
        <4>2. res.entry = AddToHolderQueue(e, r) /\ res.ret = "granted"
          BY <1>5, <4>1 DEF TryAddToWaiterQueue
        <4> HIDE DEF res
        <4>3. /\ \A m \in OthersOwned(e, r.thr) : ~ HasConflictWithMode(r.mode, m)
              /\ \A m \in ahead : ~ HasConflictWithMode(r.mode, m)
          BY <3>2, ConflictWithMask
        <4>4. ~ Blocks(e.granted, r) BY <4>3, ConflictWithMask, OthersBlock
        <4>5. \A i \in DOMAIN e.waiting : HasConflictWithMode(r.mode, e.waiting[i].mode) => first <= i
          <5> SUFFICES ASSUME NEW i \in DOMAIN e.waiting, ~ (first <= i)
                       PROVE  ~ HasConflictWithMode(r.mode, e.waiting[i].mode)
            OBVIOUS
          <5>1. i \in 1..(first - 1) BY <1>3, <3>1
          <5>2. QED BY <5>1, <4>3
        <4>6. /\ EntryInv(res.entry) /\ res.entry.granted = e.granted \cup {r}
              /\ res.entry.waiting = e.waiting
          BY <4>2, <4>4, GrantedBeside
        <4>7. EnqueueOK(e, r, FALSE, res) BY SMTT(20), <4>2, <4>5, <4>6, <3>1 DEF EnqueueOK
        <4>8. QED BY Zenon, <4>7 DEF res
      <3>3. CASE /\ HasConflictWithMask(r.mode, OthersOwned(e, r.thr) \cup ahead)
                 /\ HasConflictWithMask(r.mode, OwnedLocks(e, e.waiting[first].thr))
        <4>1. early = "deadlock" BY <2>3, <3>3 DEF EarlyDeadLock, first
        <4>2. res.entry = e /\ res.ret = "deadlock" BY <1>5, <4>1 DEF TryAddToWaiterQueue
        <4> HIDE DEF res
        <4>3. EnqueueOK(e, r, FALSE, res) BY <4>2 DEF EnqueueOK
        <4>4. QED BY Zenon, <4>3 DEF res
      <3>4. CASE /\ HasConflictWithMask(r.mode, OthersOwned(e, r.thr) \cup ahead)
                 /\ ~ HasConflictWithMask(r.mode, OwnedLocks(e, e.waiting[first].thr))
        <4> DEFINE f == InsertWaiter(e, r, first)
        <4>1. early = "cut_in_line" BY <2>3, <3>4 DEF EarlyDeadLock, first
        <4>2. res.entry = f /\ res.ret = "waiting"
          BY <1>5, <4>1 DEF TryAddToWaiterQueue, first
        <4>3. first \in 1..(Len(e.waiting) + 1) BY <1>3, <3>1
        <4>4. /\ Counted(f) /\ f.granted = e.granted /\ Waiters(f) = Waiters(e) \cup {r}
              /\ f.waiting[1] = IF first = 1 THEN r ELSE e.waiting[1]
          BY <1>1, <2>1, <4>3, WaiterInserted
        <4> HIDE DEF f, res
        <4>5. Blocks(f.granted, f.waiting[1])
          <5>1. CASE first = 1
            <6>1. 1..(first - 1) = {} BY <5>1
            <6>2. ahead = {} BY <6>1
            <6>3. OthersOwned(e, r.thr) \cup ahead = OthersOwned(e, r.thr) BY Zenon, <6>2
            <6>4. Blocks(e.granted, r) BY Zenon, <3>4, <6>3, OthersBlock
            <6>5. QED BY <5>1, <6>4, <4>4
          <5>2. CASE first # 1
            <6>1. e.waiting # <<>> BY <1>2, <3>1
            <6>2. QED BY <5>2, <6>1, <4>4 DEF EntryInv
          <5>3. QED BY <5>1, <5>2
        <4>6. EntryInv(f) BY <1>1, <4>4, <4>5 DEF EntryInv
        <4>7. EnqueueOK(e, r, FALSE, res) BY <4>2, <4>4, <4>6 DEF EnqueueOK
        <4>8. QED BY Zenon, <4>7 DEF res
      <3>5. QED BY Zenon, <3>2, <3>3, <3>4
    <2>4. QED BY Zenon, <2>2, <2>3
  <1>6. QED BY Zenon, <1>4, <1>5

\* EnqueueLockRequest keeps an entry right.
THEOREM EnqueueCorrect ==
  ASSUME NEW e, EntryInv(e), NEW r \in Request, NEW dontWait \in BOOLEAN
  PROVE  EnqueueOK(e, r, dontWait, EnqueueLockRequest(e, r, dontWait))
  <1> DEFINE res == EnqueueLockRequest(e, r, dontWait)
             free == /\ ~ HasConflictWithAnyHolder(e, r)
                     /\ ~ HasConflictWithMask(r.mode, WaitMask(e))
  <1>1. Counted(e) BY DEF EntryInv
  <1>2. HasConflictWithAnyHolder(e, r) <=> Blocks(e.granted, r) BY <1>1, HolderConflictExact
  <1>3. WaitMask(e) = {w.mode : w \in Waiters(e)} BY <1>1, MasksExact
  <1>4. CASE free
    <2>1. res = [entry |-> AddToHolderQueue(e, r), ret |-> "granted"] BY <1>4 DEF EnqueueLockRequest
    <2>2. res.entry = AddToHolderQueue(e, r) /\ res.ret = "granted" BY <2>1
    <2> HIDE DEF res
    <2>3. /\ EntryInv(res.entry) /\ res.entry.granted = e.granted \cup {r}
          /\ res.entry.waiting = e.waiting
      BY <1>2, <1>4, <2>2, GrantedBeside
    <2>4. \A i \in DOMAIN e.waiting : ~ HasConflictWithMode(r.mode, e.waiting[i].mode)
      BY SMTT(20), <1>3, <1>4, ConflictWithMask DEF Waiters
    <2>5. EnqueueOK(e, r, dontWait, res) BY <2>2, <2>3, <2>4 DEF EnqueueOK
    <2>6. QED BY <2>5 DEF res
  <1>5. CASE ~ free /\ dontWait
    <2>1. res = [entry |-> e, ret |-> "not_avail"] BY <1>5 DEF EnqueueLockRequest
    <2>2. res.entry = e /\ res.ret = "not_avail" BY <2>1
    <2> HIDE DEF res
    <2>3. EnqueueOK(e, r, dontWait, res) BY <2>2 DEF EnqueueOK
    <2>4. QED BY <2>3 DEF res
  <1>6. CASE ~ free /\ ~ dontWait
    <2>1. res = TryAddToWaiterQueue(e, r) BY <1>6 DEF EnqueueLockRequest
    <2>2. e.waiting = <<>> => Blocks(e.granted, r)
      <3> SUFFICES ASSUME e.waiting = <<>> PROVE Blocks(e.granted, r) OBVIOUS
      <3>1. Waiters(e) = {} BY DEF Waiters
      <3>2. WaitMask(e) = {} BY <3>1, <1>3
      <3>3. ~ HasConflictWithMask(r.mode, WaitMask(e)) BY <3>2 DEF HasConflictWithMask
      <3>4. QED BY <3>3, <1>2, <1>6
    <2>3. EnqueueOK(e, r, FALSE, TryAddToWaiterQueue(e, r)) BY Zenon, <2>2, TriedToWait
    <2>4. dontWait = FALSE BY <1>6
    <2>5. QED BY Zenon, <2>1, <2>3, <2>4
  <1>7. QED BY <1>4, <1>5, <1>6

\* The rest of a compatible set is compatible.
LEMMA CompatibleLess ==
  ASSUME NEW S, Compatible(S), NEW T, T \subseteq S
  PROVE  Compatible(T)
  BY DEF Compatible, Blocks

\* DequeueLockRequest keeps an entry right.
THEOREM DequeueCorrect ==
  ASSUME NEW e, EntryInv(e), NEW r
  PROVE  DequeueOK(e, r, DequeueLockRequest(e, r))
  <1> DEFINE res  == DequeueLockRequest(e, r)
             rest == WithoutRequest(e, r)
             W    == FirstWaiters(rest, Grantable(rest))
             q    == IF r \in e.granted THEN Waiters(e) ELSE Waiters(e) \ {r}
  <1>1. Counted(e) /\ Compatible(e.granted) BY DEF EntryInv
  <1>2. CASE ~ IsQueued(e, r)
    <2>1. res.entry = e /\ res.woken = {} BY <1>2 DEF DequeueLockRequest
    <2>2. r \notin e.granted /\ r \notin Waiters(e) BY <1>2, WaiterFound DEF IsQueued
    <2> HIDE DEF res
    <2>3. /\ {} \in SUBSET q /\ res.entry.granted = (e.granted \ {r}) \cup {}
          /\ Waiters(res.entry) = q \ {} /\ res.woken = {w.thr : w \in {}}
      BY <2>1, <2>2
    <2>4. DequeueOK(e, r, res) BY <2>1, <2>3 DEF DequeueOK
    <2>5. QED BY <2>4 DEF res
  <1>3. CASE IsQueued(e, r)
    <2>1. res = [entry |-> AdvanceWaitingQueue(rest), woken |-> WokenBy(rest)]
      BY <1>3 DEF DequeueLockRequest
    <2>2. res.entry = AdvanceWaitingQueue(rest) /\ res.woken = {w.thr : w \in W}
      BY SMTT(20), <2>1 DEF WokenBy
    \* the queue that is left, in the order it had
    <2>3. /\ Counted(rest) /\ rest.granted = e.granted \ {r} /\ Waiters(rest) = q
          /\ \E at \in [DOMAIN rest.waiting -> DOMAIN e.waiting] :
               /\ \A k \in DOMAIN rest.waiting : rest.waiting[k] = e.waiting[at[k]]
               /\ \A j, k \in DOMAIN rest.waiting : j < k => at[j] < at[k]
      <3>1. CASE r \in e.granted
        <4>1. rest = RemoveFromHolderQueue(e, r) BY <3>1 DEF WithoutRequest
        <4>2. Counted(rest) /\ rest.granted = e.granted \ {r} /\ rest.waiting = e.waiting
          BY <3>1, <4>1, <1>1, HolderRemoved
        <4> HIDE DEF rest
        <4>3. Waiters(rest) = q BY <3>1, <4>2 DEF Waiters
        <4> DEFINE at == [k \in DOMAIN rest.waiting |-> k]
        <4>4. /\ at \in [DOMAIN rest.waiting -> DOMAIN e.waiting]
              /\ \A k \in DOMAIN rest.waiting : rest.waiting[k] = e.waiting[at[k]]
              /\ \A j, k \in DOMAIN rest.waiting : j < k => at[j] < at[k]
          BY <4>2
        <4>5. QED BY Zenon, <4>2, <4>3, <4>4
      <3>2. CASE r \notin e.granted
        <4>1. rest = RemoveFromWaiterQueue(e, r) BY <3>2 DEF WithoutRequest
        <4>2. r \in Waiters(e) BY <3>2, <1>3, WaiterFound DEF IsQueued
        <4>3. e.granted = e.granted \ {r} /\ q = Waiters(e) \ {r} BY <3>2
        <4> HIDE DEF rest, q
        <4>4. QED BY <4>1, <4>2, <4>3, <1>1, WaiterRemoved
      <3>3. QED BY <3>1, <3>2
    <2> HIDE DEF rest
    <2>4. Compatible(rest.granted)
      <3>1. rest.granted \subseteq e.granted BY <2>3
      <3>2. QED BY <3>1, <1>1, CompatibleLess
    <2>5. /\ EntryInv(res.entry) /\ res.entry.granted = rest.granted \cup W
          /\ Waiters(res.entry) = Waiters(rest) \ W /\ W \subseteq Waiters(rest)
          /\ \A i \in DOMAIN rest.waiting : rest.waiting[i] \in Waiters(res.entry) =>
               \A w \in W : \E j \in DOMAIN rest.waiting : j < i /\ rest.waiting[j] = w
      <3> DEFINE f == AdvanceWaitingQueue(rest)
      <3> HIDE DEF res
      <3>1. /\ EntryInv(f) /\ f.granted = rest.granted \cup W
            /\ Waiters(f) = Waiters(rest) \ W /\ W \subseteq Waiters(rest)
            /\ \A i \in DOMAIN rest.waiting : rest.waiting[i] \in Waiters(f) =>
                 \A w \in W : \E j \in DOMAIN rest.waiting : j < i /\ rest.waiting[j] = w
        BY SMTT(20), <2>3, <2>4, QueueAdvanced
      <3> HIDE DEF f, W
      <3>2. res.entry = f BY <2>2 DEF f
      <3>3. QED BY SMTT(20), <3>1, <3>2
    <2> HIDE DEF res, W, q
    <2>6. ASSUME NEW i \in DOMAIN e.waiting, e.waiting[i] \in Waiters(res.entry), NEW w \in W
          PROVE  \E j \in DOMAIN e.waiting : j < i /\ e.waiting[j] = w
      <3>1. PICK at \in [DOMAIN rest.waiting -> DOMAIN e.waiting] :
              /\ \A k \in DOMAIN rest.waiting : rest.waiting[k] = e.waiting[at[k]]
              /\ \A j, k \in DOMAIN rest.waiting : j < k => at[j] < at[k]
        BY <2>3
      <3>2. e.waiting[i] \in Waiters(rest) BY <2>5, <2>6
      <3>3. PICK k \in DOMAIN rest.waiting : rest.waiting[k] = e.waiting[i] BY <3>2 DEF Waiters
      <3>4. PICK j \in DOMAIN rest.waiting : j < k /\ rest.waiting[j] = w BY SMTT(20), <3>3, <2>5, <2>6
      <3>5. at[k] \in DOMAIN e.waiting /\ at[j] \in DOMAIN e.waiting BY <3>1
      <3>6. at[k] = i BY SMTT(20), <3>1, <3>3, <3>5, <1>1 DEF Counted
      <3>7. at[j] < i /\ e.waiting[at[j]] = w BY <3>1, <3>4, <3>6
      <3>8. QED BY SMTT(20), <3>5, <3>7
    <2>7. W \in SUBSET q BY <2>3, <2>5
    <2>8. res.entry.granted = (e.granted \ {r}) \cup W /\ Waiters(res.entry) = q \ W
      BY <2>3, <2>5
    <2>9. DequeueOK(e, r, res) BY <2>2, <2>5, <2>6, <2>7, <2>8 DEF DequeueOK, q
    <2>10. QED BY <2>9 DEF res
  <1>4. QED BY <1>2, <1>3

\* The entry Initialize makes.
LEMMA EmptyEntryInv == EntryInv(EmptyEntry)
  <1> DEFINE e == EmptyEntry
             z == [m \in LockMode |-> 0]
  <1>1. e.granted = {} /\ e.waiting = <<>> /\ e.grantedCnt = z /\ e.waitingCnt = z
    BY DEF EmptyEntry
  <1>2. e \in Entry BY DEF EmptyEntry, Entry
  <1>3. Waiters(e) = {} BY <1>1 DEF Waiters
  <1>4. Exact(z, {})
    <2>1. IsFiniteSet({}) /\ Cardinality({}) = 0 BY FS_EmptySet
    <2>2. \A m : OfMode({}, m) = {} BY DEF OfMode
    <2>3. QED BY <2>1, <2>2 DEF Exact
  <1> HIDE DEF e, z
  <1>5. Counted(e) BY <1>1, <1>2, <1>3, <1>4 DEF Counted
  <1>6. Compatible({}) BY DEF Compatible
  <1>7. EntryInv(e) BY <1>1, <1>5, <1>6 DEF EntryInv
  <1>8. QED BY <1>7 DEF e

\* An entry is removed from the table only when no one holds it or waits for it.
LEMMA RemovedIfUnused ==
  ASSUME NEW e, EntryInv(e)
  PROVE  /\ EntryInv(RemoveIfUnused(e))
         /\ RemoveIfUnused(e).granted = e.granted
         /\ RemoveIfUnused(e).waiting = e.waiting
  <1>1. CASE ~ IsNoHolderAndNoWaiter(e) BY <1>1 DEF RemoveIfUnused
  <1>2. CASE IsNoHolderAndNoWaiter(e)
    <2>1. Counted(e) BY DEF EntryInv
    <2>2. e.granted = {} /\ Waiters(e) = {} BY <1>2, <2>1, MasksExact DEF IsNoHolderAndNoWaiter
    <2>3. e.waiting \in Seq(Request) BY <2>1 DEF Counted, Entry
    <2>4. e.waiting = <<>>
      <3>1. Len(e.waiting) \in Nat /\ DOMAIN e.waiting = 1..Len(e.waiting) BY <2>3
      <3>2. 1 \notin 1..Len(e.waiting) BY Zenon, <2>2, <3>1 DEF Waiters
      <3>3. Len(e.waiting) = 0 BY <3>1, <3>2
      <3>4. QED BY <2>3, <3>3
    <2>5. RemoveIfUnused(e) = EmptyEntry BY <1>2 DEF RemoveIfUnused
    <2>6. EmptyEntry.granted = {} /\ EmptyEntry.waiting = <<>> BY DEF EmptyEntry
    <2>7. QED BY <2>2, <2>4, <2>5, <2>6, EmptyEntryInv
  <1>3. QED BY <1>1, <1>2

=============================================================================
