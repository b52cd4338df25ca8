--------------------------- MODULE MCTableLockMgr ---------------------------
(* Instances of the lock manager for TLC. *)
EXTENDS TableLockMgrInv, TLC

CONSTANTS t1, t2, t3, a, b, p

(* Every tag in one fast-path partition. *)
OnePartition == [tag \in Tag |-> p]

Threads2 == {t1, t2}
Threads3 == {t1, t2, t3}
Symmetry2 == Permutations(Threads2)
SymmetryCounts == Permutations(Threads2) \cup Permutations(Tag)

(* What the threads ask for: two weak modes, a mode that is neither, and the *)
(* strongest; a weak mode and a self-compatible strong one; one mode each.   *)
AllKinds == [t \in Thread |-> {1, 3, 4, 8}]
WeakAndShare == [t \in Thread |-> {3, 5}]
Three == (t1 :> {3}) @@ (t2 :> {1, 5}) @@ (t3 :> {8})

(* At most one thread at a time holds a lock more than once. *)
HoldsAgain(t) == \E tag \in Tag, m \in LockMode : granted[t][tag][m] > 1
ScopeCounts == \A t, u \in Thread : HoldsAgain(t) /\ HoldsAgain(u) => t = u
=============================================================================
