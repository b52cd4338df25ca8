------------------------------ MODULE LockEntry ------------------------------
(***************************************************************************)
(* One entry of the main lock table (struct LockEntry, lock_entry.cpp):    *)
(* the holders of one lock tag, the FIFO queue of those that wait for it,  *)
(* and the per-mode counters kept beside them.  The operators below are    *)
(* the entry's methods, as functions from an entry to an entry; the lock   *)
(* table applies each of them atomically, under the tag's partition lock.  *)
(*                                                                         *)
(* The holder skip list is a set: its order only speeds up a search.       *)
(* LockRequest::IsValid is constantly true and nothing passes FORCE_HOLD   *)
(* or ONLY_WAIT, so the branches on them are not here.                     *)
(***************************************************************************)
EXTENDS Integers, Sequences, FiniteSets

CONSTANT Thread        \* the threads that can request a lock

(***************************************************************************)
(* Lock modes, numbered as in enum LockMode (DSTORE_NO_LOCK is 0).         *)
(***************************************************************************)
AccessShare          == 1
RowShare             == 2
RowExclusive         == 3
ShareUpdateExclusive == 4
Share                == 5
ShareRowExclusive    == 6
Exclusive            == 7
AccessExclusive      == 8
LockMode == 1..8

(* The modes each mode conflicts with. *)
GetConflictMask(mode) ==
  CASE mode = AccessShare          -> {8}
    [] mode = RowShare             -> {7, 8}
    [] mode = RowExclusive         -> {5, 6, 7, 8}
    [] mode = ShareUpdateExclusive -> {4, 5, 6, 7, 8}
    [] mode = Share                -> {3, 4, 6, 7, 8}
    [] mode = ShareRowExclusive    -> {3, 4, 5, 6, 7, 8}
    [] mode = Exclusive            -> {2, 3, 4, 5, 6, 7, 8}
    [] mode = AccessExclusive      -> LockMode

HasConflictWithMode(requested, mode) == mode \in GetConflictMask(requested)

HasConflictWithMask(requested, mask) == GetConflictMask(requested) \cap mask # {}

Request == [thr : Thread, mode : LockMode]

(***************************************************************************)
(* An entry, and the one Initialize makes.  The table removes an entry     *)
(* with no holder and no waiter, so the empty entry also stands for "not   *)
(* in the table".                                                          *)
(***************************************************************************)
EmptyEntry ==
  [granted    |-> {},
   waiting    |-> <<>>,
   grantedCnt |-> [m \in LockMode |-> 0],
   waitingCnt |-> [m \in LockMode |-> 0]]

(* m_grantMask and m_waitMask: a bit is set with the first request of its  *)
(* mode and cleared when the mode's counter returns to 0.                  *)
GrantMask(e) == {m \in LockMode : e.grantedCnt[m] # 0}
WaitMask(e)  == {m \in LockMode : e.waitingCnt[m] # 0}

IsNoHolderAndNoWaiter(e) == GrantMask(e) = {} /\ WaitMask(e) = {}

(* What the table keeps of an entry after an operation on it. *)
RemoveIfUnused(e) == IF IsNoHolderAndNoWaiter(e) THEN EmptyEntry ELSE e

(* The mask is looked at first, the holders only when it shows a conflict. *)
ConflictsWithHolder(held, mask, r) ==
  /\ HasConflictWithMask(r.mode, mask)
  /\ \E h \in held : h.thr # r.thr /\ HasConflictWithMode(r.mode, h.mode)

HasConflictWithAnyHolder(e, r) == ConflictsWithHolder(e.granted, GrantMask(e), r)

AddToHolderQueue(e, r) ==
  IF r \in e.granted
    THEN e
    ELSE [e EXCEPT !.granted = @ \cup {r}, !.grantedCnt[r.mode] = @ + 1]

RemoveFromHolderQueue(e, r) ==
  [e EXCEPT !.granted = @ \ {r}, !.grantedCnt[r.mode] = @ - 1]

IsWaiter(e, r) == \E i \in DOMAIN e.waiting : e.waiting[i] = r

(* The queue without the link of r, one of its waiters. *)
Unlink(q, r) ==
  LET i == CHOOSE k \in DOMAIN q : q[k] = r
  IN  SubSeq(q, 1, i - 1) \o SubSeq(q, i + 1, Len(q))

\* Mutant: the counter of the mode keeps counting the waiter that left.
RemoveWaiterKeepsCount(e, r) ==
  [e EXCEPT !.waiting = Unlink(@, r)]

RemoveFromWaiterQueue(e, r) ==
  [e EXCEPT !.waiting = Unlink(@, r), !.waitingCnt[r.mode] = @ - 1]

-----------------------------------------------------------------------------
(***************************************************************************)
(* AdvanceWaitingQueue grants from the head of the queue until it meets a  *)
(* waiter that conflicts with a holder, those granted before it included.  *)
(***************************************************************************)
FirstWaiters(e, n) == {e.waiting[i] : i \in 1..n}

(* Whether waiter n + 1 conflicts with a holder once the first n waiters   *)
(* are holders: HasConflictWithAnyHolder in the loop of the advance.       *)
NextConflicts(e, n) ==
  LET w    == e.waiting[n + 1]
      held == e.granted \cup FirstWaiters(e, n)
      mask == GrantMask(e) \cup {r.mode : r \in FirstWaiters(e, n)}
  IN  ConflictsWithHolder(held, mask, w)

(* The number of waiters it grants. *)
Grantable(e) ==
  CHOOSE n \in 0..Len(e.waiting) :
    /\ \A i \in 0..(n - 1) : ~ NextConflicts(e, i)
    /\ n < Len(e.waiting) => NextConflicts(e, n)

(* The first n waiters become holders; one that already is is dropped. *)
GrantFirst(e, n) ==
  LET new == FirstWaiters(e, n) \ e.granted
  IN  [granted    |-> e.granted \cup new,
       waiting    |-> SubSeq(e.waiting, n + 1, Len(e.waiting)),
       grantedCnt |-> [m \in LockMode |->
                         e.grantedCnt[m] + Cardinality({r \in new : r.mode = m})],
       waitingCnt |-> [m \in LockMode |->
                         e.waitingCnt[m] -
                           Cardinality({i \in 1..n : e.waiting[i].mode = m})]]

AdvanceWaitingQueue(e) == GrantFirst(e, Grantable(e))

\* Mutant: only the first of the waiters it grants is woken.
WokenOnlyFirst(e) == {r.thr : r \in FirstWaiters(e, IF Grantable(e) = 0 THEN 0 ELSE 1)}

(* The threads whose isWaiting flag the advance clears (WakeUp). *)
WokenBy(e) == {r.thr : r \in FirstWaiters(e, Grantable(e))}

-----------------------------------------------------------------------------
(***************************************************************************)
(* EarlyDeadLockPreventor: a requester that already holds this lock in     *)
(* another mode must not queue behind a waiter its own lock blocks.        *)
(***************************************************************************)
OwnedLocks(e, t)  == {h.mode : h \in {g \in e.granted : g.thr = t}}
OthersOwned(e, t) == {h.mode : h \in {g \in e.granted : g.thr # t}}

(* The positions of the waiters that locks held by t block. *)
BlockedWaiters(e, t) ==
  {i \in DOMAIN e.waiting : HasConflictWithMask(e.waiting[i].mode, OwnedLocks(e, t))}

FirstBlockingWaiter(e, t) ==
  CHOOSE i \in BlockedWaiters(e, t) : \A j \in BlockedWaiters(e, t) : i <= j

\* Mutant: the locks of the waiter that is overtaken are not looked at.
EarlyDeadLockTrustsWaiter(e, r) ==
  IF BlockedWaiters(e, r.thr) = {} THEN "no_deadlock"
  ELSE LET ahead == {e.waiting[i].mode : i \in 1..(FirstBlockingWaiter(e, r.thr) - 1)}
       IN  IF ~ HasConflictWithMask(r.mode, OthersOwned(e, r.thr) \cup ahead)
             THEN "grant"
             ELSE "cut_in_line"

EarlyDeadLock(e, r) ==
  IF BlockedWaiters(e, r.thr) = {} THEN "no_deadlock"
  ELSE LET first == FirstBlockingWaiter(e, r.thr)
           ahead == {e.waiting[i].mode : i \in 1..(first - 1)}
       IN  IF ~ HasConflictWithMask(r.mode, OthersOwned(e, r.thr) \cup ahead)
             THEN "grant"
           ELSE IF HasConflictWithMask(r.mode, OwnedLocks(e, e.waiting[first].thr))
             THEN "deadlock"
           ELSE "cut_in_line"

InsertWaiter(e, r, i) ==
  [e EXCEPT !.waiting = SubSeq(@, 1, i - 1) \o <<r>> \o SubSeq(@, i, Len(@)),
            !.waitingCnt[r.mode] = @ + 1]

TryAddToWaiterQueue(e, r) ==
  IF IsWaiter(e, r) THEN [entry |-> e, ret |-> "waiting"]
  ELSE LET early == EarlyDeadLock(e, r)
       IN  CASE early = "deadlock" -> [entry |-> e, ret |-> "deadlock"]
             [] early = "grant" -> [entry |-> AddToHolderQueue(e, r), ret |-> "granted"]
             [] early = "cut_in_line" ->
                  [entry |-> InsertWaiter(e, r, FirstBlockingWaiter(e, r.thr)),
                   ret   |-> "waiting"]
             [] early = "no_deadlock" ->
                  [entry |-> InsertWaiter(e, r, Len(e.waiting) + 1), ret |-> "waiting"]

\* Mutant: requests that already wait are ignored.
EnqueueIgnoresWaiters(e, r, dontWait) ==
  IF ~ HasConflictWithAnyHolder(e, r)
    THEN [entry |-> AddToHolderQueue(e, r), ret |-> "granted"]
  ELSE IF dontWait
    THEN [entry |-> e, ret |-> "not_avail"]
  ELSE TryAddToWaiterQueue(e, r)

EnqueueLockRequest(e, r, dontWait) ==
  IF /\ ~ HasConflictWithAnyHolder(e, r)
     /\ ~ HasConflictWithMask(r.mode, WaitMask(e))
    THEN [entry |-> AddToHolderQueue(e, r), ret |-> "granted"]
  ELSE IF dontWait
    THEN [entry |-> e, ret |-> "not_avail"]
  ELSE TryAddToWaiterQueue(e, r)

IsQueued(e, r) == r \in e.granted \/ IsWaiter(e, r)

(* A dequeue looks for the request among the holders, then among the       *)
(* waiters; WithoutRequest is the entry it leaves to AdvanceWaitingQueue.  *)
WithoutRequest(e, r) ==
  IF r \in e.granted THEN RemoveFromHolderQueue(e, r) ELSE RemoveFromWaiterQueue(e, r)

\* Mutant: the queue is advanced only after a holder has left.
DequeueAdvancesForHolders(e, r) ==
  IF r \in e.granted
    THEN LET rest == WithoutRequest(e, r)
         IN  [entry |-> AdvanceWaitingQueue(rest), woken |-> WokenBy(rest)]
    ELSE [entry |-> IF IsWaiter(e, r) THEN WithoutRequest(e, r) ELSE e, woken |-> {}]

(* What a dequeue makes of the entry, and the threads it wakes. *)
DequeueLockRequest(e, r) ==
  IF IsQueued(e, r)
    THEN LET rest == WithoutRequest(e, r)
         IN  [entry |-> AdvanceWaitingQueue(rest), woken |-> WokenBy(rest)]
    ELSE [entry |-> e, woken |-> {}]
=============================================================================
