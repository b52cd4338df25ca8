------------------------------- MODULE LWLock -------------------------------
(***************************************************************************)
(* The light-weight lock of src/lock/dstore_lwlock.cpp: one lock, its      *)
(* 64-bit state word, its wait list, and the threads that acquire it,      *)
(* queue on it, sleep on their futex and wake each other.                  *)
(*                                                                         *)
(* One action is one access to shared memory.  A compare-and-swap loop is  *)
(* one action taken at its last iteration: a failed iteration only reloads *)
(* the word, and the successful one sees exactly the value it computed the *)
(* new word from.  The two compare-and-swaps of UpDateNewStat, which give  *)
(* up instead of looping, are actions of their own.  Accesses to the wait  *)
(* list, which WAIT_LIST_LOCKED protects, are merged with the action that  *)
(* takes or drops that bit.                                                *)
(***************************************************************************)
EXTENDS Integers, Sequences, FiniteSets, Functions

CONSTANTS
    Thread,         \* the threads that use the lock
    Nobody,         \* the holder of a lock given up by LWLockDisown
    Ops,            \* the entry points the threads call
    Sharers,        \* the threads that ask for LW_SHARED
    Excluders,      \* the threads that ask for LW_EXCLUSIVE
    Interrupted     \* threads whose futex is also posted for other reasons

S == "LW_SHARED"
X == "LW_EXCLUSIVE"
None == "none"

AllOps == {"LWLockAcquire", "LWLockConditionalAcquire", "LWLockConditionalAcquireAnyMode",
           "LWLockAcquireOrWait", "LWLockOwn"}

ASSUME ThreadAssumption == IsFiniteSet(Thread) /\ Nobody \notin Thread
ASSUME OpsAssumption == Ops \subseteq AllOps
ASSUME RolesAssumption == Sharers \cup Excluders \cup Interrupted \subseteq Thread

ModesOf(t) == {m \in {S, X} : t \in IF m = S THEN Sharers ELSE Excluders}

VARIABLES
    low,        \* bits 0-31 of state: SHARE_COUNT, SHARED, EXCLUSIVE, DISALLOW_PREEMPT
    high,       \* bits 32-63: WAIT_LIST_LOCKED, RELEASE_OK, HAS_WAITERS
    waiters,    \* lock->waiters
    waiting,    \* lockWaiter.waiting of each thread
    posted,     \* the futex of each thread
    held,       \* the mode recorded in held_lwlocks, per thread and for Nobody
    pc,         \* where each thread is
    op,         \* the entry point it is in
    mode,       \* the mode it asks for
    need,       \* needAllowPreempt
    waked,      \* wakedFromQueue
    queued,     \* it is in its second attempt, after LWLockQueueSelf
    old,        \* the low word UpDateNewStat compares with
    wakeup      \* the private list of LWLockWakeup

vars == <<low, high, waiters, waiting, posted, held, pc, op, mode, need, waked, queued, old, wakeup>>
locals == <<op, mode, need, waked, queued>>

Holder == Thread \cup {Nobody}
PCs == {"idle", "attempt", "cas", "tryWake", "qMark", "qPush", "sleep",
        "dqLock", "dqFound", "dqLost", "dqReleaseOk", "dqSleep", "anyCas", "anySub",
        "relCas", "relRetry", "relRead", "wkLock", "wkFlags", "wkStop", "wkPost"}
Low32 == [cnt : Nat, shared : BOOLEAN, excl : BOOLEAN, disallow : BOOLEAN]
High32 == [listLocked : BOOLEAN, releaseOk : BOOLEAN, hasWaiters : BOOLEAN]
Free == [cnt |-> 0, shared |-> FALSE, excl |-> FALSE, disallow |-> FALSE]

-----------------------------------------------------------------------------
(* Reading the state word. *)

Locked(l) == l.shared \/ l.excl

\* The test after a release: waiters that may be woken, and nobody holds the lock.
CheckWaiters(l, h) == h.hasWaiters /\ h.releaseOk /\ ~Locked(l)

\* A shared attempt that finds SHARED set owns the lock by its increment alone.
DirectShare(l, w) == l.shared /\ (~l.disallow \/ w)

\* Mutant of ShareFree: only DISALLOW_PREEMPT is tested.
ShareFreeIgnoresExclusive(l, w) == ~l.disallow \/ w

\* noLockFlagBefore of LWLockGetDesiredStateShare.
ShareFree(l, w) == ~l.excl /\ (~l.disallow \/ w)

\* Mutant: the increment is taken back even on success.
DesiredShareAlwaysDecrements(l, w) ==
    [l EXCEPT !.cnt = @ - 1,
              !.shared = ShareFree(l, w) \/ (@ /\ ~(l.disallow /\ l.cnt = 1))]

LWLockGetDesiredStateShare(l, w) ==
    IF ShareFree(l, w) THEN [l EXCEPT !.shared = TRUE]
    ELSE [l EXCEPT !.cnt = @ - 1,
                   !.shared = @ /\ ~(l.disallow /\ l.cnt = 1)]

\* Mutant of ExclusiveFree: the thread that raised DISALLOW_PREEMPT obeys it too.
ExclusiveFreeObeysOwnDisallow(l, n, w) == ~Locked(l) /\ ~l.disallow

\* noLockFlagBefore of LWLockGetDesiredStateExclusive.
ExclusiveFree(l, n, w) == ~Locked(l) /\ (n \/ w \/ ~l.disallow)

\* Mutant: DISALLOW_PREEMPT stays up after its owner got the lock.
DesiredExclusiveKeepsDisallow(l, n, w) ==
    IF ExclusiveFree(l, n, w) THEN [l EXCEPT !.excl = TRUE] ELSE l

LWLockGetDesiredStateExclusive(l, n, w) ==
    IF ExclusiveFree(l, n, w)
    THEN [l EXCEPT !.excl = TRUE, !.disallow = @ /\ ~n]
    ELSE l

\* What is left of a wait list when only the threads of a set stay in it.
Keep(ws, set) ==
    LET left[i \in 0..Len(ws)] ==
          IF i = 0 THEN <<>>
          ELSE IF ws[i] \in set THEN Append(left[i - 1], ws[i]) ELSE left[i - 1]
    IN  left[Len(ws)]

\* The mode under which a thread stands in the wait list.
WaiterMode(t) == IF op[t] = "LWLockAcquireOrWait" THEN "LW_WAIT_UNTIL_FREE" ELSE mode[t]

-----------------------------------------------------------------------------
(* Control flow shared by the actions. *)

Goto(t, label) == pc' = [pc EXCEPT ![t] = label]

\* The call returns; its locals die.
Return(t) ==
    /\ Goto(t, "idle")
    /\ op' = [op EXCEPT ![t] = None]
    /\ mode' = [mode EXCEPT ![t] = None]
    /\ need' = [need EXCEPT ![t] = FALSE]
    /\ waked' = [waked EXCEPT ![t] = FALSE]
    /\ queued' = [queued EXCEPT ![t] = FALSE]

\* AddToThreadHeldLockList, then return.
ReturnHolding(t, m) ==
    /\ held' = [held EXCEPT ![t] = m]
    /\ Return(t)

\* LWLockAttemptLock returned false.
Acquired(t) ==
    IF queued[t]
    THEN Goto(t, "dqLock") /\ UNCHANGED <<held, locals>>
    ELSE ReturnHolding(t, mode[t])

\* LWLockAttemptLock returned true.
MustWait(t) ==
    /\ UNCHANGED held
    /\ IF op[t] = "LWLockConditionalAcquire" THEN Return(t)
       ELSE Goto(t, IF queued[t] THEN "sleep" ELSE "qMark") /\ UNCHANGED locals

Start(t, o, m) ==
    /\ pc[t] = "idle" /\ held[t] = None
    /\ o \in Ops
    /\ Goto(t, "attempt")
    /\ op' = [op EXCEPT ![t] = o]
    /\ mode' = [mode EXCEPT ![t] = m]
    /\ UNCHANGED <<low, high, waiters, waiting, posted, held, need, waked, queued, old, wakeup>>

LWLockAcquire(t, m) == Start(t, "LWLockAcquire", m)
LWLockConditionalAcquire(t, m) == Start(t, "LWLockConditionalAcquire", m)
LWLockConditionalAcquireAnyMode(t) == Start(t, "LWLockConditionalAcquireAnyMode", None)
LWLockAcquireOrWait(t, m) == Start(t, "LWLockAcquireOrWait", m)

-----------------------------------------------------------------------------
(* LWLockAttemptLock. *)

\* Exclusive: load, compute, compare-and-swap.
AttemptExclusive(t) ==
    /\ pc[t] = "attempt" /\ mode[t] = X
    /\ low' = LWLockGetDesiredStateExclusive(low, need[t], waked[t])
    /\ IF ExclusiveFree(low, need[t], waked[t]) THEN Acquired(t) ELSE MustWait(t)
    /\ UNCHANGED <<high, waiters, waiting, posted, old, wakeup>>

\* Shared: the unconditional increment.
AttemptShareAdd(t) ==
    /\ pc[t] = "attempt" /\ mode[t] = S
    /\ low' = [low EXCEPT !.cnt = @ + 1]
    /\ IF DirectShare(low, waked[t]) THEN Acquired(t)
       ELSE Goto(t, "cas") /\ UNCHANGED <<held, locals>>
    /\ UNCHANGED <<high, waiters, waiting, posted, old, wakeup>>

\* Shared: the compare-and-swap, or a reload that finds SHARED set by now.
AttemptShareCas(t) ==
    /\ pc[t] = "cas"
    /\ IF DirectShare(low, waked[t])
       THEN Acquired(t) /\ UNCHANGED low
       ELSE /\ low' = LWLockGetDesiredStateShare(low, waked[t])
            /\ IF ShareFree(low, waked[t]) THEN Acquired(t)
               ELSE IF low.shared THEN Goto(t, "tryWake") /\ UNCHANGED <<held, locals>>
               ELSE MustWait(t)
    /\ UNCHANGED <<high, waiters, waiting, posted, old, wakeup>>

\* Mutant: the attempt that cleared SHARED leaves the waiters alone.
TryWakeupNever(t) ==
    /\ pc[t] = "tryWake"
    /\ MustWait(t)
    /\ UNCHANGED <<low, high, waiters, waiting, posted, old, wakeup>>

LWLockTryWakeupWhenAttemptLock(t) ==
    /\ pc[t] = "tryWake"
    /\ IF CheckWaiters(low, high)
       THEN Goto(t, "wkLock") /\ UNCHANGED <<held, locals>>
       ELSE MustWait(t)
    /\ UNCHANGED <<low, high, waiters, waiting, posted, old, wakeup>>

-----------------------------------------------------------------------------
(* LWLockConditionalAcquireAnyMode: exclusive if free, else shared, else fail. *)

AnyModeAdd(t) ==
    /\ pc[t] = "attempt" /\ op[t] = "LWLockConditionalAcquireAnyMode"
    /\ low' = [low EXCEPT !.cnt = @ + 1]
    /\ IF low.shared THEN ReturnHolding(t, S) ELSE Goto(t, "anyCas") /\ UNCHANGED <<held, locals>>
    /\ UNCHANGED <<high, waiters, waiting, posted, old, wakeup>>

AnyModeCas(t) ==
    /\ pc[t] = "anyCas"
    /\ \/ /\ low.shared
          /\ ReturnHolding(t, S)
          /\ UNCHANGED low
       \/ /\ low.excl /\ ~low.shared
          /\ low' = [low EXCEPT !.cnt = @ - 1]
          /\ Return(t) /\ UNCHANGED held
       \/ /\ ~Locked(low)
          /\ low' = [low EXCEPT !.excl = TRUE]
          /\ Goto(t, "anySub") /\ UNCHANGED <<held, locals>>
    /\ UNCHANGED <<high, waiters, waiting, posted, old, wakeup>>

\* The increment is taken back once the lock is held exclusively.
\* Mutant: the increment stays.
AnyModeSubForgets(t) ==
    /\ pc[t] = "anySub"
    /\ ReturnHolding(t, X)
    /\ UNCHANGED <<low, high, waiters, waiting, posted, old, wakeup>>

AnyModeSub(t) ==
    /\ pc[t] = "anySub"
    /\ low' = [low EXCEPT !.cnt = @ - 1]
    /\ ReturnHolding(t, X)
    /\ UNCHANGED <<high, waiters, waiting, posted, old, wakeup>>

-----------------------------------------------------------------------------
(* LWLockQueueSelf, and sleeping on the futex. *)

\* WAIT_LIST_LOCKED and HAS_WAITERS are set before the thread is in the list.
QueueSelfMark(t) ==
    /\ pc[t] = "qMark"
    /\ ~high.listLocked
    /\ high' = [high EXCEPT !.listLocked = TRUE, !.hasWaiters = TRUE]
    /\ Goto(t, "qPush")
    /\ UNCHANGED <<low, waiters, waiting, posted, held, locals, old, wakeup>>

QueueSelfPush(t) ==
    /\ pc[t] = "qPush"
    /\ waiting' = [waiting EXCEPT ![t] = TRUE]
    /\ waiters' = IF WaiterMode(t) = "LW_WAIT_UNTIL_FREE" THEN <<t>> \o waiters ELSE Append(waiters, t)
    /\ high' = [high EXCEPT !.listLocked = FALSE]
    /\ queued' = [queued EXCEPT ![t] = TRUE]
    /\ Goto(t, "attempt")
    /\ UNCHANGED <<low, posted, held, op, mode, need, waked, old, wakeup>>

\* Mutant of WakedFromQueue: RELEASE_OK stays down.
WakedKeepsReleaseOk(t) ==
    /\ waked' = [waked EXCEPT ![t] = TRUE]
    /\ queued' = [queued EXCEPT ![t] = FALSE]
    /\ Goto(t, "attempt")
    /\ UNCHANGED <<op, mode, need, high>>

\* LWLockAcquire leaves its wait loop: RELEASE_OK is set again, then a new round.
WakedFromQueue(t) ==
    /\ waked' = [waked EXCEPT ![t] = TRUE]
    /\ queued' = [queued EXCEPT ![t] = FALSE]
    /\ high' = [high EXCEPT !.releaseOk = TRUE]
    /\ Goto(t, "attempt")
    /\ UNCHANGED <<op, mode, need>>

\* The futex was posted; the wait ends unless the post was for another reason.
SleepPosted(t) ==
    /\ pc[t] = "sleep" /\ posted[t]
    /\ posted' = [posted EXCEPT ![t] = FALSE]
    /\ \/ waiting[t] /\ UNCHANGED <<pc, locals, high>>
       \/ ~waiting[t] /\ op[t] = "LWLockAcquire" /\ WakedFromQueue(t)
       \/ ~waiting[t] /\ op[t] = "LWLockAcquireOrWait" /\ Return(t) /\ UNCHANGED high
    /\ UNCHANGED <<low, waiters, waiting, held, old, wakeup>>

\* LWLockWaitWithDisallowPreempt: the timed sleep of an exclusive waiter ran out.
SleepTimeout(t) ==
    /\ pc[t] = "sleep" /\ op[t] = "LWLockAcquire" /\ mode[t] = X
    /\ \/ /\ waiting[t]
          /\ low' = [low EXCEPT !.disallow = TRUE]
          /\ need' = [need EXCEPT ![t] = @ \/ ~low.disallow]
          /\ UNCHANGED <<pc, op, mode, waked, queued, high>>
       \/ ~waiting[t] /\ WakedFromQueue(t) /\ UNCHANGED low
    /\ UNCHANGED <<waiters, waiting, posted, held, old, wakeup>>

\* A post meant for the lock manager or another waiter of the same futex.
UnrelatedPost(t) ==
    /\ t \in Interrupted
    /\ ~posted[t]
    /\ posted' = [posted EXCEPT ![t] = TRUE]
    /\ UNCHANGED <<low, high, waiters, waiting, held, pc, locals, old, wakeup>>

-----------------------------------------------------------------------------
(* LWLockDequeueSelf: the second attempt got the lock. *)

\* Mutant: the thread stays linked in the wait list.
DequeueSelfLeavesNode(t) ==
    /\ pc[t] = "dqLock"
    /\ ~high.listLocked
    /\ high' = [high EXCEPT !.listLocked = TRUE]
    /\ Goto(t, IF t \in Range(waiters) THEN "dqFound" ELSE "dqLost")
    /\ UNCHANGED <<low, waiters, waiting, posted, held, locals, old, wakeup>>

DequeueSelfLock(t) ==
    /\ pc[t] = "dqLock"
    /\ ~high.listLocked
    /\ high' = [high EXCEPT !.listLocked = TRUE]
    /\ waiters' = Keep(waiters, Thread \ {t})
    /\ Goto(t, IF t \in Range(waiters) THEN "dqFound" ELSE "dqLost")
    /\ UNCHANGED <<low, waiting, posted, held, locals, old, wakeup>>

DequeueSelfUnlock(t) ==
    /\ pc[t] \in {"dqFound", "dqLost"}
    /\ high' = [high EXCEPT !.listLocked = FALSE,
                            !.hasWaiters = @ /\ waiters # <<>>]
    /\ IF pc[t] = "dqFound"
       THEN waiting' = [waiting EXCEPT ![t] = FALSE] /\ ReturnHolding(t, mode[t])
       ELSE Goto(t, "dqReleaseOk") /\ UNCHANGED <<waiting, held, locals>>
    /\ UNCHANGED <<low, waiters, posted, old, wakeup>>

DequeueSelfReleaseOk(t) ==
    /\ pc[t] = "dqReleaseOk"
    /\ high' = [high EXCEPT !.releaseOk = TRUE]
    /\ Goto(t, "dqSleep")
    /\ UNCHANGED <<low, waiters, waiting, posted, held, locals, old, wakeup>>

DequeueSelfSleep(t) ==
    /\ pc[t] = "dqSleep" /\ posted[t]
    /\ posted' = [posted EXCEPT ![t] = FALSE]
    /\ IF waiting[t] THEN UNCHANGED <<pc, held, locals>> ELSE ReturnHolding(t, mode[t])
    /\ UNCHANGED <<low, high, waiters, waiting, old, wakeup>>

-----------------------------------------------------------------------------
(* LWLockRelease and UpDateNewStat. *)

BeginRelease(t, label) ==
    /\ held' = [held EXCEPT ![t] = None]
    /\ Goto(t, label)
    /\ op' = [op EXCEPT ![t] = IF label = "idle" THEN None ELSE "LWLockRelease"]
    /\ UNCHANGED <<mode, need, waked, queued>>

ReleaseExclusive(t) ==
    /\ pc[t] = "idle" /\ held[t] = X
    /\ low' = [low EXCEPT !.excl = FALSE]
    /\ BeginRelease(t, IF CheckWaiters(low', high) THEN "wkLock" ELSE "idle")
    /\ UNCHANGED <<high, waiters, waiting, posted, old, wakeup>>

\* The decrement; the thread that brings the count to zero clears SHARED.
ReleaseShare(t) ==
    /\ pc[t] = "idle" /\ held[t] = S
    /\ low' = [low EXCEPT !.cnt = @ - 1]
    /\ IF low.shared /\ low'.cnt = 0
       THEN BeginRelease(t, "relCas") /\ old' = [old EXCEPT ![t] = low']
       ELSE BeginRelease(t, "idle") /\ UNCHANGED old
    /\ UNCHANGED <<high, waiters, waiting, posted, wakeup>>

\* The first compare-and-swap; it is retried only when DISALLOW_PREEMPT came in between.
ReleaseShareCas(t) ==
    /\ pc[t] = "relCas"
    /\ \/ /\ low = old[t]
          /\ low' = [low EXCEPT !.shared = FALSE]
          /\ old' = [old EXCEPT ![t] = Free]
          /\ Goto(t, "relRead") /\ UNCHANGED locals
       \/ /\ low # old[t] /\ low.disallow /\ low.cnt = 0 /\ low.shared
          /\ old' = [old EXCEPT ![t] = low]
          /\ Goto(t, "relRetry") /\ UNCHANGED <<low, locals>>
       \/ /\ low # old[t] /\ ~(low.disallow /\ low.cnt = 0 /\ low.shared)
          /\ old' = [old EXCEPT ![t] = Free]
          /\ Return(t) /\ UNCHANGED low
    /\ UNCHANGED <<high, waiters, waiting, posted, held, wakeup>>

ReleaseShareRetry(t) ==
    /\ pc[t] = "relRetry"
    /\ old' = [old EXCEPT ![t] = Free]
    /\ IF low = old[t]
       THEN low' = [low EXCEPT !.shared = FALSE] /\ Goto(t, "relRead") /\ UNCHANGED locals
       ELSE Return(t) /\ UNCHANGED low
    /\ UNCHANGED <<high, waiters, waiting, posted, held, wakeup>>

\* SHARED is cleared; the whole word is read again to decide on a wakeup.
ReleaseShareRead(t) ==
    /\ pc[t] = "relRead"
    /\ IF CheckWaiters(low, high) THEN Goto(t, "wkLock") /\ UNCHANGED locals ELSE Return(t)
    /\ UNCHANGED <<low, high, waiters, waiting, posted, held, old, wakeup>>

-----------------------------------------------------------------------------
(* LWLockWakeup. *)

\* The waiters a wakeup removes: those in front that only wait for the lock to
\* be free together with an exclusive waiter right behind them, else everybody
\* who does not want the lock exclusively.
ToWake(ws) ==
    LET first == {k \in DOMAIN ws : /\ WaiterMode(ws[k]) = X
                                    /\ \A j \in 1..(k - 1) : WaiterMode(ws[j]) = "LW_WAIT_UNTIL_FREE"}
    IN  IF first # {} THEN {ws[j] : j \in 1..(CHOOSE k \in first : TRUE)}
        ELSE {w \in Range(ws) : WaiterMode(w) # X}

WakeupCollect(t) ==
    /\ pc[t] = "wkLock"
    /\ ~high.listLocked
    /\ high' = [high EXCEPT !.listLocked = TRUE]
    /\ wakeup' = [wakeup EXCEPT ![t] = Keep(waiters, ToWake(waiters))]
    /\ waiters' = Keep(waiters, Thread \ ToWake(waiters))
    /\ Goto(t, "wkFlags")
    /\ UNCHANGED <<low, waiting, posted, held, locals, old>>

\* LWLockWakeup returns to LWLockRelease or to the failed attempt.
WakeupDone(t) == IF op[t] = "LWLockRelease" THEN Return(t) /\ UNCHANGED held ELSE MustWait(t)

WakeupFlags(t) ==
    /\ pc[t] = "wkFlags"
    /\ high' = [listLocked |-> FALSE,
                releaseOk |-> \A w \in Range(wakeup[t]) : WaiterMode(w) = "LW_WAIT_UNTIL_FREE",
                hasWaiters |-> high.hasWaiters /\ wakeup[t] # <<>>]
    /\ IF wakeup[t] = <<>> THEN WakeupDone(t) ELSE Goto(t, "wkStop") /\ UNCHANGED <<held, locals>>
    /\ UNCHANGED <<low, waiters, waiting, posted, old, wakeup>>

\* DListDelete, then StopWaiting; the thread is remembered for the post ...
WakeupStop(t) ==
    /\ pc[t] = "wkStop"
    /\ waiting' = [waiting EXCEPT ![Head(wakeup[t])] = FALSE]
    /\ Goto(t, "wkPost")
    /\ UNCHANGED <<low, high, waiters, posted, held, locals, old, wakeup>>

\* ... then the post.
WakeupPost(t) ==
    /\ pc[t] = "wkPost"
    /\ posted' = [posted EXCEPT ![Head(wakeup[t])] = TRUE]
    /\ wakeup' = [wakeup EXCEPT ![t] = Tail(@)]
    /\ IF Len(wakeup[t]) = 1 THEN WakeupDone(t) ELSE Goto(t, "wkStop") /\ UNCHANGED <<held, locals>>
    /\ UNCHANGED <<low, high, waiters, waiting, old>>

-----------------------------------------------------------------------------
(* A lock taken by one thread and released by another. *)

LWLockDisown(t) ==
    /\ "LWLockOwn" \in Ops
    /\ pc[t] = "idle" /\ held[t] # None /\ held[Nobody] = None
    /\ Locked(low)
    /\ held' = [held EXCEPT ![t] = None, ![Nobody] = held[t]]
    /\ UNCHANGED <<low, high, waiters, waiting, posted, pc, locals, old, wakeup>>

LWLockOwn(t) ==
    /\ pc[t] = "idle" /\ held[t] = None /\ held[Nobody] # None
    /\ Locked(low)
    /\ held' = [held EXCEPT ![t] = held[Nobody], ![Nobody] = None]
    /\ UNCHANGED <<low, high, waiters, waiting, posted, pc, locals, old, wakeup>>

-----------------------------------------------------------------------------
Init ==
    /\ low = Free
    /\ high = [listLocked |-> FALSE, releaseOk |-> TRUE, hasWaiters |-> FALSE]
    /\ waiters = <<>>
    /\ waiting = [t \in Thread |-> FALSE]
    /\ posted = [t \in Thread |-> FALSE]
    /\ held = [h \in Holder |-> None]
    /\ pc = [t \in Thread |-> "idle"]
    /\ op = [t \in Thread |-> None]
    /\ mode = [t \in Thread |-> None]
    /\ need = [t \in Thread |-> FALSE]
    /\ waked = [t \in Thread |-> FALSE]
    /\ queued = [t \in Thread |-> FALSE]
    /\ old = [t \in Thread |-> Free]
    /\ wakeup = [t \in Thread |-> <<>>]

Call(t) ==
    \/ \E m \in ModesOf(t) : \/ LWLockAcquire(t, m)
                             \/ LWLockConditionalAcquire(t, m)
                             \/ LWLockAcquireOrWait(t, m)
    \/ LWLockConditionalAcquireAnyMode(t)

LWLockRelease(t) == ReleaseExclusive(t) \/ ReleaseShare(t)

\* The steps of a call once it has begun.
Step(t) ==
    \/ AttemptExclusive(t) \/ AttemptShareAdd(t) \/ AttemptShareCas(t)
    \/ LWLockTryWakeupWhenAttemptLock(t)
    \/ AnyModeAdd(t) \/ AnyModeCas(t) \/ AnyModeSub(t)
    \/ QueueSelfMark(t) \/ QueueSelfPush(t) \/ SleepPosted(t)
    \/ DequeueSelfLock(t) \/ DequeueSelfUnlock(t) \/ DequeueSelfReleaseOk(t) \/ DequeueSelfSleep(t)
    \/ ReleaseShareCas(t) \/ ReleaseShareRetry(t) \/ ReleaseShareRead(t)
    \/ WakeupCollect(t) \/ WakeupFlags(t) \/ WakeupStop(t) \/ WakeupPost(t)

Next ==
    \E t \in Thread :
        \/ Call(t) \/ LWLockRelease(t) \/ Step(t)
        \/ SleepTimeout(t) \/ UnrelatedPost(t)
        \/ LWLockDisown(t) \/ LWLockOwn(t)

Spec == Init /\ [][Next]_vars

\* A thread runs on, its timed sleep runs out, and critical sections end.
Fairness ==
    \A t \in Thread : WF_vars(Step(t)) /\ WF_vars(LWLockRelease(t)) /\ WF_vars(SleepTimeout(t))

FairSpec == Spec /\ Fairness

-----------------------------------------------------------------------------
(* Who owns the lock, and who has an increment in SHARE_COUNT. *)

Dequeueing(t) == pc[t] \in {"dqLock", "dqFound", "dqLost", "dqReleaseOk", "dqSleep"}

SOwner(h) == held[h] = S \/ (h \in Thread /\ Dequeueing(h) /\ mode[h] = S)
XOwner(h) == held[h] = X \/ (h \in Thread /\ (pc[h] = "anySub" \/ (Dequeueing(h) /\ mode[h] = X)))

Counted == {h \in Holder : SOwner(h) \/ (h \in Thread /\ pc[h] \in {"cas", "anyCas", "anySub"})}

\* A thread that raised DISALLOW_PREEMPT and has not got the lock yet.
Owes(t) == need[t] /\ ~XOwner(t)

\* The waiters still linked in the private list of a wakeup.
Taken(u) == IF pc[u] = "wkPost" THEN Tail(wakeup[u]) ELSE wakeup[u]

\* A thread that sleeps in the wait list and nobody has begun to wake.
Asleep(t) == pc[t] = "sleep" /\ waiting[t] /\ t \in Range(waiters) /\ ~posted[t]

-----------------------------------------------------------------------------
(* Properties. *)

\* The state word and the locals of the threads have their types.
WordTypeOK ==
    /\ low \in Low32
    /\ high \in High32
    /\ held \in [Holder -> {None, S, X}]
    /\ pc \in [Thread -> PCs]
    /\ op \in [Thread -> AllOps \cup {None, "LWLockRelease"}]
    /\ mode \in [Thread -> {None, S, X}]
    /\ need \in [Thread -> BOOLEAN]
    /\ waked \in [Thread -> BOOLEAN]
    /\ queued \in [Thread -> BOOLEAN]
    /\ old \in [Thread -> Low32]

\* The wait lists and the futexes have their types.
ListTypeOK ==
    /\ waiters \in Seq(Thread)
    /\ wakeup \in [Thread -> Seq(Thread)]
    /\ waiting \in [Thread -> BOOLEAN]
    /\ posted \in [Thread -> BOOLEAN]

\* Every variable has its type; in particular SHARE_COUNT never underflows.
TypeOK == WordTypeOK /\ ListTypeOK

\* An exclusive holder excludes every other holder, whatever transient
\* increments shared attempts leave in the word (LWLockAttemptLock, UpDateNewStat).
MutualExclusion ==
    \A g, h \in Holder : XOwner(g) /\ g # h => ~XOwner(h) /\ ~SOwner(h)

\* SHARE_COUNT is the number of shared holders plus the attempts in flight, so it
\* never underflows; EXCLUSIVE stands for exactly one holder, SHARED is up while
\* anybody holds the lock shared, and the two are never up together.
StateWordCounts ==
    /\ low.cnt = Cardinality(Counted)
    /\ low.excl <=> \E h \in Holder : XOwner(h)
    /\ (\E h \in Holder : SOwner(h)) => low.shared
    /\ ~(low.shared /\ low.excl)

\* Where the threads are agrees with what they hold: a thread inside a call holds
\* nothing yet, and UpDateNewStat compares with a word that nobody holds.
ControlInv ==
    \A t \in Thread :
        /\ pc[t] # "idle" => held[t] = None
        /\ pc[t] = "cas" => mode[t] = S
        /\ Dequeueing(t) => mode[t] \in {S, X}
        /\ pc[t] \in {"relCas", "relRetry"} => old[t].cnt = 0 /\ old[t].shared /\ ~old[t].excl

\* The four together are inductive.
IInv == WordTypeOK /\ ControlInv /\ StateWordCounts /\ MutualExclusion

\* DISALLOW_PREEMPT is up exactly while one exclusive waiter that raised it still
\* owes its removal: it can neither be lost nor stay up for ever.
DisallowHasOneOwner ==
    /\ low.disallow <=> \E t \in Thread : Owes(t)
    /\ \A t, u \in Thread : Owes(t) /\ Owes(u) => t = u

\* A thread stands in one wait list at most once, and whoever is linked anywhere is
\* still marked as waiting, so LWLockQueueSelf never panics or links a node twice;
\* a wait list that is not empty is announced by HAS_WAITERS, and nobody takes a
\* waiter off one that is not (the assertion of LWLockWakeup).
LinkedOnce ==
    /\ IsInjective(waiters)
    /\ \A u \in Thread : IsInjective(Taken(u)) /\ Range(Taken(u)) \cap Range(waiters) = {}
    /\ \A u, v \in Thread : u # v => Range(Taken(u)) \cap Range(Taken(v)) = {}
    /\ \A t \in Range(waiters) : waiting[t]
    /\ \A u \in Thread : \A t \in Range(Taken(u)) : waiting[t]
    /\ \A t \in Thread : pc[t] \in {"qMark", "qPush"} => ~waiting[t]
    /\ waiters # <<>> \/ (\E t \in Thread : pc[t] = "wkFlags" /\ wakeup[t] # <<>>) => high.hasWaiters

\* No lost wakeup: when nobody holds the lock and every thread is either outside
\* or asleep in the wait list, nobody is asleep.
NoLostWakeup ==
    (/\ \A h \in Holder : held[h] = None
     /\ \A t \in Thread : pc[t] = "idle" \/ Asleep(t))
    => \A t \in Thread : ~Asleep(t)

\* A thread that sleeps in the wait list is woken.
EveryWaiterWoken == \A t \in Thread : pc[t] = "sleep" ~> pc[t] # "sleep"

\* An exclusive waiter that raised DISALLOW_PREEMPT gets the lock.
DisallowLeadsToLock == \A t \in Thread : need[t] ~> held[t] = X

=============================================================================
