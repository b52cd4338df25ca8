------------------------------ MODULE LazyLock ------------------------------
(***************************************************************************)
(* Lazy table locks (resowner.cpp, enableLazyLock).  A transaction notes a *)
(* weak table lock in a slot of its own and counts it in the thread's hint *)
(* word for the tag's partition, without a visit to the lock manager.  A   *)
(* strong request first closes the partition on every thread, waits until  *)
(* no thread counts a lazy lock there, and only then enters the lock       *)
(* manager.  A thread that meets a closed partition pushes its lazy locks  *)
(* into the lock manager and, when no lazy lock is left in a partition,    *)
(* wakes those that wait for it.                                           *)
(*                                                                         *)
(* The hint word is one atomic: its counter, and the bit that closes it.   *)
(* The list of strong requests is protected by one LWLock, hintLock, which *)
(* is held across the walk over all threads.                               *)
(*                                                                         *)
(* The lock manager below is what TableLockMgr promises: a strong lock     *)
(* excludes the locks of other threads on its tag, a weak one is refused   *)
(* while another thread holds a strong one or waits for it.  One weak and  *)
(* one strong mode stand for all of them.                                  *)
(***************************************************************************)
EXTENDS Integers, Sequences, FiniteSets

CONSTANTS
  Order,     \* the threads, in the order of the thread-core array
  Tag,       \* table tags
  PartCnt,   \* LAZY_LOCK_HINT_PART_CNT
  PartOf,    \* GetLazyLockPartIdFromTagHash
  MaxCnt,    \* bound: lazy locks of a thread on one tag
  Weak,      \* the threads that lock in weak modes
  Strong,    \* the threads that lock in strong modes
  Comers,    \* the threads that may register and unregister; the others stay
  MayFail,   \* the allocations that may fail: of a lock in a slot, of a lock that is
             \* pushed, of a strong request, of a strong lock
  NoTag

Thread == {Order[i] : i \in DOMAIN Order}
Part   == 0..(PartCnt - 1)

ASSUME OrderAssumption ==
  /\ Order \in Seq(Thread)
  /\ \A i, j \in DOMAIN Order : Order[i] = Order[j] => i = j

ASSUME LazyAssumption ==
  /\ PartCnt \in Nat \ {0}
  /\ PartOf \in [Tag -> Part]
  /\ MaxCnt \in Nat \ {0}
  /\ Weak \subseteq Thread /\ Strong \subseteq Thread /\ Comers \subseteq Thread
  /\ MayFail \subseteq {"slot", "push", "request", "lock"}
  /\ NoTag \notin Tag

VARIABLES
  active,     \* the threads in m_sortCoreIdxArr
  cnt,        \* m_lazyLockHintBits without its top bit: thread -> partition -> Nat
  closed,     \* LAZY_LOCK_POTENTIAL_CONFLICT of m_lazyLockHintBits
  slot,       \* m_lazyLockSlots: thread -> partition -> the tag and how often
  request,    \* m_lockRequestList: partition -> the strong requests
  waitFlag,   \* LazyLockConflictHint::m_isWaiting
  hintLock,   \* the thread that walks over all threads, with m_coreLock (shared)
              \* and m_conflictHintlock (exclusive) held: at most one
  isWaiting,  \* LockThreadContext::isWaiting
  weak,       \* weak locks in the lock manager: thread -> tag -> Nat
  strong,     \* strong locks in the lock manager: tag -> threads
  call        \* what each thread is doing

vars == <<active, cnt, closed, slot, request, waitFlag, hintLock, isWaiting, weak, strong, call>>
hintVars == <<cnt, closed>>
listVars == <<request, waitFlag, hintLock>>
lockVars == <<weak, strong>>

(***************************************************************************)
(* A call: its next step, its tag, the step after a push or an enable, the *)
(* number of threads a walk has passed (or the partition whose count is to *)
(* be lowered, and by how much), what a loop has found, and whether it is  *)
(* the end of a transaction.                                               *)
(***************************************************************************)
IdleCall == [pc |-> "idle", tag |-> NoTag, next |-> "idle", at |-> 0, n |-> 0,
             found |-> FALSE, ending |-> FALSE]
FreeSlot == [tag |-> NoTag, cnt |-> 0]

PCs == {"idle", "rollback", "push", "decrease", "wake", "weak", "wait", "disable", "disabling",
        "lazywait", "strong", "enable", "enabling", "unlock", "release"}

Init ==
  /\ active = Thread
  /\ cnt = [t \in Thread |-> [p \in Part |-> 0]]
  /\ closed = [t \in Thread |-> [p \in Part |-> FALSE]]
  /\ slot = [t \in Thread |-> [p \in Part |-> FreeSlot]]
  /\ request = [p \in Part |-> {}]
  /\ waitFlag = [p \in Part |-> FALSE]
  /\ hintLock = {}
  /\ isWaiting = [t \in Thread |-> FALSE]
  /\ weak = [t \in Thread |-> [tag \in Tag |-> 0]]
  /\ strong = [tag \in Tag |-> {}]
  /\ call = [t \in Thread |-> IdleCall]

Goto(t, pc)       == call' = [call EXCEPT ![t].pc = pc]
Push(t, next)     == call' = [call EXCEPT ![t].pc = "push", ![t].next = next]
Return(t)         == call' = [call EXCEPT ![t] = IdleCall]
Continue(t)       == IF call[t].next = "idle" THEN Return(t) ELSE Goto(t, call[t].next)
Start(t, pc, tag) == call' = [call EXCEPT ![t] = [IdleCall EXCEPT !.pc = pc, !.tag = tag]]

CallPart(t) == PartOf[call[t].tag]

(* t is at a step, or pushes its lazy locks before it gets there. *)
At(t, pc) ==
  \/ call[t].pc = pc
  \/ call[t].pc \in {"push", "decrease", "wake"} /\ call[t].next = pc

(***************************************************************************)
(* The lock manager: a weak lock cannot be had while another thread holds  *)
(* a strong one, and may be refused while another one waits for it.        *)
(***************************************************************************)
AnyHeld(t, tag) == \E u \in Thread \ {t} : u \in strong[tag] \/ weak[u][tag] > 0
StrongHeld(t, tag) == strong[tag] \ {t} # {}
StrongAhead(t, tag) ==
  StrongHeld(t, tag) \/ \E u \in Thread \ {t} : At(u, "strong") /\ call[u].tag = tag

-----------------------------------------------------------------------------
(* Weak locks.                                                             *)

(* IncreaseLazyLockCnt: the compare-and-swap fails if the bit is set. *)
IncreaseRefused(t, p) == closed[t][p]

(***************************************************************************)
(* LazyLock: count the lock in the hint word unless the partition is       *)
(* closed, then note it in the slot, unless the slot has another tag.      *)
(***************************************************************************)
LazyLock(t, tag) ==
  LET p == PartOf[tag]
  IN  /\ call[t].pc = "idle" /\ t \in Weak \cap active
      /\ slot[t][p].tag = tag => slot[t][p].cnt < MaxCnt
      /\ weak[t][tag] < MaxCnt
      /\ IF IncreaseRefused(t, p)
           THEN /\ call' = [call EXCEPT ![t] = [IdleCall EXCEPT !.pc = "push", !.tag = tag,
                                                                !.next = "weak"]]
                /\ UNCHANGED <<cnt, slot>>
           ELSE /\ cnt' = [cnt EXCEPT ![t][p] = @ + 1]
                /\ \/ /\ slot[t][p].tag \in {NoTag, tag}
                      /\ slot' = [slot EXCEPT ![t][p] = [tag |-> tag, cnt |-> @.cnt + 1]]
                      /\ UNCHANGED call
                   \/ /\ slot[t][p].tag \notin {NoTag, tag} \/ "slot" \in MayFail
                      /\ Start(t, "rollback", tag)
                      /\ UNCHANGED slot
      /\ UNCHANGED <<active, closed, isWaiting, listVars, lockVars>>

\* Mutant: the rolled-back lock is taken off twice.
RolledBackTwice(n) == n - 2

RolledBack(n) == n - 1

(* The lock could not be noted: the count goes back, whether or not the    *)
(* partition was closed meanwhile, and the lock manager is asked instead.  *)
LazyLockRollback(t) ==
  /\ call[t].pc = "rollback"
  /\ cnt' = [cnt EXCEPT ![t][CallPart(t)] = RolledBack(@)]
  /\ Goto(t, "weak")
  /\ UNCHANGED <<active, closed, slot, isWaiting, listVars, lockVars>>

(* The lock manager grants the weak lock, or the wait for it fails. *)
WeakLock(t) ==
  /\ call[t].pc = "weak"
  /\ \/ /\ ~ StrongHeld(t, call[t].tag)
        /\ weak' = [weak EXCEPT ![t][call[t].tag] = @ + 1]
     \/ StrongAhead(t, call[t].tag) /\ UNCHANGED weak
  /\ Return(t)
  /\ UNCHANGED <<active, hintVars, slot, isWaiting, listVars, strong>>

(* The lazy slot first; what is not there is in the lock manager. *)
UnlockWeak(t, tag) ==
  LET p == PartOf[tag]
  IN  /\ call[t].pc = "idle"
      /\ \/ /\ slot[t][p].tag = tag
            /\ cnt' = [cnt EXCEPT ![t][p] = @ - 1]
            /\ slot' = [slot EXCEPT ![t][p] =
                          IF @.cnt = 1 THEN FreeSlot ELSE [tag |-> tag, cnt |-> @.cnt - 1]]
            /\ IF closed[t][p] THEN Push(t, "idle") ELSE UNCHANGED call
            /\ UNCHANGED weak
         \/ /\ slot[t][p].tag # tag /\ weak[t][tag] > 0
            /\ weak' = [weak EXCEPT ![t][tag] = @ - 1]
            /\ UNCHANGED <<cnt, slot, call>>
      /\ UNCHANGED <<active, closed, isWaiting, listVars, strong>>

(***************************************************************************)
(* The end of a transaction.  ReleaseAllLocks drops the locks that are in  *)
(* the lock manager, then ReleaseAllLazyLocks empties one slot after the   *)
(* other and remembers whether one of their partitions was closed.         *)
(***************************************************************************)
HoldsInLockManager(t) == \E tag \in Tag : weak[t][tag] > 0 \/ t \in strong[tag]
HoldsLazily(t) == \E p \in Part : slot[t][p] # FreeSlot

ReleaseAllLocks(t) ==
  /\ \/ /\ call[t].pc = "idle"
        /\ HoldsInLockManager(t) \/ HoldsLazily(t)
        /\ call' = [call EXCEPT ![t].pc = "release", ![t].ending = TRUE]
        /\ UNCHANGED weak
     \/ /\ call[t].pc = "release"
        /\ \E tag \in Tag :
             \/ /\ weak[t][tag] > 0
                /\ weak' = [weak EXCEPT ![t][tag] = 0]
                /\ UNCHANGED call
             \/ /\ t \in strong[tag]
                /\ call' = [call EXCEPT ![t].pc = "enable", ![t].tag = tag, ![t].next = "unlock"]
                /\ UNCHANGED weak
  /\ UNCHANGED <<active, hintVars, slot, isWaiting, listVars, strong>>

ReleaseAllLazyLocks(t) ==
  /\ call[t].pc = "release"
  /\ ~ HoldsInLockManager(t)
  /\ \/ \E p \in Part :
          /\ slot[t][p] # FreeSlot
          /\ cnt' = [cnt EXCEPT ![t][p] = @ - slot[t][p].cnt]
          /\ slot' = [slot EXCEPT ![t][p] = FreeSlot]
          /\ call' = [call EXCEPT ![t].found = @ \/ closed[t][p]]
     \/ /\ ~ HoldsLazily(t)
        /\ IF call[t].found THEN Push(t, "idle") ELSE Return(t)
        /\ UNCHANGED <<cnt, slot>>
  /\ UNCHANGED <<active, closed, isWaiting, listVars, lockVars>>

-----------------------------------------------------------------------------
(* TryActuallyAcquireLazyLocksOnCurrentThread.                             *)

(***************************************************************************)
(* Step 1, one slot: its locks enter the lock manager, all or none.  The   *)
(* first refusal ends the whole attempt.                                   *)
(***************************************************************************)
ActuallyAcquireLazyLocks(t) ==
  /\ call[t].pc = "push"
  /\ \/ \E p \in Part :
          /\ slot[t][p] # FreeSlot
          /\ \/ /\ ~ StrongHeld(t, slot[t][p].tag)
                /\ weak' = [weak EXCEPT ![t][slot[t][p].tag] = @ + slot[t][p].cnt]
                /\ slot' = [slot EXCEPT ![t][p] = FreeSlot]
                /\ call' = [call EXCEPT ![t].pc = "decrease", ![t].at = p,
                                        ![t].n = slot[t][p].cnt]
             \/ /\ StrongAhead(t, slot[t][p].tag) \/ "push" \in MayFail
                /\ Continue(t)
                /\ UNCHANGED <<slot, weak>>
     \/ /\ ~ HoldsLazily(t)
        /\ Goto(t, "wake")
        /\ UNCHANGED <<slot, weak>>
  /\ UNCHANGED <<active, hintVars, isWaiting, listVars, strong>>

\* Mutant: the count falls by one lock, not by the locks of the slot.
DecreaseLazyLockCntByOne(t) ==
  /\ call[t].pc = "decrease"
  /\ cnt' = [cnt EXCEPT ![t][call[t].at] = @ - 1]
  /\ call' = [call EXCEPT ![t].pc = "push", ![t].at = 0, ![t].n = 0]
  /\ UNCHANGED <<active, closed, slot, isWaiting, listVars, lockVars>>

(* The hint word of the slot just emptied is lowered by its locks. *)
DecreaseLazyLockCnt(t) ==
  /\ call[t].pc = "decrease"
  /\ cnt' = [cnt EXCEPT ![t][call[t].at] = @ - call[t].n]
  /\ call' = [call EXCEPT ![t].pc = "push", ![t].at = 0, ![t].n = 0]
  /\ UNCHANGED <<active, closed, slot, isWaiting, listVars, lockVars>>

(***************************************************************************)
(* Step 2 visits the partitions in order, with one iterator over the       *)
(* threads for all of them: after p partitions it has passed Walk[p].at    *)
(* threads and decided to wake the partitions in Walk[p].free.             *)
(***************************************************************************)
LazyHolders(p, from) == {i \in DOMAIN Order : i > from /\ cnt[Order[i]][p] > 0}

Walk[p \in 0..PartCnt] ==
  IF p = 0 THEN [at |-> 0, free |-> {}]
  ELSE LET w == Walk[p - 1]
           holders == LazyHolders(p - 1, w.at)
       IN  IF request[p - 1] = {} \/ ~ waitFlag[p - 1] THEN w
           ELSE IF holders # {}
             THEN [w EXCEPT !.at = CHOOSE i \in holders : \A j \in holders : i <= j]
             ELSE [at |-> Len(Order), free |-> w.free \cup {p - 1}]

\* Mutant: the flag stays up after the wake-up.
WakeupKeepsFlag(t) ==
  /\ call[t].pc = "wake"
  /\ hintLock = {}
  /\ waitFlag' = waitFlag
  /\ isWaiting' = [u \in Thread |->
                     isWaiting[u] /\ ~ \E p \in Walk[PartCnt].free :
                                         \E r \in request[p] : r.thr = u]
  /\ Continue(t)
  /\ UNCHANGED <<active, hintVars, slot, request, hintLock, lockVars>>

WakeupAllRequests(t) ==
  /\ call[t].pc = "wake"
  /\ hintLock = {}
  /\ waitFlag' = [p \in Part |-> waitFlag[p] /\ p \notin Walk[PartCnt].free]
  /\ isWaiting' = [u \in Thread |->
                     isWaiting[u] /\ ~ \E p \in Walk[PartCnt].free :
                                         \E r \in request[p] : r.thr = u]
  /\ Continue(t)
  /\ UNCHANGED <<active, hintVars, slot, request, hintLock, lockVars>>

-----------------------------------------------------------------------------
(* Strong locks.                                                           *)

(* LazyLock refuses the mode, but pushes the thread's own lazy locks. *)
LockStrong(t, tag) ==
  /\ call[t].pc = "idle" /\ t \in Strong \cap active
  /\ t \notin strong[tag]
  /\ call' = [call EXCEPT ![t] = [IdleCall EXCEPT !.pc = "push", !.tag = tag,
                                                  !.next = "wait"]]
  /\ UNCHANGED <<active, hintVars, slot, isWaiting, listVars, lockVars>>

(* WaitLazyLockGoneOnAllThreads. *)
BeginLazyWait(t) ==
  /\ call[t].pc = "wait"
  /\ isWaiting' = [isWaiting EXCEPT ![t] = TRUE]
  /\ Goto(t, "disable")
  /\ UNCHANGED <<active, hintVars, slot, listVars, lockVars>>

Request(t) == [thr |-> t, tag |-> call[t].tag]

(***************************************************************************)
(* AsyncDisableLazyLockOnAllThreads: the first request of a partition      *)
(* walks over all threads and closes the partition on each; the later ones *)
(* go by the flag the first one left.                                      *)
(***************************************************************************)
DisableLazyLock(t) ==
  LET p == CallPart(t)
  IN  /\ call[t].pc = "disable"
      /\ hintLock = {}
      /\ \/ /\ request' = [request EXCEPT ![p] = @ \cup {Request(t)}]
            /\ IF request[p] = {}
                 THEN /\ hintLock' = {t}
                      /\ Goto(t, "disabling")
                 ELSE /\ Goto(t, IF waitFlag[p] THEN "lazywait" ELSE "strong")
                      /\ UNCHANGED hintLock
         \/ /\ "request" \in MayFail
            /\ call' = [call EXCEPT ![t].pc = "enable", ![t].next = "idle"]
            /\ UNCHANGED <<request, hintLock>>
      /\ UNCHANGED <<active, hintVars, slot, isWaiting, waitFlag, lockVars>>

\* Mutant: the walk remembers the count of the last thread only.
LastHasLazyLock(t, u) == cnt[u][CallPart(t)] > 0

(* needWait: one of the threads passed so far had a lazy lock. *)
NeedWait(t, u) == call[t].found \/ cnt[u][CallPart(t)] > 0

DisableNextThread(t) ==
  LET p == CallPart(t)
      u == Order[call[t].at + 1]
  IN  /\ call[t].pc = "disabling"
      /\ \/ /\ call[t].at < Len(Order)
            /\ closed' = [closed EXCEPT ![u][p] = @ \/ u \in active]
            /\ call' = [call EXCEPT ![t].at = @ + 1, ![t].found = NeedWait(t, u)]
            /\ UNCHANGED <<waitFlag, hintLock>>
         \/ /\ call[t].at = Len(Order)
            /\ waitFlag' = [waitFlag EXCEPT ![p] = call[t].found]
            /\ hintLock' = {}
            /\ call' = [call EXCEPT ![t].pc = IF call[t].found THEN "lazywait" ELSE "strong",
                                    ![t].at = 0, ![t].found = FALSE]
            /\ UNCHANGED closed
      /\ UNCHANGED <<active, cnt, slot, request, isWaiting, lockVars>>

(* WaitLazyLockGoneOnAllThreads sees that it was woken, *)
LazyWaitEnds(t) ==
  /\ call[t].pc = "lazywait"
  /\ ~ isWaiting[t]
  /\ Goto(t, "strong")
  /\ UNCHANGED <<active, hintVars, slot, isWaiting, listVars, lockVars>>

(* or gives up: timeout, cancel, deadlock, whether or not it was woken. *)
LazyWaitFails(t) ==
  /\ call[t].pc = "lazywait"
  /\ call' = [call EXCEPT ![t].pc = "enable", ![t].next = "idle"]
  /\ UNCHANGED <<active, hintVars, slot, isWaiting, listVars, lockVars>>

\* Mutant: the lazy wait does not run the deadlock detector.
PollInLockManagerOnly(t) ==
  /\ \/ call[t].pc = "weak" /\ StrongAhead(t, call[t].tag)
     \/ call[t].pc = "strong" /\ AnyHeld(t, call[t].tag)
  /\ Push(t, call[t].pc)
  /\ UNCHANGED <<active, hintVars, slot, isWaiting, listVars, lockVars>>

(* Every wait runs the deadlock detector at intervals, which first pushes  *)
(* the thread's lazy locks.                                                *)
PollWhileWaiting(t) ==
  /\ \/ call[t].pc = "lazywait" /\ isWaiting[t]
     \/ call[t].pc = "weak" /\ StrongAhead(t, call[t].tag)
     \/ call[t].pc = "strong" /\ AnyHeld(t, call[t].tag)
  /\ Push(t, call[t].pc)
  /\ UNCHANGED <<active, hintVars, slot, isWaiting, listVars, lockVars>>

(* The lock manager grants the strong lock, or the wait for it fails. *)
StrongLock(t) ==
  LET tag == call[t].tag
  IN  /\ call[t].pc = "strong"
      /\ \/ /\ ~ AnyHeld(t, tag)
            /\ strong' = [strong EXCEPT ![tag] = @ \cup {t}]
            /\ Return(t)
         \/ /\ AnyHeld(t, tag) \/ "lock" \in MayFail
            /\ call' = [call EXCEPT ![t].pc = "enable", ![t].next = "idle"]
            /\ UNCHANGED strong
      /\ UNCHANGED <<active, hintVars, slot, isWaiting, listVars, weak>>

(* Releasing a strong lock reopens the partition before it tells the lock  *)
(* manager.                                                                *)
UnlockStrong(t, tag) ==
  /\ call[t].pc = "idle"
  /\ t \in strong[tag]
  /\ call' = [call EXCEPT ![t] = [IdleCall EXCEPT !.pc = "enable", !.tag = tag,
                                                  !.next = "unlock"]]
  /\ UNCHANGED <<active, hintVars, slot, isWaiting, listVars, lockVars>>

\* Mutant: every request that leaves reopens the partition.
AnyRequestLeaves(t) == Request(t) \in request[CallPart(t)]

LastRequestLeaves(t) == request[CallPart(t)] = {Request(t)}

(* EnableLazyLockOnAllThreads: the last request of a partition to leave    *)
(* reopens it on every thread.                                             *)
EnableLazyLock(t) ==
  LET p == CallPart(t)
  IN  /\ call[t].pc = "enable"
      /\ hintLock = {}
      /\ request' = [request EXCEPT ![p] = @ \ {Request(t)}]
      /\ IF LastRequestLeaves(t)
           THEN /\ hintLock' = {t}
                /\ Goto(t, "enabling")
           ELSE Continue(t) /\ UNCHANGED hintLock
      /\ UNCHANGED <<active, hintVars, slot, waitFlag, isWaiting, lockVars>>

EnableNextThread(t) ==
  /\ call[t].pc = "enabling"
  /\ \/ /\ call[t].at < Len(Order)
        /\ closed' = [closed EXCEPT ![Order[call[t].at + 1]][CallPart(t)] = FALSE]
        /\ call' = [call EXCEPT ![t].at = @ + 1]
        /\ UNCHANGED hintLock
     \/ /\ call[t].at = Len(Order)
        /\ hintLock' = {}
        /\ call' = [call EXCEPT ![t] = IF call[t].next = "idle" THEN IdleCall
                                      ELSE [@ EXCEPT !.pc = call[t].next, !.at = 0]]
        /\ UNCHANGED closed
  /\ UNCHANGED <<active, cnt, slot, request, waitFlag, isWaiting, lockVars>>

UnlockInLockManager(t) ==
  /\ call[t].pc = "unlock"
  /\ strong' = [strong EXCEPT ![call[t].tag] = @ \ {t}]
  /\ call' = [call EXCEPT ![t] = IF @.ending THEN [IdleCall EXCEPT !.pc = "release", !.ending = TRUE]
                                ELSE IdleCall]
  /\ UNCHANGED <<active, hintVars, slot, isWaiting, listVars, weak>>

-----------------------------------------------------------------------------
(***************************************************************************)
(* A thread enters and leaves the array of threads with m_coreLock held    *)
(* exclusively.  InsertSortArray takes the closed bits from the lists.     *)
(***************************************************************************)
InsertSortArray(t) ==
  /\ t \in Comers \ active
  /\ hintLock = {}
  /\ active' = active \cup {t}
  /\ cnt' = [cnt EXCEPT ![t] = [p \in Part |-> 0]]
  /\ closed' = [closed EXCEPT ![t] = [p \in Part |-> request[p] # {}]]
  /\ UNCHANGED <<slot, isWaiting, listVars, lockVars, call>>

RemoveSortArray(t) ==
  /\ t \in Comers \cap active
  /\ hintLock = {}
  /\ call[t].pc = "idle"
  /\ ~ HoldsInLockManager(t) /\ ~ HoldsLazily(t)
  /\ active' = active \ {t}
  /\ UNCHANGED <<hintVars, slot, isWaiting, listVars, lockVars, call>>

-----------------------------------------------------------------------------
CallStep(t) ==
  \/ LazyLockRollback(t) \/ ReleaseAllLocks(t) \/ ReleaseAllLazyLocks(t)
  \/ ActuallyAcquireLazyLocks(t) \/ DecreaseLazyLockCnt(t) \/ WakeupAllRequests(t)
  \/ BeginLazyWait(t) \/ DisableLazyLock(t) \/ DisableNextThread(t) \/ LazyWaitEnds(t)
  \/ EnableLazyLock(t) \/ EnableNextThread(t) \/ UnlockInLockManager(t)

Next ==
  \E t \in Thread :
    \/ CallStep(t)
    \/ WeakLock(t) \/ StrongLock(t) \/ PollWhileWaiting(t) \/ LazyWaitFails(t)
    \/ InsertSortArray(t) \/ RemoveSortArray(t)
    \/ \E tag \in Tag :
         LazyLock(t, tag) \/ UnlockWeak(t, tag) \/ LockStrong(t, tag) \/ UnlockStrong(t, tag)

Spec == Init /\ [][Next]_vars

(***************************************************************************)
(* A thread that is not blocked goes on, a lock wait runs the deadlock     *)
(* detector again and again, transactions end, and a lock that is pushed   *)
(* again and again is not refused its memory for ever.                     *)
(***************************************************************************)
FairSpec ==
  /\ Spec
  /\ \A t \in Thread :
       /\ WF_vars(CallStep(t)) /\ WF_vars(PollWhileWaiting(t) \/ WeakLock(t) \/ StrongLock(t))
       /\ SF_vars(ActuallyAcquireLazyLocks(t) /\ weak' # weak)

-----------------------------------------------------------------------------
(* The variables keep their types; one thread at most walks. *)
TypeOK ==
  /\ active \subseteq Thread
  /\ cnt \in [Thread -> [Part -> Nat]]
  /\ closed \in [Thread -> [Part -> BOOLEAN]]
  /\ slot \in [Thread -> [Part -> [tag : Tag \cup {NoTag}, cnt : Nat]]]
  /\ request \in [Part -> SUBSET [thr : Thread, tag : Tag]]
  /\ waitFlag \in [Part -> BOOLEAN]
  /\ hintLock \subseteq Thread /\ Cardinality(hintLock) <= 1
  /\ isWaiting \in [Thread -> BOOLEAN]
  /\ weak \in [Thread -> [Tag -> Nat]]
  /\ strong \in [Tag -> SUBSET Thread]
  /\ call \in [Thread -> [pc : PCs, tag : Tag \cup {NoTag}, next : PCs, at : Nat, n : Nat,
                          found : BOOLEAN, ending : BOOLEAN]]

(* t releases tag: its partition may be open again. *)
Releasing(t, tag) ==
  call[t].tag = tag /\ call[t].pc \in {"enable", "enabling", "unlock"}

(***************************************************************************)
(* Rule (2) of LazyLock: all lazy locks of the partition are gone before a *)
(* strong request computes its conflicts; and rule (1): none comes back    *)
(* while the request or the lock is there, until its release begins.       *)
(***************************************************************************)
NoLazyPastTheWait ==
  \A t \in Thread, tag \in Tag :
    \/ At(t, "strong") /\ call[t].tag = tag
    \/ t \in strong[tag] /\ ~ Releasing(t, tag)
    => \A u \in Thread : cnt[u][PartOf[tag]] = 0

(***************************************************************************)
(* The hint word counts the locks in the slot, and the ones a call is      *)
(* about to take off it (DecreaseLazyLockCnt asserts that it does not      *)
(* fall below zero).                                                       *)
(***************************************************************************)
CountMatchesSlots ==
  \A t \in Thread, p \in Part :
    cnt[t][p] = slot[t][p].cnt
                + (IF call[t].pc = "decrease" /\ call[t].at = p THEN call[t].n ELSE 0)
                + (IF call[t].pc = "rollback" /\ CallPart(t) = p THEN 1 ELSE 0)

(***************************************************************************)
(* A partition is closed on a registered thread exactly if it has a        *)
(* request, but for the threads a walk has yet to pass: EnableLazyLock     *)
(* subtracts the bit from the word, which would wreck it were it not set.  *)
(***************************************************************************)
ClosedExact ==
  \A i \in DOMAIN Order, p \in Part :
    LET ahead(pc) == \E t \in Thread : call[t].pc = pc /\ CallPart(t) = p /\ call[t].at < i
    IN  Order[i] \in active =>
          (closed[Order[i]][p] <=> (request[p] # {} /\ ~ ahead("disabling")) \/ ahead("enabling"))

(***************************************************************************)
(* A thread in the lazy wait that was not woken is flagged, or nobody      *)
(* would wake it; and while the flag is up every request of the partition  *)
(* is of a thread that waits for it or is giving up, for the wake-up       *)
(* clears isWaiting, which a later wait in the lock manager would take     *)
(* for a grant.                                                            *)
(***************************************************************************)
WaitFlagExact ==
  /\ \A t \in Thread : At(t, "lazywait") /\ isWaiting[t] => waitFlag[CallPart(t)]
  /\ \A p \in Part : \A r \in request[p] :
       waitFlag[p] => call[r.thr].tag = r.tag
                      /\ (At(r.thr, "lazywait") \/ call[r.thr].pc \in {"disabling", "enable"})

(* Every lazy wait ends, though nobody tells the waiter when a count that  *)
(* was rolled back has gone: its own polls find out.                       *)
LazyWaitsEnd ==
  \A t \in Thread : At(t, "lazywait") ~> ~ At(t, "lazywait")
=============================================================================
