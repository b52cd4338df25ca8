---------------------------- MODULE TableLockMgr ----------------------------
(***************************************************************************)
(* The lock manager: the main lock table (LockMgr, LockHashTable), each    *)
(* thread's record of the locks it holds (ThreadLocalLock), and the table  *)
(* locks' fast path (TableLockMgr).                                        *)
(*                                                                         *)
(* A weak table lock (mode below ShareUpdateExclusive) is granted in the   *)
(* thread's own record, without a visit to the main table, while no strong *)
(* lock is marked in the tag's fast-path partition.  A strong one (above   *)
(* ShareUpdateExclusive) first marks the partition, then moves every       *)
(* thread's fast-path locks on the tag to the main table, and only then    *)
(* queues there.  A tag outside TableTag goes through plain LockMgr.       *)
(*                                                                         *)
(* One step is one critical section: a thread's m_mutex, a partition of    *)
(* the main table, or the strong-lock counters.  A transfer holds the      *)
(* other thread's m_mutex across several of them: call[t].cur.             *)
(***************************************************************************)
EXTENDS LockEntry

CONSTANTS
  Tag,          \* lock tags
  TableTag,     \* those of tables, which have the fast path
  Partition,    \* fast-path partitions
  PartOf,       \* GetStrongLockHashPartition: the partition of a tag's hash code
  CallModes,    \* the modes each thread asks for
  DontWaits,    \* the values they pass for dontWait
  MaxGranted,   \* bound: how often a thread holds one lock in one mode
  MayFail,      \* whether the lock table can run out of memory
  MayUpgrade,   \* whether a thread that holds a lock may ask for another one
  NoTag

ASSUME TagAssumption ==
  /\ TableTag \subseteq Tag
  /\ PartOf \in [Tag -> Partition]
  /\ NoTag \notin Tag

ASSUME CallAssumption ==
  /\ CallModes \in [Thread -> SUBSET LockMode]
  /\ DontWaits \subseteq BOOLEAN
  /\ MaxGranted \in Nat \ {0}
  /\ MayFail \in BOOLEAN
  /\ MayUpgrade \in BOOLEAN

VARIABLES
  table,      \* m_lockTable: tag -> LockEntry
  granted,    \* LocalLockEntry::granted: thread -> tag -> mode -> count
  fast,       \* LocalLockEntry's granted-by-fast-path bits: thread -> tag -> modes
  strong,     \* m_strongLocks.counts: partition -> count
  isWaiting,  \* LockContext::isWaiting of each thread
  call        \* what each thread is doing

vars == <<table, granted, fast, strong, isWaiting, call>>

(* Fast-path modes, and the modes that switch the fast path off. *)
WeakMode   == {m \in LockMode : m < ShareUpdateExclusive}
StrongMode == {m \in LockMode : m > ShareUpdateExclusive}

IsWeak(tag, mode)   == tag \in TableTag /\ mode \in WeakMode
IsStrong(tag, mode) == tag \in TableTag /\ mode \in StrongMode

(***************************************************************************)
(* A call: the step its thread is about to take, its arguments, the status *)
(* it will return (ok), whether it is a BatchUnlock, and for a transfer    *)
(* the threads left to visit.  cur is {u} while the m_mutex of u is held   *)
(* between two moves of u's locks, {} otherwise.                           *)
(***************************************************************************)
IdleCall == [pc |-> "idle", tag |-> NoTag, mode |-> 0, dontWait |-> FALSE,
             ok |-> FALSE, batch |-> FALSE, todo |-> {}, cur |-> {}]

PCs == {"idle", "mark", "transfer", "enqueue", "waiting", "give_up", "unmark_failed",
        "record", "unlock", "unmark", "remove"}

Init ==
  /\ table = [tag \in Tag |-> EmptyEntry]
  /\ granted = [t \in Thread |-> [tag \in Tag |-> [m \in LockMode |-> 0]]]
  /\ fast = [t \in Thread |-> [tag \in Tag |-> {}]]
  /\ strong = [p \in Partition |-> 0]
  /\ isWaiting = [t \in Thread |-> FALSE]
  /\ call = [t \in Thread |-> IdleCall]

(* No transfer holds the m_mutex of t. *)
MutexFree(t) == \A u \in Thread : t \notin call[u].cur

Req(t) == [thr |-> t, mode |-> call[t].mode]

HoldsNothing(t) == \A tag \in Tag, m \in LockMode : granted[t][tag][m] = 0

GrantLock(t, tag, mode)   == granted' = [granted EXCEPT ![t][tag][mode] = @ + 1]
UnGrantLock(t, tag, mode) == granted' = [granted EXCEPT ![t][tag][mode] = @ - 1]

Goto(t, pc) == call' = [call EXCEPT ![t].pc = pc]
Return(t)   == call' = [call EXCEPT ![t] = IdleCall]

StartCall(t, pc, tag, mode, dontWait, batch) ==
  call' = [call EXCEPT ![t] = [IdleCall EXCEPT !.pc = pc, !.tag = tag, !.mode = mode,
                                               !.dontWait = dontWait, !.batch = batch]]

-----------------------------------------------------------------------------
(* Acquiring a lock.                                                       *)

(* WeakLockAcquire up to the main table: TryGrantByFastPath. *)
WeakLockAcquire(t, tag, mode, dontWait) ==
  IF granted[t][tag][mode] > 0
    THEN GrantLock(t, tag, mode) /\ UNCHANGED <<fast, call>>
  ELSE IF strong[PartOf[tag]] # 0
    THEN StartCall(t, "enqueue", tag, mode, dontWait, FALSE) /\ UNCHANGED <<granted, fast>>
  ELSE /\ GrantLock(t, tag, mode)
       /\ fast' = [fast EXCEPT ![t][tag] = @ \cup {mode}]
       /\ UNCHANGED call

(* StrongLockAcquire and LockMgr::Lock up to the main table: GrantIfAlreadyHold. *)
MainLockAcquire(t, tag, mode, dontWait) ==
  /\ IF granted[t][tag][mode] > 0
       THEN GrantLock(t, tag, mode) /\ UNCHANGED call
       ELSE /\ StartCall(t, IF IsStrong(tag, mode) THEN "mark" ELSE "enqueue",
                         tag, mode, dontWait, FALSE)
            /\ UNCHANGED granted
  /\ UNCHANGED fast

Lock(t) ==
  /\ call[t].pc = "idle"
  /\ MutexFree(t)
  /\ MayUpgrade \/ HoldsNothing(t)
  /\ \E tag \in Tag, mode \in CallModes[t], dontWait \in DontWaits :
       /\ granted[t][tag][mode] < MaxGranted
       /\ IF IsWeak(tag, mode) THEN WeakLockAcquire(t, tag, mode, dontWait)
                               ELSE MainLockAcquire(t, tag, mode, dontWait)
  /\ UNCHANGED <<table, strong, isWaiting>>

\* Mutant: the partition is marked but nothing is transferred.
MarkWithoutTransfer(t) ==
  /\ call[t].pc = "mark"
  /\ strong' = [strong EXCEPT ![PartOf[call[t].tag]] = @ + 1]
  /\ call' = [call EXCEPT ![t].pc = "transfer"]
  /\ UNCHANGED <<table, granted, fast, isWaiting>>

MarkStrongLockInFastPath(t) ==
  /\ call[t].pc = "mark"
  /\ strong' = [strong EXCEPT ![PartOf[call[t].tag]] = @ + 1]
  /\ call' = [call EXCEPT ![t].pc = "transfer", ![t].todo = Thread]
  /\ UNCHANGED <<table, granted, fast, isWaiting>>

(* A thread with no fast-path lock on the tag is passed over. *)
SkipThread(t, u) ==
  /\ call[t].pc = "transfer"
  /\ call[t].cur = {}
  /\ u \in call[t].todo
  /\ MutexFree(u)
  /\ fast[u][call[t].tag] = {}
  /\ call' = [call EXCEPT ![t].todo = @ \ {u}]
  /\ UNCHANGED <<table, granted, fast, strong, isWaiting>>

\* Mutant: only the first mode a thread holds is transferred.
TransferFirstModeOnly(t, u) ==
  LET tag  == call[t].tag
      mode == CHOOSE m \in fast[u][tag] : \A n \in fast[u][tag] : m <= n
  IN  /\ call[t].pc = "transfer"
      /\ fast[u][tag] # {}
      /\ u \in call[t].todo /\ MutexFree(u)
      /\ table' = [table EXCEPT ![tag] =
                     EnqueueLockRequest(@, [thr |-> u, mode |-> mode], TRUE).entry]
      /\ fast' = [fast EXCEPT ![u][tag] = @ \ {mode}]
      /\ call' = [call EXCEPT ![t].todo = @ \ {u}]
      /\ UNCHANGED <<granted, strong, isWaiting>>

(***************************************************************************)
(* TransferOneWeakLock for the lowest fast-path mode of u, which takes u's *)
(* m_mutex before the first mode and frees it after the last one, or when  *)
(* a transfer fails.                                                       *)
(***************************************************************************)
TransferOneWeakLock(t, u) ==
  LET tag  == call[t].tag
      mode == CHOOSE m \in fast[u][tag] : \A n \in fast[u][tag] : m <= n
      rest == fast[u][tag] \ {mode}
  IN  /\ call[t].pc = "transfer"
      /\ fast[u][tag] # {}
      /\ \/ u \in call[t].cur
         \/ call[t].cur = {} /\ u \in call[t].todo /\ MutexFree(u)
      /\ \E res \in {EnqueueLockRequest(table[tag], [thr |-> u, mode |-> mode], TRUE)} :
           \/ /\ res.ret = "granted"
              /\ table' = [table EXCEPT ![tag] = res.entry]
              /\ fast' = [fast EXCEPT ![u][tag] = rest]
              /\ call' = [call EXCEPT ![t].todo = @ \ {u},
                                      ![t].cur = IF rest = {} THEN {} ELSE {u}]
           \/ /\ res.ret # "granted" \/ MayFail
              /\ call' = [call EXCEPT ![t].pc = "unmark_failed", ![t].todo = {}, ![t].cur = {}]
              /\ UNCHANGED <<table, fast>>
      /\ UNCHANGED <<granted, strong, isWaiting>>

EndTransfer(t) ==
  /\ call[t].pc = "transfer"
  /\ call[t].todo = {} /\ call[t].cur = {}
  /\ Goto(t, "enqueue")
  /\ UNCHANGED <<table, granted, fast, strong, isWaiting>>

\* Mutant: ShareUpdateExclusive, which never marked, is unmarked too.
FailedUnmarksAll(t) ==
  call' = [call EXCEPT ![t].pc = IF call[t].tag \in TableTag /\ call[t].mode >= ShareUpdateExclusive
                                   THEN "unmark_failed" ELSE "record",
                       ![t].ok = FALSE]

(* Where a lock call goes when the main table refuses or grants its request. *)
Failed(t) ==
  call' = [call EXCEPT ![t].pc = IF IsStrong(call[t].tag, call[t].mode)
                                   THEN "unmark_failed" ELSE "record",
                       ![t].ok = FALSE]
Granted(t) == call' = [call EXCEPT ![t].pc = "record", ![t].ok = TRUE]

(* LockInMainLockTable up to the wait: the request enters the main table. *)
LockRequestEnqueue(t) ==
  /\ call[t].pc = "enqueue"
  /\ isWaiting' = [isWaiting EXCEPT ![t] = @ \/ ~ call[t].dontWait]
  /\ \/ \E res \in {EnqueueLockRequest(table[call[t].tag], Req(t), call[t].dontWait)} :
          /\ table' = [table EXCEPT ![call[t].tag] = RemoveIfUnused(res.entry)]
          /\ CASE res.ret = "granted" -> Granted(t)
               [] res.ret = "waiting" -> Goto(t, "waiting")
               [] res.ret \in {"not_avail", "deadlock"} -> Failed(t)
     \/ MayFail /\ Failed(t) /\ UNCHANGED table
  /\ UNCHANGED <<granted, fast, strong>>

(* The wait loop sees that its request was granted. *)
NormalWakeup(t) ==
  /\ call[t].pc = "waiting"
  /\ ~ isWaiting[t]
  /\ Granted(t)
  /\ UNCHANGED <<table, granted, fast, strong, isWaiting>>

(***************************************************************************)
(* The wait loop gives up: timeout, cancel or deadlock victim.  It read    *)
(* isWaiting before it decided and takes the request out of the table      *)
(* later; the request may be granted in between.                           *)
(***************************************************************************)
StopWaiting(t) ==
  /\ call[t].pc = "waiting"
  /\ isWaiting[t]
  /\ Goto(t, "give_up")
  /\ UNCHANGED <<table, granted, fast, strong, isWaiting>>

LockRequestDequeue(t) ==
  \E res \in {DequeueLockRequest(table[call[t].tag], Req(t))} :
    /\ table' = [table EXCEPT ![call[t].tag] = RemoveIfUnused(res.entry)]
    /\ isWaiting' = [u \in Thread |-> isWaiting[u] /\ u \notin res.woken]

\* Mutant: the request is taken out only if it has not been granted meanwhile.
DequeueUnlessGranted(t) ==
  /\ call[t].pc = "give_up"
  /\ IF isWaiting[t] THEN LockRequestDequeue(t) ELSE UNCHANGED <<table, isWaiting>>
  /\ Failed(t)
  /\ UNCHANGED <<granted, fast, strong>>

\* Mutant: the wait fails and leaves its request in the queue.
DequeueForgotten(t) ==
  /\ call[t].pc = "give_up"
  /\ Failed(t)
  /\ UNCHANGED <<table, granted, fast, strong, isWaiting>>

DequeueAfterWait(t) ==
  /\ call[t].pc = "give_up"
  /\ LockRequestDequeue(t)
  /\ Failed(t)
  /\ UNCHANGED <<granted, fast, strong>>

UnmarkStrongLockInFastPath(t) ==
  /\ call[t].pc \in {"unmark_failed", "unmark"}
  /\ strong' = [strong EXCEPT ![PartOf[call[t].tag]] = @ - 1]
  /\ CASE call[t].pc = "unmark_failed" -> Goto(t, "record")
       [] call[t].pc = "unmark" /\ call[t].batch -> Return(t)
       [] call[t].pc = "unmark" /\ ~ call[t].batch -> Goto(t, "remove")
  /\ UNCHANGED <<table, granted, fast, isWaiting>>

RecordLockResult(t) ==
  /\ call[t].pc = "record"
  /\ MutexFree(t)
  /\ IF call[t].ok THEN GrantLock(t, call[t].tag, call[t].mode) ELSE UNCHANGED granted
  /\ Return(t)
  /\ UNCHANGED <<table, fast, strong, isWaiting>>

-----------------------------------------------------------------------------
(* Releasing a lock.                                                       *)

(***************************************************************************)
(* TryReleaseByFastPath for a weak lock, UngrantIfGrantedMultipleTimes for *)
(* the others: a local release when the lock is held more than once or     *)
(* through the fast path.                                                  *)
(***************************************************************************)
Unlock(t) ==
  /\ call[t].pc = "idle"
  /\ MutexFree(t)
  /\ \E tag \in Tag, mode \in CallModes[t] :
       /\ granted[t][tag][mode] > 0
       /\ IF granted[t][tag][mode] > 1 \/ mode \in fast[t][tag]
            THEN /\ UnGrantLock(t, tag, mode)
                 /\ fast' = [fast EXCEPT ![t][tag] =
                               IF granted[t][tag][mode] = 1 THEN @ \ {mode} ELSE @]
                 /\ UNCHANGED call
            ELSE /\ StartCall(t, "unlock", tag, mode, FALSE, FALSE)
                 /\ UNCHANGED <<granted, fast>>
  /\ UNCHANGED <<table, strong, isWaiting>>

\* Mutant: a batch release never goes to the main table.
LocalOnly(t, tag, mode, last) == FALSE

(* A batch release that is the last of a lock outside the fast path. *)
LeavesMainTable(t, tag, mode, last) == last /\ mode \notin fast[t][tag]

(***************************************************************************)
(* BatchUnlock: BatchReleaseByFastPath, BatchDecreaseGrantedCount.  The    *)
(* local record goes first, the request in the main table after it.        *)
(***************************************************************************)
BatchUnlock(t) ==
  /\ call[t].pc = "idle"
  /\ MutexFree(t)
  /\ \E tag \in TableTag, mode \in CallModes[t] :
       \E times \in 1..granted[t][tag][mode] :
         LET last == granted[t][tag][mode] = times
         IN  /\ granted' = [granted EXCEPT ![t][tag][mode] = @ - times]
             /\ fast' = [fast EXCEPT ![t][tag] = IF last THEN @ \ {mode} ELSE @]
             /\ IF LeavesMainTable(t, tag, mode, last)
                  THEN StartCall(t, "unlock", tag, mode, FALSE, TRUE)
                  ELSE UNCHANGED call
  /\ UNCHANGED <<table, strong, isWaiting>>

\* Mutant: a batch release of a strong lock leaves its mark.
UnlockBatchKeepsMark(t) ==
  /\ call[t].pc = "unlock"
  /\ LockRequestDequeue(t)
  /\ CASE call[t].batch -> Return(t)
       [] ~ call[t].batch /\ IsStrong(call[t].tag, call[t].mode) -> Goto(t, "unmark")
       [] ~ call[t].batch /\ ~ IsStrong(call[t].tag, call[t].mode) -> Goto(t, "remove")
  /\ UNCHANGED <<granted, fast, strong>>

UnlockInMainLockTable(t) ==
  /\ call[t].pc = "unlock"
  /\ LockRequestDequeue(t)
  /\ CASE IsStrong(call[t].tag, call[t].mode) -> Goto(t, "unmark")
       [] ~ IsStrong(call[t].tag, call[t].mode) /\ call[t].batch -> Return(t)
       [] ~ IsStrong(call[t].tag, call[t].mode) /\ ~ call[t].batch -> Goto(t, "remove")
  /\ UNCHANGED <<granted, fast, strong>>

RemoveLockRecord(t) ==
  /\ call[t].pc = "remove"
  /\ MutexFree(t)
  /\ UnGrantLock(t, call[t].tag, call[t].mode)
  /\ Return(t)
  /\ UNCHANGED <<table, fast, strong, isWaiting>>

-----------------------------------------------------------------------------
(* The steps a call takes once it has started, but for the wait's end. *)
CallStep(t) ==
  \/ MarkStrongLockInFastPath(t)
  \/ \E u \in Thread : SkipThread(t, u) \/ TransferOneWeakLock(t, u)
  \/ EndTransfer(t)
  \/ LockRequestEnqueue(t)
  \/ NormalWakeup(t)
  \/ DequeueAfterWait(t)
  \/ UnmarkStrongLockInFastPath(t)
  \/ RecordLockResult(t)
  \/ UnlockInMainLockTable(t)
  \/ RemoveLockRecord(t)

Next ==
  \E t \in Thread : Lock(t) \/ Unlock(t) \/ BatchUnlock(t) \/ StopWaiting(t) \/ CallStep(t)

Spec == Init /\ [][Next]_vars

(***************************************************************************)
(* Fairness: a thread that is inside a call keeps running, and a caller    *)
(* releases what it holds in the end.  Nothing is assumed of StopWaiting:  *)
(* a wait need not time out.                                               *)
(***************************************************************************)
FairSpec ==
  Spec /\ \A t \in Thread : WF_vars(CallStep(t)) /\ WF_vars(Unlock(t) \/ BatchUnlock(t))

-----------------------------------------------------------------------------
(* Properties.                                                             *)

(* Every variable has its type. *)
TypeOK ==
  /\ \A tag \in Tag :
       /\ table[tag].granted \subseteq Request
       /\ table[tag].waiting \in Seq(Request)
       /\ table[tag].grantedCnt \in [LockMode -> Nat]
       /\ table[tag].waitingCnt \in [LockMode -> Nat]
  /\ granted \in [Thread -> [Tag -> [LockMode -> 0..MaxGranted]]]
  /\ fast \in [Thread -> [Tag -> SUBSET WeakMode]]
  /\ strong \in [Partition -> Nat]
  /\ isWaiting \in [Thread -> BOOLEAN]
  /\ call \in [Thread -> [pc : PCs, tag : Tag \cup {NoTag}, mode : LockMode \cup {0},
                          dontWait : BOOLEAN, ok : BOOLEAN, batch : BOOLEAN,
                          todo : SUBSET Thread, cur : SUBSET Thread]]

(* Who holds a tag: in the main table or through the fast path. *)
Holders(tag) ==
  table[tag].granted \cup {r \in Request : r.mode \in fast[r.thr][tag]}

(* Two threads never hold one lock in conflicting modes, the fast path     *)
(* included.                                                               *)
HoldersCompatible ==
  \A tag \in Tag : \A r, s \in Holders(tag) :
    r.thr # s.thr => ~ HasConflictWithMode(r.mode, s.mode)

(* A thread that is not in a call holds, in the main table or through the  *)
(* fast path but never in both, exactly the locks its own record counts.   *)
RecordsMatchTable ==
  \A t \in Thread : call[t].pc = "idle" =>
    \A tag \in Tag, m \in LockMode :
      LET r == [thr |-> t, mode |-> m]
      IN  /\ granted[t][tag][m] > 0 <=> r \in Holders(tag)
          /\ ~ (r \in table[tag].granted /\ m \in fast[t][tag])

(* While a request waits in the main table no fast-path lock conflicts     *)
(* with it: what might be part of a deadlock was transferred before the    *)
(* conflicting request began to wait (table_lock_mgr.cpp:47-50).           *)
FastPathQuiet ==
  \A tag \in Tag : \A i \in DOMAIN table[tag].waiting, t \in Thread :
    ~ HasConflictWithMask(table[tag].waiting[i].mode, fast[t][tag])

(* Whether t owes one unmark for its lock in this mode: it holds the lock, *)
(* or is between the mark and its removal.                                 *)
HasMark(t, tag, mode) ==
  LET here == call[t].tag = tag /\ call[t].mode = mode
  IN  /\ IsStrong(tag, mode)
      /\ \/ granted[t][tag][mode] > 0 /\ ~ (here /\ call[t].pc = "remove")
         \/ /\ here
            /\ \/ call[t].pc \in {"transfer", "enqueue", "waiting", "give_up",
                                   "unmark_failed", "unlock", "unmark"}
               \/ call[t].pc = "record" /\ call[t].ok

(* A partition's counter is the number of marks not yet removed, whatever  *)
(* failed on the way: a leaked mark closes the fast path for ever, a mark  *)
(* removed twice opens it beside a strong lock.                            *)
StrongCountExact ==
  \A p \in Partition :
    strong[p] = Cardinality({x \in Thread \X Tag \X StrongMode :
                               PartOf[x[2]] = p /\ HasMark(x[1], x[2], x[3])})

(* The first waiter of a queue conflicts with a lock another thread holds: *)
(* no one waits for a lock it could have.                                  *)
HeadIsBlocked ==
  \A tag \in Tag : table[tag].waiting # <<>> =>
    LET w == Head(table[tag].waiting)
    IN  \E h \in table[tag].granted : h.thr # w.thr /\ HasConflictWithMode(w.mode, h.mode)

(* A waiting thread's flag tells where its request is: in the queue while  *)
(* the flag is up, among the holders once it is down.  No wakeup is lost   *)
(* and none comes without the lock.                                        *)
FlagMatchesQueue ==
  \A t \in Thread : call[t].pc \in {"waiting", "give_up"} =>
    /\ isWaiting[t] <=> IsWaiter(table[call[t].tag], Req(t))
    /\ ~ isWaiting[t] <=> Req(t) \in table[call[t].tag].granted

(* Only the request of a thread that is waiting is in a queue, once. *)
QueueMatchesCalls ==
  \A tag \in Tag : \A i, j \in DOMAIN table[tag].waiting :
    LET w == table[tag].waiting[i]
    IN  /\ call[w.thr].pc \in {"waiting", "give_up"}
        /\ call[w.thr].tag = tag /\ call[w.thr].mode = w.mode
        /\ w.thr = table[tag].waiting[j].thr => i = j

(* The per-mode counters, and so the masks, agree with the queues. *)
CountersExact ==
  \A tag \in Tag, m \in LockMode :
    LET e == table[tag]
    IN  /\ e.grantedCnt[m] = Cardinality({r \in e.granted : r.mode = m})
        /\ e.waitingCnt[m] = Cardinality({i \in DOMAIN e.waiting : e.waiting[i].mode = m})

(* What a step grants, it grants in the order of the queue, but for locks  *)
(* of a thread that already holds one which blocks a waiter.               *)
GrantsInOrder ==
  \A tag \in Tag :
    \A r \in table'[tag].granted \ table[tag].granted, i \in DOMAIN table[tag].waiting :
      /\ \E k \in DOMAIN table'[tag].waiting : table'[tag].waiting[k] = table[tag].waiting[i]
      /\ HasConflictWithMode(r.mode, table[tag].waiting[i].mode)
      => \/ \E j \in DOMAIN table[tag].waiting : j < i /\ table[tag].waiting[j] = r
         \/ \E k \in BlockedWaiters(table[tag], r.thr) : k <= i

(* A lock is granted past a conflicting waiter only to a thread that       *)
(* already holds a lock which blocks that waiter or one ahead of it;       *)
(* otherwise grants keep the order of the queue.                           *)
NoOvertaking == [][GrantsInOrder]_vars

(* Two threads never wait for each other on one lock: the request that     *)
(* would close the cycle fails, is granted, or goes ahead of the other.    *)
(* (With a third thread the early check can miss such a cycle, which is    *)
(* then the deadlock detector's to find.)                                  *)
NoMutualWait ==
  \A tag \in Tag : \A i, j \in DOMAIN table[tag].waiting :
    LET v == table[tag].waiting[i]
        w == table[tag].waiting[j]
    IN  v.thr # w.thr =>
          ~ /\ HasConflictWithMask(v.mode, OwnedLocks(table[tag], w.thr) \cup fast[w.thr][tag])
            /\ HasConflictWithMask(w.mode, OwnedLocks(table[tag], v.thr) \cup fast[v.thr][tag])

(* Every call returns, whether or not its wait times out, when no thread   *)
(* asks for a lock while it holds one.                                     *)
EveryCallReturns == \A t \in Thread : call[t].pc # "idle" ~> call[t].pc = "idle"
=============================================================================
