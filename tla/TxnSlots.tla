------------------------------ MODULE TxnSlots ------------------------------
(***************************************************************************)
(* The life of transactions in the slots of one undo zone, as its writer,  *)
(* the recycler, readers of rows, the WAL and a restart see it.            *)
(*                                                                         *)
(* A zone has one writer at a time, so at most its last slot belongs to a  *)
(* transaction under way.  A commit marks the slot PENDING_COMMIT before   *)
(* it draws its CSN; a rollback undoes the rows before it reads the CSN it *)
(* leaves in the slot.  A reader that meets a row asks for the state of    *)
(* its transaction: in the transaction info cache, or in the slot; a slot  *)
(* that was recycled means "visible to all".  The slot pages are logged;   *)
(* wal holds the records not yet on disk, and a crash loses them.          *)
(*                                                                         *)
(* CSNs, snapshots and the recycling horizon come from CsnHorizon.         *)
(***************************************************************************)
EXTENDS TxnSlotRing

CONSTANTS
  Writer, Reader,
  CacheSlots,     \* CACHED_SLOT_NUM_PER_ZONE
  MaxXid,         \* bound: transactions of the zone
  MaxCsn,         \* bound: CSNs drawn
  MaxCrash,       \* bound: crashes
  MaxUnflushed    \* bound: WAL records not yet on disk

VARIABLES
  nextCsn, inUse, horizon,   \* CsnHorizon
  buf,           \* the pages in the buffer pool
  disk,          \* what recovery would make of the pages and the WAL on disk
  wal,           \* the WAL records that are not on disk
  nextFree,      \* m_nextFreeLogicSlotId
  recycleId,     \* m_recycleLogicSlotId
  cache,         \* m_cachedEntry: position -> slot, csn INVALID_CSN if empty
  cacheRecycle,  \* m_recycleLogicSlotId of the cache
  owner,         \* the transaction of the zone and its next step
  rd,            \* reader -> the row it is looking at and its next step
  crashes,
  commitCsn,     \* history: id -> the CSN it committed with
  hidden,        \* history: id -> the latest snapshot it was judged invisible to
  failed         \* history: the ids whose commit could not draw a CSN

csnVars == <<nextCsn, inUse, horizon>>
pageVars == <<buf, disk, wal, nextFree, recycleId>>
cacheVars == <<cache, cacheRecycle>>
history == <<commitCsn, hidden, failed>>
vars == <<csnVars, pageVars, cacheVars, owner, rd, crashes, history>>

Thread == {Writer} \cup Reader
H == INSTANCE CsnHorizon WITH next <- nextCsn

Xid == 0..MaxXid-1
NoSlot == [id |-> 0, status |-> "UNKNOWN", csn |-> INVALID_CSN]
IdleOwner == [pc |-> "idle", id |-> 0, csn |-> INVALID_CSN, async |-> FALSE]
IdleReader == [pc |-> "idle", kind |-> "none", stage |-> "none", snap |-> INVALID_CSN,
               id |-> 0, min |-> INVALID_CSN, slot |-> NoSlot, visible |-> FALSE]

Init ==
  /\ nextCsn = 1 /\ horizon = 1 /\ inUse = [t \in Thread |-> {}]
  /\ buf = EmptyImage /\ disk = EmptyImage /\ wal = <<>>
  /\ nextFree = 0 /\ recycleId = 0
  /\ cache = [p \in 0..CacheSlots-1 |-> NoSlot] /\ cacheRecycle = 0
  /\ owner = IdleOwner
  /\ rd = [r \in Reader |-> IdleReader]
  /\ crashes = 0
  /\ commitCsn = [x \in Xid |-> INVALID_CSN]
  /\ hidden = [x \in Xid |-> INVALID_CSN]
  /\ failed = {}

-----------------------------------------------------------------------------
(* The WAL. *)

\* A change of a page in the buffer and its WAL record.
Log(img, record) ==
  /\ Len(wal) < MaxUnflushed
  /\ buf' = img
  /\ wal' = Append(wal, record)
  /\ UNCHANGED disk

\* IsCommitWalPersist.
Persisted(x) ==
  ~\E i \in 1..Len(wal) : wal[i].op = "commit" /\ wal[i].id = x /\ wal[i].status = "COMMITTED"

FlushWal ==
  /\ wal # <<>>
  /\ disk' = Redo(disk, Head(wal))
  /\ wal' = Tail(wal)
  /\ UNCHANGED <<csnVars, buf, nextFree, recycleId, cacheVars, owner, rd, crashes, history>>

\* A slot page is written once the WAL up to its last change is on disk; redo
\* then leaves it alone.
OfPage(r, page) == r.op # "undo" /\ GetTxnSlotPageId(r.id) = page

FlushPage(page) ==
  /\ \A i \in 1..Len(wal) : ~OfPage(wal[i], page)
  /\ disk' = [disk EXCEPT !.slots = [p \in Pos |-> IF p \div PageSlots = page THEN buf.slots[p] ELSE @[p]],
                          !.next[page] = buf.next[page]]
  /\ disk' # disk
  /\ UNCHANGED <<csnVars, buf, wal, nextFree, recycleId, cacheVars, owner, rd, crashes, history>>

-----------------------------------------------------------------------------
(* The transaction info cache. *)

Ended == {"FROZEN", "COMMITTED", "ABORTED"}

\* Mutant: a CSN at the bound counts as below it.
RefreshAtBound(x, csn, recycleCsnMin) ==
  cacheRecycle' = IF csn <= recycleCsnMin THEN Max({cacheRecycle, x + 1}) ELSE cacheRecycle

RefreshRecycleLogicSlotId(x, csn, recycleCsnMin) ==
  cacheRecycle' = IF csn < recycleCsnMin THEN Max({cacheRecycle, x + 1}) ELSE cacheRecycle

WriteTxnInfoToCache(x, slot, recycleCsnMin) ==
  IF slot.status \notin Ended THEN UNCHANGED cacheVars
  ELSE /\ RefreshRecycleLogicSlotId(x, slot.csn, recycleCsnMin)
       /\ cache' = IF slot.csn < recycleCsnMin THEN cache
                   ELSE [cache EXCEPT ![x % CacheSlots] = slot]

\* AllocTransactionSlot writes an entry without CSN, which is no entry.
DropFromCache(x) ==
  /\ cache' = [cache EXCEPT ![x % CacheSlots] = NoSlot]
  /\ UNCHANGED cacheRecycle

-----------------------------------------------------------------------------
(* The writer. *)

Goto(pc) == owner' = [owner EXCEPT !.pc = pc]

\* Whether somebody holds the transaction lock of x: not for a rollback after a restart.
Locked(x) == owner.id = x /\ owner.pc \notin {"idle", "begun"} /\ ~owner.async

Begin ==
  /\ owner.pc = "idle" /\ nextFree < MaxXid
  /\ H!TakeSnapshot(Writer)
  /\ Goto("begun")
  /\ UNCHANGED <<pageVars, cacheVars, rd, crashes, history>>

\* Mutant: off by one.
HasFreeSlotAtEnd == nextFree - recycleId <= Ring

HasFreeSlot == nextFree - recycleId < Ring

AllocSlot ==
  /\ owner.pc = "begun" /\ HasFreeSlot
  /\ Log(InitSlot(buf, nextFree), AllocRecord(nextFree))
  /\ nextFree' = nextFree + 1
  /\ DropFromCache(nextFree)
  /\ owner' = [owner EXCEPT !.pc = "active", !.id = nextFree]
  /\ UNCHANGED <<csnVars, recycleId, rd, crashes, history>>

\* GetNextCsn(csn, false): the next CSN is read, not drawn.
ReadPendingCsn ==
  /\ owner.pc = "active" /\ ~owner.async
  /\ owner' = [owner EXCEPT !.pc = "to_pending", !.csn = nextCsn]
  /\ UNCHANGED <<csnVars, pageVars, cacheVars, rd, crashes, history>>

\* Mutant: the slot is not marked before the CSN is drawn.
CommitPendingUnmarked ==
  /\ owner.pc = "to_pending"
  /\ owner' = [owner EXCEPT !.pc = "pending", !.csn = INVALID_CSN]
  /\ UNCHANGED <<csnVars, pageVars, cacheVars, rd, crashes, history>>

CommitPending ==
  /\ owner.pc = "to_pending"
  /\ Log(SetSlot(buf, owner.id, "PENDING_COMMIT", owner.csn),
         CommitRecord(owner.id, "PENDING_COMMIT", owner.csn))
  /\ owner' = [owner EXCEPT !.pc = "pending", !.csn = INVALID_CSN]
  /\ UNCHANGED <<csnVars, nextFree, recycleId, cacheVars, rd, crashes, history>>

DrawCommitCsn ==
  /\ owner.pc = "pending" /\ nextCsn < MaxCsn
  /\ H!IssueCsn
  /\ owner' = [owner EXCEPT !.pc = "to_committed", !.csn = nextCsn]
  /\ UNCHANGED <<pageVars, cacheVars, rd, crashes, history>>

\* The transaction is over for everybody: lock, snapshot and xid are given up.
EndTransaction ==
  /\ owner' = IdleOwner
  /\ H!DropSnapshots(Writer) /\ inUse'[Writer] = {}

\* GetNextCsn(csn, true) fails, its CSN is lost; CommitInternal goes on as after
\* a commit.
DrawCommitCsnFails ==
  /\ owner.pc = "pending" /\ nextCsn < MaxCsn
  /\ nextCsn' = nextCsn + 1
  /\ inUse' = [inUse EXCEPT ![Writer] = {}]
  /\ owner' = IdleOwner
  /\ failed' = failed \cup {owner.id}
  /\ UNCHANGED <<horizon, pageVars, cacheVars, rd, crashes, commitCsn, hidden>>

CommitCommitted ==
  /\ owner.pc = "to_committed"
  /\ Log(SetSlot(buf, owner.id, "COMMITTED", owner.csn),
         CommitRecord(owner.id, "COMMITTED", owner.csn))
  /\ owner' = [owner EXCEPT !.pc = "committed", !.csn = INVALID_CSN]
  /\ commitCsn' = [commitCsn EXCEPT ![owner.id] = owner.csn]
  /\ UNCHANGED <<csnVars, nextFree, recycleId, cacheVars, rd, crashes, hidden, failed>>

\* WriteTxnInfoToCache(xid, *slot, slot->csn), with what the slot holds by then.
CacheOwnSlot ==
  LET slot == SlotOf(buf, owner.id) IN WriteTxnInfoToCache(owner.id, slot, slot.csn)

FinishCommit ==
  /\ owner.pc = "committed" /\ Persisted(owner.id)
  /\ CacheOwnSlot
  /\ EndTransaction
  /\ UNCHANGED <<pageVars, rd, crashes, history>>

\* No reader that holds the page lock is looking at a row of x.
RowUnlocked(x) == \A r \in Reader : ~(rd[r].kind = "tuple" /\ rd[r].id = x /\ rd[r].pc # "done")

RollbackUndoRecords ==
  /\ owner.pc = "active"
  /\ RowUnlocked(owner.id)
  /\ Log(UndoRows(buf, owner.id), UndoRecord(owner.id))
  /\ Goto("undone")
  /\ UNCHANGED <<csnVars, nextFree, recycleId, cacheVars, rd, crashes, history>>

ReadAbortCsn ==
  /\ owner.pc = "undone"
  /\ owner' = [owner EXCEPT !.pc = "to_aborted", !.csn = nextCsn]
  /\ UNCHANGED <<csnVars, pageVars, cacheVars, rd, crashes, history>>

RollbackTxnSlot ==
  /\ owner.pc = "to_aborted"
  /\ Log(SetSlot(buf, owner.id, "ABORTED", owner.csn), AbortRecord(owner.id, owner.csn))
  /\ owner' = [owner EXCEPT !.pc = "aborted", !.csn = INVALID_CSN]
  /\ failed' = failed \ {owner.id}
  /\ UNCHANGED <<csnVars, nextFree, recycleId, cacheVars, rd, crashes, commitCsn, hidden>>

FinishAbort ==
  /\ owner.pc = "aborted"
  /\ CacheOwnSlot
  /\ EndTransaction
  /\ UNCHANGED <<pageVars, rd, crashes, history>>

-----------------------------------------------------------------------------
(* Transactions of other zones, the recycler. *)

OthersDrawCsn ==
  /\ nextCsn < MaxCsn
  /\ H!IssueCsn
  /\ UNCHANGED <<pageVars, cacheVars, owner, rd, crashes, history>>

AdvanceHorizon ==
  /\ H!AdvanceHorizon /\ horizon' # horizon
  /\ UNCHANGED <<pageVars, cacheVars, owner, rd, crashes, history>>

\* One page: the loop of RecycleTxnSlots logs and unlocks page by page.  The code
\* publishes m_recycleLogicSlotId after the last page, so that a slot is never used
\* again earlier than here.
RecycleTxnSlots(recycleMinCsn) ==
  \E to \in {Min({RecycleEnd(buf, recycleId, nextFree, recycleMinCsn), PageEnd(recycleId)})} :
    /\ to # recycleId
    /\ Log(Freeze(buf, {PosOf(id) : id \in recycleId..to-1}), RecycleRecord(recycleId, to))
    /\ recycleId' = to
    /\ UNCHANGED <<csnVars, nextFree, cacheVars, owner, rd, crashes, history>>

-----------------------------------------------------------------------------
(***************************************************************************)
(* Readers.  A reader takes a snapshot and looks at a row of transaction   *)
(* id, on a copy of the page ("cr", ConstructCR) or on the page itself     *)
(* under its lock ("tuple", XidVisibleToSnapshot).  It asks for the state  *)
(* of the transaction several times (stage): first; again, for the copy,   *)
(* before it waits; after the wait; and once more for the CSN.             *)
(***************************************************************************)

OpenSnapshot(r) ==
  /\ rd[r].pc = "idle"
  /\ H!TakeSnapshot(r)
  /\ rd' = [rd EXCEPT ![r].pc = "open", ![r].snap = nextCsn]
  /\ UNCHANGED <<pageVars, cacheVars, owner, crashes, history>>

ReadRow(r, kind, x) ==
  /\ rd[r].pc = "open"
  /\ x < nextFree /\ x \notin buf.undone
  /\ rd' = [rd EXCEPT ![r].pc = "lookup", ![r].kind = kind, ![r].stage = "first", ![r].id = x]
  /\ UNCHANGED <<csnVars, pageVars, cacheVars, owner, crashes, history>>

\* What the reader does with the answer to a question for its transaction.
Judged(c, visible) == [c EXCEPT !.pc = "done", !.stage = "none", !.visible = visible]
Ask(c, stage) == [c EXCEPT !.pc = "lookup", !.stage = stage]
Wait(c) == [c EXCEPT !.pc = "wait", !.stage = "none"]

\* QueryXidStatus: a CSN at or above the snapshot makes the wait needless.
NeedWaitPendingTxn(c, slot) == slot.csn < c.snap

First(c, slot) ==
  CASE slot.status = "FROZEN"    -> Judged(c, TRUE)
    [] slot.status = "COMMITTED" -> IF c.kind = "cr" THEN Ask(c, "fill") ELSE Judged(c, slot.csn < c.snap)
    [] slot.status = "PENDING_COMMIT" /\ NeedWaitPendingTxn(c, slot) ->
         IF c.kind = "cr" THEN Ask(c, "again") ELSE Wait(c)
    [] OTHER -> Judged(c, FALSE)

Again(c, slot) ==
  IF slot.status = "PENDING_COMMIT" /\ ~NeedWaitPendingTxn(c, slot) THEN Judged(c, FALSE) ELSE Wait(c)

\* WaitForTransactionEnd: txnFailed.
Waited(c, slot) == IF slot.status \in Unfinished THEN Judged(c, FALSE) ELSE Ask(c, "fill")

\* TD::FillCsn: without a CSN, the assertion that there is one fails.
Fill(c, slot) ==
  CASE slot.status = "FROZEN"    -> Judged(c, TRUE)
    [] slot.status = "COMMITTED" -> Judged(c, slot.csn < c.snap)
    [] OTHER -> [c EXCEPT !.pc = "trap", !.stage = "none"]

Answered(c, slot) ==
  LET next == CASE c.stage = "first"  -> First(c, slot)
                [] c.stage = "again"  -> Again(c, slot)
                [] c.stage = "waited" -> Waited(c, slot)
                [] c.stage = "fill"   -> Fill(c, slot)
  IN [next EXCEPT !.slot = NoSlot, !.min = INVALID_CSN]

Answer(r, slot) ==
  /\ rd' = [rd EXCEPT ![r] = Answered(@, slot)]
  /\ hidden' = IF rd'[r].pc = "done" /\ ~rd'[r].visible
               THEN [hidden EXCEPT ![rd[r].id] = Max({@, rd[r].snap})] ELSE hidden
  /\ UNCHANGED <<commitCsn, failed>>

\* GetTransactionSlotCopy: the horizon, then the cache.
Lookup(r) ==
  LET x == rd[r].id
      entry == cache[x % CacheSlots] IN
  /\ rd[r].pc = "lookup"
  /\ \/ /\ x < cacheRecycle
        /\ Answer(r, [NoSlot EXCEPT !.status = "FROZEN"])
        /\ UNCHANGED cacheVars
     \/ /\ x >= cacheRecycle /\ entry.csn # INVALID_CSN /\ entry.id = x
        /\ Answer(r, entry)
        /\ RefreshRecycleLogicSlotId(x, entry.csn, horizon)
        /\ UNCHANGED cache
     \/ /\ x >= cacheRecycle /\ (entry.csn = INVALID_CSN \/ entry.id # x)
        /\ rd' = [rd EXCEPT ![r].pc = "copy", ![r].min = horizon]
        /\ UNCHANGED <<cacheVars, history>>
  /\ UNCHANGED <<csnVars, pageVars, owner, crashes>>

\* A slot with another id has been used again: the transaction was recycled.
CopySlot(r) ==
  LET slot == SlotOf(buf, rd[r].id) IN
  /\ rd[r].pc = "copy"
  /\ rd' = [rd EXCEPT ![r].pc = "persist",
                      ![r].slot = IF slot.status = "FROZEN" \/ slot.id # rd[r].id
                                  THEN [NoSlot EXCEPT !.status = "FROZEN"] ELSE slot]
  /\ UNCHANGED <<csnVars, pageVars, cacheVars, owner, crashes, history>>

\* Mutant: a commit counts as soon as it is in the slot.
CheckPersistNever(r) ==
  /\ rd[r].pc = "persist"
  /\ WriteTxnInfoToCache(rd[r].id, rd[r].slot, rd[r].min)
  /\ Answer(r, rd[r].slot)
  /\ UNCHANGED <<csnVars, pageVars, owner, crashes>>

\* A commit whose WAL is not on disk still counts as pending.
CheckPersist(r) ==
  LET x == rd[r].id
      slot == [rd[r].slot EXCEPT !.status = IF @ = "COMMITTED" /\ ~Persisted(x)
                                            THEN "PENDING_COMMIT" ELSE @] IN
  /\ rd[r].pc = "persist"
  /\ WriteTxnInfoToCache(x, slot, rd[r].min)
  /\ Answer(r, slot)
  /\ UNCHANGED <<csnVars, pageVars, owner, crashes>>

WaitForTransactionEnd(r) ==
  /\ rd[r].pc = "wait" /\ ~Locked(rd[r].id)
  /\ rd' = [rd EXCEPT ![r] = Ask(@, "waited")]
  /\ UNCHANGED <<csnVars, pageVars, cacheVars, owner, crashes, history>>

CloseSnapshot(r) ==
  /\ rd[r].pc \in {"done", "trap"}
  /\ H!DropSnapshots(r) /\ inUse'[r] = {}
  /\ rd' = [rd EXCEPT ![r] = IdleReader]
  /\ UNCHANGED <<pageVars, cacheVars, owner, crashes, history>>

-----------------------------------------------------------------------------
(***************************************************************************)
(* Crash and restart: redo, Restore and its recycling, and the decision to *)
(* roll the last transaction back, which then runs beside new readers.     *)
(***************************************************************************)
RecycleRecords(from, to) ==
  LET starts == {from} \cup {id \in from+1..to-1 : id % PageSlots = 0}
  IN [i \in 1..Cardinality(starts) |->
        LET start == CHOOSE s \in starts : Cardinality({u \in starts : u < s}) = i - 1
        IN RecycleRecord(start, Min({PageEnd(start), to}))]

Restart ==
  LET nf == RestoreNextFree(disk)
      rc == RestoreRecycleId(disk, nf)
      to == RecycleEnd(disk, rc, nf, nextCsn) IN
  /\ crashes < MaxCrash
  /\ ~RestorePanics(disk, nf)
  /\ buf' = Freeze(disk, {PosOf(id) : id \in rc..to-1})
  /\ wal' = IF to = rc THEN <<>> ELSE RecycleRecords(rc, to)
  /\ nextFree' = nf
  /\ recycleId' = to
  /\ owner' = IF NeedsRollback(disk, to, nf)
              THEN [IdleOwner EXCEPT !.pc = "active", !.id = nf - 1, !.async = TRUE] ELSE IdleOwner
  /\ cache' = [p \in 0..CacheSlots-1 |-> NoSlot] /\ cacheRecycle' = 0
  /\ rd' = [r \in Reader |-> IdleReader]
  /\ inUse' = [t \in Thread |-> {}] /\ horizon' = nextCsn /\ UNCHANGED nextCsn
  /\ commitCsn' = [x \in Xid |-> IF Persisted(x) THEN commitCsn[x] ELSE INVALID_CSN]
  /\ hidden' = [x \in Xid |-> INVALID_CSN]
  /\ failed' = {x \in failed : x < nf}
  /\ crashes' = crashes + 1
  /\ UNCHANGED disk

Next ==
  \/ FlushWal \/ \E page \in Page : FlushPage(page)
  \/ Begin \/ AllocSlot
  \/ ReadPendingCsn \/ CommitPending \/ DrawCommitCsn \/ DrawCommitCsnFails \/ CommitCommitted \/ FinishCommit
  \/ RollbackUndoRecords \/ ReadAbortCsn \/ RollbackTxnSlot \/ FinishAbort
  \/ OthersDrawCsn \/ AdvanceHorizon \/ \E min \in 1..horizon : RecycleTxnSlots(min)
  \/ \E r \in Reader : \/ OpenSnapshot(r) \/ Lookup(r) \/ CopySlot(r) \/ CheckPersist(r)
                       \/ WaitForTransactionEnd(r) \/ CloseSnapshot(r)
                       \/ \E kind \in {"cr", "tuple"}, x \in Xid : ReadRow(r, kind, x)
  \/ Restart

Spec == Init /\ [][Next]_vars

-----------------------------------------------------------------------------
(* Properties. *)

Slot(max) == [id : 0..MaxXid, status : Status, csn : 0..max]

\* The variables have the types of the members they stand for.
TypeOK ==
  /\ nextCsn \in 1..MaxCsn /\ horizon \in 1..nextCsn /\ inUse \in [Thread -> SUBSET (1..nextCsn)]
  /\ \A img \in {buf, disk} : /\ img.slots \in [Pos -> Slot(nextCsn)]
                              /\ img.next \in [Page -> 0..nextFree]
                              /\ img.undone \subseteq 0..nextFree-1
  /\ recycleId \in 0..nextFree /\ nextFree \in 0..MaxXid /\ nextFree - recycleId <= Ring
  /\ cache \in [0..CacheSlots-1 -> Slot(nextCsn)] /\ cacheRecycle \in 0..nextFree
  /\ owner.id \in 0..MaxXid /\ owner.csn \in 0..nextCsn
  /\ \A r \in Reader : rd[r].slot \in Slot(nextCsn) /\ rd[r].snap \in 0..nextCsn /\ rd[r].min \in 0..horizon

\* A row is judged visible only if its transaction has committed, durably, with
\* a CSN below the snapshot (XidVisibleToSnapshot and ConstructCR against commit,
\* rollback, recycling, the cache and a restart); and a reader that keeps the page
\* locked always finds the CSN it asks for.
VisibleRight ==
  \A r \in Reader :
    /\ rd[r].pc = "done" /\ rd[r].visible /\ rd[r].id \notin failed =>
         /\ commitCsn[rd[r].id] # INVALID_CSN /\ Persisted(rd[r].id)
         /\ commitCsn[rd[r].id] < rd[r].snap
    /\ rd[r].kind = "tuple" => rd[r].pc # "trap"

\* No transaction commits with a CSN below a snapshot that was told it does not
\* see it (Commit<TXN_STATUS_PENDING_COMMIT> before the CSN is drawn).
InvisibleRight ==
  \A x \in Xid : commitCsn[x] # INVALID_CSN => hidden[x] <= commitCsn[x]

\* Whenever the system stops, Restore finds the ring again: the next free id, no
\* panic, a recycle id such that all ids from there on are in their slots and
\* nothing older is still in use.
RestoreExact ==
  LET nf == RestoreNextFree(disk)
      rc == RestoreRecycleId(disk, nf) IN
  /\ nf = Max({disk.next[p] : p \in Page})
  /\ ~RestorePanics(disk, nf)
  /\ rc \in 0..nf /\ nf - rc <= Ring
  /\ \A id \in rc..nf-1 : SlotOf(disk, id).id = id
  /\ \A p \in Pos : disk.slots[p].id < rc => disk.slots[p].status \in {"UNKNOWN", "FROZEN"}

\* A transaction under way has somebody who will end it, the writer or the
\* rollback that a restart begins (IsUndoZoneNeedRollback looks at the last slot
\* only), unless its commit failed to draw a CSN.
NoOrphan ==
  \A x \in recycleId..nextFree-1 \ failed :
    /\ SlotOf(buf, x).id = x
    /\ SlotOf(buf, x).status \in Unfinished => owner.pc # "idle" /\ owner.id = x

\* Below the cache's recycle id every transaction has ended with a CSN below the
\* horizon, committed durably or with its rows undone (RefreshRecycleLogicSlotId
\* concludes this for all older ids from one).
CacheRecycleExact ==
  \A x \in Xid \ failed : x < cacheRecycle =>
    \/ commitCsn[x] # INVALID_CSN /\ commitCsn[x] < horizon /\ Persisted(x)
    \/ /\ x \in buf.undone
       /\ x < recycleId \/ (SlotOf(buf, x).status = "ABORTED" /\ SlotOf(buf, x).csn < horizon)

\* ConstructCR finds a CSN for every row it keeps: the assertion after FillCsn,
\* "StorageAssert(td->TestCsnStatus(IS_CUR_XID_CSN))", never fails.
CsnFilled == \A r \in Reader : rd[r].pc # "trap"
=============================================================================
