---------------------------- MODULE TxnSlotRing ----------------------------
(***************************************************************************)
(* The transaction slot pages of one undo zone: a ring of Pages pages with *)
(* PageSlots slots each.  A transaction's logic slot id fixes its slot; it *)
(* is used again one lap later.  An image is the content of the pages, in  *)
(* the buffer pool or on disk, together with the transactions whose rows   *)
(* have been rolled back in the data pages.  Redo is what recovery does    *)
(* with a WAL record, Restore what it then concludes from the pages.       *)
(***************************************************************************)
EXTENDS Integers, Sequences, FiniteSets, FiniteSetsExt

CONSTANTS
  Pages,       \* TRX_PAGES_PER_ZONE, at least one
  PageSlots    \* TRX_PAGE_SLOTS_NUM, at least one

Ring == Pages * PageSlots
Page == 0..Pages-1
Pos  == 0..Ring-1

GetSlotId(id) == id % PageSlots
GetTxnSlotPageId(id) == (id \div PageSlots) % Pages
At(page, slotId) == page * PageSlots + slotId
PosOf(id) == At(GetTxnSlotPageId(id), GetSlotId(id))

Status == {"UNKNOWN", "FROZEN", "IN_PROGRESS", "PENDING_COMMIT", "COMMITTED", "ABORTED"}
Unfinished == {"IN_PROGRESS", "PENDING_COMMIT"}

INVALID_CSN == 0

EmptyImage == [slots  |-> [p \in Pos |-> [id |-> 0, status |-> "UNKNOWN", csn |-> INVALID_CSN]],
               next   |-> [p \in Page |-> 0],
               undone |-> {}]

SlotOf(img, id) == img.slots[PosOf(id)]

\* TransactionSlot::Init, and the page's next free id.
InitSlot(img, id) ==
  [img EXCEPT !.slots[PosOf(id)] = [id |-> id, status |-> "IN_PROGRESS", csn |-> INVALID_CSN],
              !.next[GetTxnSlotPageId(id)] = id + 1]

SetSlot(img, id, status, csn) ==
  [img EXCEPT !.slots[PosOf(id)].status = status, !.slots[PosOf(id)].csn = csn]

\* The slots of the given positions are frozen.
Freeze(img, positions) ==
  [img EXCEPT !.slots = [p \in Pos |-> IF p \in positions
                                       THEN [@[p] EXCEPT !.status = "FROZEN"] ELSE @[p]]]

UndoRows(img, id) == [img EXCEPT !.undone = @ \cup {id}]

-----------------------------------------------------------------------------
(* Recycling. *)

IsSlotRecyclable(img, id, recycleMinCsn) ==
  LET slot == SlotOf(img, id) IN
  /\ slot.status \notin Unfinished
  /\ slot.csn = INVALID_CSN \/ slot.csn < recycleMinCsn

\* The first id from recycleId on that cannot be recycled.
RecycleEnd(img, recycleId, nextFree, recycleMinCsn) ==
  Min({nextFree} \cup {id \in recycleId..nextFree-1 : ~IsSlotRecyclable(img, id, recycleMinCsn)})

PageEnd(id) == (id \div PageSlots + 1) * PageSlots

-----------------------------------------------------------------------------
(* WAL records and their redo. *)

AllocRecord(id)               == [op |-> "alloc", id |-> id]
CommitRecord(id, status, csn) == [op |-> "commit", id |-> id, status |-> status, csn |-> csn]
AbortRecord(id, csn)          == [op |-> "abort", id |-> id, csn |-> csn]
UndoRecord(id)                == [op |-> "undo", id |-> id]
RecycleRecord(from, to)       == [op |-> "recycle", id |-> from, to |-> to]

\* The loop runs from the slot of the first id to the slot of the end id, which
\* is slot 0 when the record ends with the page: then nothing is frozen.
RedoRecycle(img, r) ==
  Freeze(img, {At(GetTxnSlotPageId(r.id), s) : s \in GetSlotId(r.id)..GetSlotId(r.to)-1})

Redo(img, r) ==
  CASE r.op = "alloc"   -> InitSlot(img, r.id)
    [] r.op = "commit"  -> SetSlot(img, r.id, r.status, r.csn)
    [] r.op = "abort"   -> SetSlot(img, r.id, "ABORTED", r.csn)
    [] r.op = "undo"    -> UndoRows(img, r.id)
    [] r.op = "recycle" -> RedoRecycle(img, r)

-----------------------------------------------------------------------------
(* UndoZoneTrxManager::Restore. *)

\* Step 1: the pages are read in order as long as their next free ids grow.
RestoreNextFree(img) ==
  LET Before(p) == IF p = 0 THEN 0 ELSE img.next[p - 1]
      read == Max({k \in 0..Pages : \A p \in 0..k-1 : img.next[p] > Before(p)})
  IN Before(read)

\* Step 2: a slot that seems to be from the future is a panic.
RestorePanics(img, nextFree) ==
  SlotOf(img, nextFree).id # 0 /\ SlotOf(img, nextFree).id >= nextFree

\* Mutant: a page whose last transaction has ended is passed over.
LastSlotUnfinished(img, page) == img.slots[At(page, PageSlots - 1)].status \in Unfinished

\* Step 3: forward from the page of the next free id, up to a page whose last
\* slot is still in use.
LastSlotUsed(img, page) == img.slots[At(page, PageSlots - 1)].status \notin {"UNKNOWN", "FROZEN"}

RestoreRecycleId(img, nextFree) ==
  LET start == GetTxnSlotPageId(nextFree)
      Ahead(i) == (start + i) % Pages
      i == Min({Pages} \cup {k \in 0..Pages-1 : LastSlotUsed(img, Ahead(k))})
  IN IF i = 0 THEN SlotOf(img, nextFree).id
     ELSE IF i = Pages THEN nextFree - (nextFree % PageSlots)
     ELSE img.slots[At(Ahead(i), 0)].id

\* Mutant: a pending commit is taken for a finished one.
NeedsRollbackInProgress(img, recycleId, nextFree) ==
  /\ nextFree # 0 /\ recycleId # nextFree
  /\ SlotOf(img, nextFree - 1).status = "IN_PROGRESS"

\* IsUndoZoneNeedRollback, on the restored ids.
NeedsRollback(img, recycleId, nextFree) ==
  /\ nextFree # 0 /\ recycleId # nextFree
  /\ SlotOf(img, nextFree - 1).status \in Unfinished
=============================================================================
