----------------------------- MODULE MCTxnSlots -----------------------------
(***************************************************************************)
(* TxnSlots for TLC, two instances in one run.  "rows" has a reader and a  *)
(* ring of a single slot, so that slots are recycled and used again under  *)
(* its eyes; "ring" has no reader, two pages of two slots, one transaction *)
(* more than fit in a lap, and two crashes.                                *)
(***************************************************************************)
EXTENDS Naturals

CONSTANTS Writer, r

VARIABLES
  nextCsn, inUse, horizon, buf, disk, wal, nextFree, recycleId, cache, cacheRecycle,
  owner, rd, crashes, commitCsn, hidden, failed,
  instance   \* which of the two this behaviour is of

Rows == INSTANCE TxnSlots WITH
  Reader <- {r}, Pages <- 1, PageSlots <- 1, CacheSlots <- 1,
  MaxXid <- 3, MaxCsn <- 3, MaxCrash <- 1, MaxUnflushed <- 2

Ring == INSTANCE TxnSlots WITH
  Reader <- {}, Pages <- 2, PageSlots <- 2, CacheSlots <- 1,
  MaxXid <- 5, MaxCsn <- 3, MaxCrash <- 2, MaxUnflushed <- 2

Init ==
  \/ instance = "rows" /\ Rows!Init
  \/ instance = "ring" /\ Ring!Init

Next ==
  /\ \/ instance = "rows" /\ Rows!Next
     \/ instance = "ring" /\ Ring!Next
  /\ UNCHANGED instance

Spec == Init /\ [][Next]_<<Rows!vars, instance>>

\* The properties of TxnSlots, of whichever instance this is; there are verdicts
\* on rows where there are readers only.
TypeOK            == IF instance = "rows" THEN Rows!TypeOK ELSE Ring!TypeOK
RestoreExact      == IF instance = "rows" THEN Rows!RestoreExact ELSE Ring!RestoreExact
NoOrphan          == IF instance = "rows" THEN Rows!NoOrphan ELSE Ring!NoOrphan
CacheRecycleExact == IF instance = "rows" THEN Rows!CacheRecycleExact ELSE Ring!CacheRecycleExact
VisibleRight      == instance = "rows" => Rows!VisibleRight
InvisibleRight    == instance = "rows" => Rows!InvisibleRight
=============================================================================
