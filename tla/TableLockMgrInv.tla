--------------------------- MODULE TableLockMgrInv ---------------------------
(***************************************************************************)
(* The inductive invariant of the lock manager, in layers: the types, the  *)
(* entries of the main table, where each lock of each thread is, the       *)
(* strong-lock counters, and where the fast path must be empty.            *)
(***************************************************************************)
EXTENDS TableLockMgr, LockEntryInv

CallRecord == [pc : PCs, tag : Tag \cup {NoTag}, mode : LockMode \cup {0},
               dontWait : BOOLEAN, ok : BOOLEAN, batch : BOOLEAN,
               todo : SUBSET Thread, cur : SUBSET Thread]

(* What a call's fields may be at each of its steps. *)
CallShape(c) ==
  /\ c.pc # "idle" => c.tag \in Tag /\ c.mode \in LockMode
  /\ c.pc \in {"mark", "transfer", "unmark_failed", "unmark"} => IsStrong(c.tag, c.mode)
  /\ c.pc \in {"mark", "transfer", "enqueue", "waiting", "give_up", "unmark_failed"} => ~ c.ok
  /\ c.pc = "remove" => ~ c.batch
  /\ c.cur = {} \/ \E u \in Thread : c.cur = {u}

Fields ==
  /\ table \in [Tag -> Entry]
  /\ granted \in [Thread -> [Tag -> [LockMode -> 0..MaxGranted]]]
  /\ fast \in [Thread -> [Tag -> SUBSET WeakMode]]
  /\ isWaiting \in [Thread -> BOOLEAN]
  /\ call \in [Thread -> CallRecord]
  /\ \A t \in Thread : CallShape(call[t])

Types == Fields /\ strong \in [Partition -> Nat]

Entries == \A tag \in Tag : EntryInv(table[tag])

-----------------------------------------------------------------------------
(* Where a thread's lock in one mode is.                                   *)

R(t, m) == [thr |-> t, mode |-> m]
InTable(t, tag, m) == R(t, m) \in table[tag].granted
InQueue(t, tag, m) == R(t, m) \in Waiters(table[tag])
Here(t, tag, m) == call[t].pc # "idle" /\ call[t].tag = tag /\ call[t].mode = m

(* A lock that no call is busy with is held where the record says. *)
Settled(t, tag, m) ==
  /\ granted[t][tag][m] > 0 <=> InTable(t, tag, m) \/ m \in fast[t][tag]
  /\ ~ (InTable(t, tag, m) /\ m \in fast[t][tag])
  /\ ~ InQueue(t, tag, m)

(* The lock a call is busy with, by the step the call is at: neither held  *)
(* nor waited for, waited for or just granted, granted and not yet         *)
(* recorded, about to leave the table, gone from it.                       *)
Busy(t, tag, m) ==
  LET c == call[t]
  IN  /\ m \notin fast[t][tag]
      /\ \/ c.pc \in {"mark", "transfer", "enqueue", "unmark_failed"}
         \/ c.pc = "record" /\ ~ c.ok
         => granted[t][tag][m] = 0 /\ ~ InTable(t, tag, m) /\ ~ InQueue(t, tag, m)
      /\ c.pc \in {"waiting", "give_up"} =>
           /\ granted[t][tag][m] = 0
           /\ isWaiting[t] <=> InQueue(t, tag, m)
           /\ ~ isWaiting[t] <=> InTable(t, tag, m)
      /\ c.pc = "record" /\ c.ok =>
           granted[t][tag][m] = 0 /\ InTable(t, tag, m) /\ ~ InQueue(t, tag, m)
      /\ c.pc \in {"unlock", "unmark", "remove"} =>
           granted[t][tag][m] = IF c.batch THEN 0 ELSE 1
      /\ c.pc = "unlock" => InTable(t, tag, m) /\ ~ InQueue(t, tag, m)
      /\ c.pc \in {"unmark", "remove"} => ~ InTable(t, tag, m) /\ ~ InQueue(t, tag, m)

Place(t, tag, m) == IF Here(t, tag, m) THEN Busy(t, tag, m) ELSE Settled(t, tag, m)

Places == \A t \in Thread, tag \in Tag, m \in LockMode : Place(t, tag, m)

-----------------------------------------------------------------------------
(* The strong locks and the fast path.                                     *)

Marks(p) == {x \in Thread \X Tag \X StrongMode : PartOf[x[2]] = p /\ HasMark(x[1], x[2], x[3])}

MarksCounted ==
  \A p \in Partition : IsFiniteSet(Marks(p)) /\ strong[p] = Cardinality(Marks(p))

(* No fast-path lock on a tag that a strong lock has reached: it is in the *)
(* main table or its transfer is over; and none on the threads a transfer  *)
(* has passed.                                                             *)
FastClosed ==
  /\ \A u \in Thread, tag \in Tag : fast[u][tag] # {} => tag \in TableTag
  /\ \A t \in Thread, u \in Thread : call[t].pc = "transfer" =>
       u \in call[t].todo \cup call[t].cur \/ fast[u][call[t].tag] = {}
  /\ \A t \in Thread, tag \in Tag, m \in LockMode :
       /\ IsStrong(tag, m)
       /\ \/ InTable(t, tag, m) \/ InQueue(t, tag, m)
          \/ Here(t, tag, m) /\ call[t].pc = "enqueue"
       => \A u \in Thread : fast[u][tag] = {}

IInv == Types /\ Entries /\ Places /\ MarksCounted /\ FastClosed
==============================================================================
