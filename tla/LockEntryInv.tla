---------------------------- MODULE LockEntryInv ----------------------------
(***************************************************************************)
(* What an entry of the main lock table keeps between two operations on it *)
(* (EntryInv), and what an operation may make of it.                       *)
(***************************************************************************)
EXTENDS LockEntry

Entry == [granted : SUBSET Request, waiting : Seq(Request),
          grantedCnt : [LockMode -> Nat], waitingCnt : [LockMode -> Nat]]

OfMode(S, m) == {r \in S : r.mode = m}
Waiters(e) == {e.waiting[i] : i \in DOMAIN e.waiting}

(* The counters cnt count the requests in S, mode by mode. *)
Exact(cnt, S) ==
  /\ cnt \in [LockMode -> Nat]
  /\ IsFiniteSet(S)
  /\ \A m \in LockMode : cnt[m] = Cardinality(OfMode(S, m))

(* The waiters are distinct, and the counters count holders and waiters. *)
Counted(e) ==
  /\ e \in Entry
  /\ \A i, j \in DOMAIN e.waiting : e.waiting[i] = e.waiting[j] => i = j
  /\ Exact(e.grantedCnt, e.granted)
  /\ Exact(e.waitingCnt, Waiters(e))

(* r cannot be a holder beside those of S. *)
Blocks(S, r) == \E h \in S : h.thr # r.thr /\ HasConflictWithMode(r.mode, h.mode)

Compatible(S) == \A r \in S : ~ Blocks(S, r)

(* An entry between two operations of the table on it. *)
EntryInv(e) ==
  /\ Counted(e)
  /\ Compatible(e.granted)
  /\ e.waiting # <<>> => Blocks(e.granted, e.waiting[1])

(* What res, the result of a request for r, may be. *)
EnqueueOK(e, r, dontWait, res) ==
  /\ EntryInv(res.entry)
  /\ res.ret \in {"granted", "waiting", "not_avail", "deadlock"}
  /\ res.ret = "granted" =>
       /\ res.entry.granted = e.granted \cup {r}
       /\ res.entry.waiting = e.waiting
       /\ \A i \in DOMAIN e.waiting : HasConflictWithMode(r.mode, e.waiting[i].mode) =>
            \E k \in BlockedWaiters(e, r.thr) : k <= i
  /\ res.ret = "waiting" =>
       /\ ~ dontWait
       /\ res.entry.granted = e.granted
       /\ Waiters(res.entry) = Waiters(e) \cup {r}
  /\ res.ret \in {"not_avail", "deadlock"} => res.entry = e

(* What res, the result of taking r out of the entry, may be: the waiters  *)
(* in W are granted, and none of them was behind one that still waits.     *)
DequeueOK(e, r, res) ==
  LET q == IF r \in e.granted THEN Waiters(e) ELSE Waiters(e) \ {r}
  IN  /\ EntryInv(res.entry)
      /\ \E W \in SUBSET q :
           /\ res.entry.granted = (e.granted \ {r}) \cup W
           /\ Waiters(res.entry) = q \ W
           /\ res.woken = {w.thr : w \in W}
           /\ \A i \in DOMAIN e.waiting : e.waiting[i] \in Waiters(res.entry) =>
                \A w \in W : \E j \in DOMAIN e.waiting : j < i /\ e.waiting[j] = w
=============================================================================
