---------------------------- MODULE CsnHorizon ----------------------------
(***************************************************************************)
(* What the CSN manager promises to its users.  There is a next commit     *)
(* sequence number; a reader takes it as its snapshot; and there is a      *)
(* recycling horizon, below which committed and aborted transactions may   *)
(* be forgotten.  The horizon only grows, and never passes a snapshot that *)
(* is still in use.                                                        *)
(***************************************************************************)
EXTENDS Integers

CONSTANTS Thread

VARIABLES
  next,     \* the CSN the next snapshot gets
  inUse,    \* thread -> the snapshots it may still read with
  horizon   \* transactions that ended below it may be recycled

hvars == <<next, inUse, horizon>>

Init ==
  /\ next \in Nat
  /\ horizon = next
  /\ inUse = [t \in Thread |-> {}]

TakeSnapshot(t) ==
  /\ inUse' = [inUse EXCEPT ![t] = @ \cup {next}]
  /\ UNCHANGED <<next, horizon>>

DropSnapshots(t) ==
  /\ \E kept \in SUBSET inUse[t] : inUse' = [inUse EXCEPT ![t] = kept]
  /\ UNCHANGED <<next, horizon>>

IssueCsn ==
  /\ next' = next + 1
  /\ UNCHANGED <<inUse, horizon>>

AdvanceHorizon ==
  /\ horizon' \in horizon..next
  /\ \A t \in Thread : \A csn \in inUse[t] : horizon' <= csn
  /\ UNCHANGED <<next, inUse>>

\* A restart ends all readers.
Restart ==
  /\ inUse' = [t \in Thread |-> {}]
  /\ next' \in Nat
  /\ horizon' = next'

Next ==
  \/ \E t \in Thread : TakeSnapshot(t) \/ DropSnapshots(t)
  \/ IssueCsn
  \/ AdvanceHorizon
  \/ Restart

Spec == Init /\ [][Next]_hvars
=============================================================================
