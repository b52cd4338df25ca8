----------------------------- MODULE MCCsnMgr -----------------------------
(* CsnMgr on a small instance. *)
EXTENDS CsnMgr

\* Scans of the horizon begin up to the first number above all snapshots: to
\* one that begins later, every snapshot and cursor is as old.
Scope == scan.next <= MaxSnapshot + 1
=============================================================================
