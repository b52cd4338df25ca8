------------------------------- MODULE CsnMgr -------------------------------
(***************************************************************************)
(* The commit sequence numbers of a node (CsnMgr), the snapshots that      *)
(* transactions take of them, and the recycling horizon m_localCsnMin.     *)
(*                                                                         *)
(* A thread publishes the oldest snapshot it uses in its csnMin word.  It  *)
(* cannot read m_nextCsn and publish it in one step, so it first stores    *)
(* MAX_COMMITSEQNO, and whoever computes the horizon spins while it sees   *)
(* that value.  Cursors keep the snapshot they were opened with.           *)
(*                                                                         *)
(* The control file holds an upper bound of all numbers handed out: a      *)
(* restart goes on behind it.  A thread that draws the first number of a   *)
(* block of Increment numbers pushes the bound; one that draws a number    *)
(* beyond the bound waits.                                                 *)
(***************************************************************************)
EXTENDS Integers, Sequences

CONSTANTS
  Reader,      \* the threads that take snapshots
  Committer,   \* the threads that commit changes
  Increment,   \* m_csnAssignmentIncrement
  MaxCsn,      \* bound: the numbers drawn
  MaxSnapshot, \* bound: the number of the latest snapshot taken
  MaxCursor    \* bound: open cursors of a thread

Thread == Reader \cup Committer

ASSUME CsnAssumption ==
  /\ Increment \in Nat /\ Increment >= 2
  /\ MaxCsn \in Nat
  /\ MaxSnapshot \in Nat /\ MaxCursor \in Nat

INVALID_CSN     == 0
FIRST_NORMAL    == 1
MAX_COMMITSEQNO == -1   \* all bits set: no number is as large

VARIABLES
  nextCsn,         \* m_nextCsn
  maxReservedCsn,  \* m_maxReservedCsn
  ctlCsn,          \* ControlCsnPageData::m_csn, on disk
  reserveLock,     \* who holds m_maxReservedCsnLock
  localCsnMin,     \* m_localCsnMin
  csnMin,          \* thread -> ThreadXact::csnMin
  snapshot,        \* thread -> m_snapshot.snapshotCsn
  cursors,         \* thread -> m_cursorSnapshotList, the snapshots' numbers
  pc,              \* thread -> where it is
  cur,             \* thread -> the number it read or drew
  newMax,          \* thread -> newMaxReservedCsn
  scan,            \* UpdateLocalCsnMin: the nextCsn it read, the least csnMin so
                   \* far, the threads it has still to look at
  issued,          \* history: the numbers returned for a commit, ever
  writeFailed      \* history: a write of the control file failed since the start

csnVars  == <<nextCsn, maxReservedCsn, ctlCsn, reserveLock>>
thrdVars == <<csnMin, snapshot, cursors, pc, cur, newMax>>
histVars == <<issued, writeFailed>>
vars == <<csnVars, localCsnMin, thrdVars, scan, histVars>>

NoOne == <<>>

Idle == [on |-> FALSE, next |-> INVALID_CSN, min |-> MAX_COMMITSEQNO, left |-> {}]

\* Mutant: the bound itself is handed out again.
FirstCsnAgain(ctl) == ctl

\* Where CsnMgr::Initialize goes on, given the bound in the control file.
FirstCsn(ctl) == ctl + 1

\* The control file is created with csn 0.
Init ==
  /\ ctlCsn = INVALID_CSN
  /\ nextCsn = FirstCsn(ctlCsn)
  /\ maxReservedCsn = ctlCsn
  /\ localCsnMin = nextCsn
  /\ reserveLock = NoOne
  /\ csnMin = [t \in Thread |-> INVALID_CSN]
  /\ snapshot = [t \in Thread |-> INVALID_CSN]
  /\ cursors = [t \in Thread |-> <<>>]
  /\ pc = [t \in Thread |-> "none"]
  /\ cur = [t \in Thread |-> INVALID_CSN]
  /\ newMax = [t \in Thread |-> INVALID_CSN]
  /\ scan = Idle
  /\ issued = {}
  /\ writeFailed = FALSE

(***************************************************************************)
(* The published csnMin.                                                   *)
(***************************************************************************)
NoCsn(csn) == csn \in {INVALID_CSN, MAX_COMMITSEQNO}

\* ThreadContext::SetLocalCsn
SetLocalCsn(t, csn) ==
  csnMin' = IF NoCsn(csn) \/ NoCsn(csnMin[t]) THEN [csnMin EXCEPT ![t] = csn] ELSE csnMin

\* Mutant: open cursors do not keep it.
SetThrdLocalCsnAlways(t, csn) == SetLocalCsn(t, csn)

\* Transaction::SetThrdLocalCsn, of a top transaction.
SetThrdLocalCsn(t, csn) ==
  IF cursors[t] = <<>> \/ NoCsn(csnMin[t]) THEN SetLocalCsn(t, csn) ELSE UNCHANGED csnMin

(***************************************************************************)
(* A thread's transaction: pc "none" outside of it, "txn" inside.          *)
(***************************************************************************)
Goto(t, from, to) == pc[t] = from /\ pc' = [pc EXCEPT ![t] = to]

Start(t) ==
  /\ Goto(t, "none", "txn")
  /\ snapshot' = [snapshot EXCEPT ![t] = INVALID_CSN]
  /\ SetThrdLocalCsn(t, INVALID_CSN)
  /\ UNCHANGED <<csnVars, localCsnMin, cursors, cur, newMax, scan, histVars>>

\* SetSnapshotCsn: announce, read the number, publish it.
SetSnapshotCsn(t) ==
  /\ t \in Reader
  /\ nextCsn <= MaxSnapshot
  /\ Goto(t, "txn", "announced")
  /\ snapshot[t] = INVALID_CSN
  /\ SetThrdLocalCsn(t, MAX_COMMITSEQNO)
  /\ UNCHANGED <<csnVars, localCsnMin, snapshot, cursors, cur, newMax, scan, histVars>>

\* Mutant: the snapshot includes the transaction that commits next.
ReadNextCsnAhead(t) ==
  /\ Goto(t, "announced", "read")
  /\ cur' = [cur EXCEPT ![t] = nextCsn + 1]
  /\ UNCHANGED <<csnVars, localCsnMin, csnMin, snapshot, cursors, newMax, scan, histVars>>

ReadNextCsn(t) ==
  /\ Goto(t, "announced", "read")
  /\ cur' = [cur EXCEPT ![t] = nextCsn]
  /\ UNCHANGED <<csnVars, localCsnMin, csnMin, snapshot, cursors, newMax, scan, histVars>>

GetCursorSnapshotMinCsn(t) == IF cursors[t] = <<>> THEN INVALID_CSN ELSE Head(cursors[t])

PublishSnapshot(t) ==
  /\ Goto(t, "read", "txn")
  /\ SetThrdLocalCsn(t, IF GetCursorSnapshotMinCsn(t) = INVALID_CSN
                          THEN cur[t] ELSE GetCursorSnapshotMinCsn(t))
  /\ snapshot' = [snapshot EXCEPT ![t] = cur[t]]
  /\ cur' = [cur EXCEPT ![t] = INVALID_CSN]
  /\ UNCHANGED <<csnVars, localCsnMin, cursors, newMax, scan, histVars>>

\* Outside of a transaction SetSnapshotCsn fails, but takes the published csn back.
SetSnapshotCsnRefused(t) ==
  /\ Goto(t, "none", "none")
  /\ SetThrdLocalCsn(t, INVALID_CSN)
  /\ UNCHANGED <<csnVars, localCsnMin, snapshot, cursors, cur, newMax, scan, histVars>>

\* The next command of a block (Start or Commit, read committed).
NextCommand(t) ==
  /\ Goto(t, "txn", "txn")
  /\ snapshot' = [snapshot EXCEPT ![t] = INVALID_CSN]
  /\ UNCHANGED <<csnVars, localCsnMin, csnMin, cursors, cur, newMax, scan, histVars>>

\* TransactionInterface::ResetSnapshotCsn
ResetSnapshotCsn(t) ==
  /\ Goto(t, "txn", "txn")
  /\ snapshot' = [snapshot EXCEPT ![t] = INVALID_CSN]
  /\ SetThrdLocalCsn(t, INVALID_CSN)
  /\ UNCHANGED <<csnVars, localCsnMin, cursors, cur, newMax, scan, histVars>>

AddCursorSnapshot(t) ==
  /\ t \in Reader
  /\ Goto(t, "txn", "txn")
  /\ Len(cursors[t]) < MaxCursor
  /\ cursors' = [cursors EXCEPT ![t] = Append(@, snapshot[t])]
  /\ UNCHANGED <<csnVars, localCsnMin, csnMin, snapshot, cur, newMax, scan, histVars>>

Without(s, i) == [j \in 1..(Len(s) - 1) |-> IF j < i THEN s[j] ELSE s[j + 1]]

\* Transaction::CleanupResource, where the caller asked for it: all cursors go.
CleanupResource(t) ==
  \E cleanUpResource \in BOOLEAN :
    cursors' = IF cleanUpResource THEN [cursors EXCEPT ![t] = <<>>] ELSE cursors

\* A cursor may outlive its transaction, and is closed at any time, alone ...
DeleteCursorSnapshot(t) ==
  /\ pc[t] \in {"none", "txn"}
  /\ \E i \in DOMAIN cursors[t] : cursors' = [cursors EXCEPT ![t] = Without(@, i)]
  /\ UNCHANGED <<csnVars, localCsnMin, csnMin, snapshot, pc, cur, newMax, scan, histVars>>

\* ... or with all others (CleanUpResourceAfterCommit, DeleteAllCursorSnapshots).
DeleteAllCursorSnapshots(t) ==
  /\ pc[t] \in {"none", "txn"}
  /\ cursors' = [cursors EXCEPT ![t] = <<>>]
  /\ UNCHANGED <<csnVars, localCsnMin, csnMin, snapshot, pc, cur, newMax, scan, histVars>>

Abort(t) ==
  /\ Goto(t, "txn", "none")
  /\ snapshot' = [snapshot EXCEPT ![t] = INVALID_CSN]
  /\ SetThrdLocalCsn(t, INVALID_CSN)
  /\ CleanupResource(t)
  /\ UNCHANGED <<csnVars, localCsnMin, cur, newMax, scan, histVars>>

(***************************************************************************)
(* Commit draws a number: GetNextCsn with advance.                         *)
(***************************************************************************)
\* Mutant: the last number of a block pushes.
LastOfBlock(csn) == csn % Increment = 0

FirstOfBlock(csn) == csn % Increment = FIRST_NORMAL

Commit(t) ==
  /\ t \in Committer
  /\ Goto(t, "txn", "commit")
  /\ snapshot' = [snapshot EXCEPT ![t] = INVALID_CSN]
  /\ UNCHANGED <<csnVars, localCsnMin, csnMin, cursors, cur, newMax, scan, histVars>>

GetNextCsn(t) ==
  /\ nextCsn < MaxCsn
  /\ Goto(t, "commit", IF FirstOfBlock(nextCsn) THEN "reserve" ELSE "wait")
  /\ cur' = [cur EXCEPT ![t] = nextCsn]
  /\ nextCsn' = nextCsn + 1
  /\ UNCHANGED <<maxReservedCsn, ctlCsn, reserveLock, localCsnMin, csnMin, snapshot, cursors,
                 newMax, scan, histVars>>

\* The bound UpdateMaxReservedCsnIfNecessary asks for, given the one it read.
Pushed(old, csn) ==
  IF old <= csn THEN (csn \div Increment + 1) * Increment + Increment
  ELSE IF old - csn <= Increment THEN old + Increment
  ELSE old

UpdateMaxReservedCsnIfNecessary(t) ==
  /\ Goto(t, "reserve", IF Pushed(maxReservedCsn, cur[t]) > maxReservedCsn THEN "lock" ELSE "wait")
  /\ newMax' = [newMax EXCEPT ![t] = IF Pushed(maxReservedCsn, cur[t]) > maxReservedCsn
                                      THEN Pushed(maxReservedCsn, cur[t]) ELSE INVALID_CSN]
  /\ UNCHANGED <<csnVars, localCsnMin, csnMin, snapshot, cursors, cur, scan, histVars>>

\* Under m_maxReservedCsnLock: somebody else did it.
UpdateMaxReservedCsnRedundant(t) ==
  /\ Goto(t, "lock", "wait")
  /\ reserveLock = NoOne
  /\ newMax[t] <= maxReservedCsn
  /\ newMax' = [newMax EXCEPT ![t] = INVALID_CSN]
  /\ UNCHANGED <<csnVars, localCsnMin, csnMin, snapshot, cursors, cur, scan, histVars>>

\* ControlCsnInfo::SetMaxReservedCSN succeeds ...
SetMaxReservedCSN(t) ==
  /\ Goto(t, "lock", "written")
  /\ reserveLock = NoOne
  /\ newMax[t] > maxReservedCsn
  /\ reserveLock' = <<t>>
  /\ newMax' = [newMax EXCEPT ![t] = IF newMax[t] <= ctlCsn THEN ctlCsn ELSE newMax[t]]
  /\ ctlCsn' = newMax'[t]
  /\ UNCHANGED <<nextCsn, maxReservedCsn, localCsnMin, csnMin, snapshot, cursors, cur, scan, histVars>>

\* Mutant: m_maxReservedCsnLock is not released.
PushKeepsLock(t) ==
  /\ Goto(t, "written", "wait")
  /\ maxReservedCsn' = newMax[t]
  /\ UNCHANGED <<nextCsn, ctlCsn, reserveLock, localCsnMin, csnMin, snapshot, cursors, cur,
                 newMax, scan, histVars>>

\* ... and then the bound is pushed in memory.
PushMaxReservedCsn(t) ==
  /\ Goto(t, "written", "wait")
  /\ maxReservedCsn' = newMax[t]
  /\ reserveLock' = NoOne
  /\ newMax' = [newMax EXCEPT ![t] = INVALID_CSN]
  /\ UNCHANGED <<nextCsn, ctlCsn, localCsnMin, csnMin, snapshot, cursors, cur, scan, histVars>>

\* ... or it fails, before or after the value reached the disk, and with it the
\* commit.
SetMaxReservedCSNFails(t) ==
  /\ Goto(t, "lock", "end")
  /\ reserveLock = NoOne
  /\ newMax[t] > maxReservedCsn
  /\ ctlCsn' \in {ctlCsn} \cup {csn \in {newMax[t]} : csn > ctlCsn}
  /\ writeFailed' = TRUE
  /\ newMax' = [newMax EXCEPT ![t] = INVALID_CSN]
  /\ cur' = [cur EXCEPT ![t] = INVALID_CSN]
  /\ UNCHANGED <<nextCsn, maxReservedCsn, reserveLock, localCsnMin, csnMin, snapshot, cursors, scan, issued>>

\* Mutant: the number is used without waiting for the bound.
DrawnUnbounded(t) ==
  /\ Goto(t, "wait", "end")
  /\ issued' = issued \cup {cur[t]}
  /\ UNCHANGED <<csnVars, localCsnMin, csnMin, snapshot, cursors, cur, newMax, scan, writeFailed>>

\* GetNextCsn returns: the number goes into the transaction slot.
Drawn(t) ==
  /\ Goto(t, "wait", "end")
  /\ cur[t] <= maxReservedCsn
  /\ issued' = issued \cup {cur[t]}
  /\ cur' = [cur EXCEPT ![t] = INVALID_CSN]
  /\ UNCHANGED <<csnVars, localCsnMin, csnMin, snapshot, cursors, newMax, scan, writeFailed>>

\* CommitInternal, step 4: whether or not the slot was committed.
CommitEnds(t) ==
  /\ Goto(t, "end", "none")
  /\ SetThrdLocalCsn(t, INVALID_CSN)
  /\ cur' = [cur EXCEPT ![t] = INVALID_CSN]
  /\ newMax' = [newMax EXCEPT ![t] = INVALID_CSN]
  /\ CleanupResource(t)
  /\ UNCHANGED <<csnVars, localCsnMin, snapshot, scan, histVars>>

(***************************************************************************)
(* UpdateLocalCsnMin, under m_updateLocalCsnMinLock: one at a time.        *)
(***************************************************************************)
\* The lesser of two numbers, MAX_COMMITSEQNO above all.
Lesser(a, b) == IF a = MAX_COMMITSEQNO THEN b
                ELSE IF b = MAX_COMMITSEQNO \/ a <= b THEN a ELSE b

UpdateLocalCsnMin ==
  /\ ~scan.on
  /\ scan' = [on |-> TRUE, next |-> nextCsn, min |-> MAX_COMMITSEQNO, left |-> Thread]
  /\ UNCHANGED <<csnVars, localCsnMin, thrdVars, histVars>>

\* ThreadCoreMgr::GetLocalCsnMin, one thread of the array.
ScanThread(t) ==
  /\ t \in scan.left
  /\ csnMin[t] # MAX_COMMITSEQNO
  /\ scan' = [scan EXCEPT !.left = @ \ {t},
                          !.min = IF csnMin[t] = INVALID_CSN THEN @ ELSE Lesser(@, csnMin[t])]
  /\ UNCHANGED <<csnVars, localCsnMin, thrdVars, histVars>>

\* Mutant: the horizon stays one short.
NewLocalCsnMinShort == Lesser(scan.min, scan.next) - 1

NewLocalCsnMin == Lesser(scan.min, scan.next)

AdvanceLocalCsnMin ==
  /\ scan.on /\ scan.left = {}
  /\ localCsnMin' = NewLocalCsnMin
  /\ scan' = Idle
  /\ UNCHANGED <<csnVars, thrdVars, histVars>>

(***************************************************************************)
(* A crash loses everything but the control file; CsnMgr::Initialize.      *)
(***************************************************************************)
Restart ==
  /\ ctlCsn < MaxCsn
  /\ nextCsn' = FirstCsn(ctlCsn)
  /\ maxReservedCsn' = ctlCsn
  /\ localCsnMin' = nextCsn'
  /\ reserveLock' = NoOne
  /\ csnMin' = [t \in Thread |-> INVALID_CSN]
  /\ snapshot' = [t \in Thread |-> INVALID_CSN]
  /\ cursors' = [t \in Thread |-> <<>>]
  /\ pc' = [t \in Thread |-> "none"]
  /\ cur' = [t \in Thread |-> INVALID_CSN]
  /\ newMax' = [t \in Thread |-> INVALID_CSN]
  /\ scan' = Idle
  /\ writeFailed' = FALSE
  /\ UNCHANGED <<ctlCsn, issued>>

Statement(t) ==
  \/ Start(t) \/ SetSnapshotCsn(t) \/ SetSnapshotCsnRefused(t)
  \/ NextCommand(t) \/ ResetSnapshotCsn(t)
  \/ AddCursorSnapshot(t) \/ DeleteCursorSnapshot(t) \/ DeleteAllCursorSnapshots(t)
  \/ Commit(t) \/ Abort(t)

Step(t) ==
  \/ ReadNextCsn(t) \/ PublishSnapshot(t)
  \/ GetNextCsn(t)
  \/ UpdateMaxReservedCsnIfNecessary(t) \/ UpdateMaxReservedCsnRedundant(t)
  \/ SetMaxReservedCSN(t) \/ PushMaxReservedCsn(t) \/ SetMaxReservedCSNFails(t)
  \/ Drawn(t) \/ CommitEnds(t)

UpdateStep == (\E t \in Thread : ScanThread(t)) \/ AdvanceLocalCsnMin

Next ==
  \/ \E t \in Thread : Statement(t) \/ Step(t)
  \/ UpdateLocalCsnMin \/ UpdateStep
  \/ Restart

Spec == Init /\ [][Next]_vars

-----------------------------------------------------------------------------
Csn == Nat

PC == {"none", "txn", "announced", "read", "commit", "reserve", "lock", "written", "wait", "end"}

\* The type of the state; m_maxReservedCsnLock is held across the write of the
\* control file and nowhere else.
TypeOK ==
  /\ nextCsn \in Csn /\ maxReservedCsn \in Csn /\ ctlCsn \in Csn
  /\ localCsnMin \in Csn
  /\ reserveLock \in {NoOne} \cup {<<t>> : t \in Thread}
  /\ \A t \in Thread : reserveLock = <<t>> <=> pc[t] = "written"
  /\ csnMin \in [Thread -> Csn \cup {MAX_COMMITSEQNO}]
  /\ snapshot \in [Thread -> Csn]
  /\ cursors \in [Thread -> Seq(Csn)]
  /\ pc \in [Thread -> PC]
  /\ cur \in [Thread -> Csn] /\ newMax \in [Thread -> Csn]
  /\ scan \in [on : BOOLEAN, next : Csn, min : Csn \cup {MAX_COMMITSEQNO}, left : SUBSET Thread]
  /\ issued \subseteq Csn /\ writeFailed \in BOOLEAN

\* The snapshots a thread may still read with: its transaction's, its cursors',
\* and the one SetSnapshotCsn is about to return.
InUse(t) ==
  ({snapshot[t]} \cup {cursors[t][i] : i \in DOMAIN cursors[t]}
     \cup {csn \in {cur[t]} : pc[t] = "read"}) \ {INVALID_CSN}

\* m_localCsnMin never passes a snapshot in use, whatever order snapshots are
\* taken, kept by cursors, given up and scanned in: nothing a reader may need is
\* recycled.
HorizonBelowSnapshots == \A t \in Thread : \A csn \in InUse(t) : localCsnMin <= csn

\* The StorageReleasePanic of UpdateLocalCsnMin is not reached: the minimum it has
\* computed is never below the one before.
NoPanic == scan.on /\ scan.left = {} => NewLocalCsnMin >= localCsnMin

\* The number a commit gets was never given to a commit before, in this run of
\* the program or in an earlier one.
NoCsnTwice ==
  [][\A t \in Thread : pc[t] = "wait" /\ pc'[t] = "end" => cur[t] \notin issued]_vars

\* Every committed number lies within the bound on disk, where a restart begins.
IssuedReserved == \A csn \in issued : csn <= ctlCsn

\* The CSN manager keeps its promise to the users of snapshots and horizon.
Horizon == INSTANCE CsnHorizon WITH
  next <- nextCsn, inUse <- [t \in Thread |-> InUse(t)], horizon <- localCsnMin
HorizonKept == Horizon!Spec

\* Nobody waits for a bound that nobody will push: while a commit holds a number
\* beyond it, somebody is on the way to push it past that number, unless a write of
\* the control file has failed since the start.
WaiterHasPusher ==
  \A t \in Thread : pc[t] = "wait" /\ cur[t] > maxReservedCsn /\ ~writeFailed =>
    \E u \in Thread : pc[u] \in {"reserve", "lock", "written"} /\ cur[t] < cur[u] + Increment
=============================================================================
