# open-dstore in TLA+

Models of the concurrency and recovery core of the dstore storage engine, the TLC
runs that check them on small instances, and TLAPS proofs for the parts whose
argument does not depend on the instance.

`PROJECT.json` lists, for every definition that models code, the source lines it
translates; for every property, a mutant of the code that breaks it; and the
hazards of the code with the properties that would notice them.

## The system and the part that is modelled

dstore runs one thread per session in one process. Rows live in pages of a buffer
pool; a transaction writes undo records and owns a *slot* in an undo zone, whose
status and commit sequence number (CSN) tell readers what to make of its rows.
Slots are recycled below a *horizon* that no snapshot in use may lie under. Table
locks are held in a lock manager with two short cuts for weak modes. Everything is
built on one kind of light-weight lock.

| Part | Code | Modules |
|---|---|---|
| light-weight lock | `src/src/lock/dstore_lwlock.cpp` | `LWLock`, `LWLockSignals`, `MCLWLock`, `LWLockInv`, `LWLockProofs`, `LWLockListProofs` |
| main lock table | `src/src/lock/dstore_lock_entry.cpp`, `dstore_lock_hash_table.cpp` | `LockEntry`, `LockEntryInv`, `LockEntryProofs` |
| lock manager and table-lock fast path | `dstore_lock_mgr.cpp`, `dstore_lock_thrd_local.cpp`, `dstore_table_lock_mgr.cpp` | `TableLockMgr` (on `LockEntry`), `MCTableLockMgr`, `TableLockMgrInv`, `TableLockSteps`, `TableLockMgrProofs` |
| lazy table locks | `src/src/transaction/dstore_resowner.cpp`, `src/src/framework/dstore_thread.cpp` | `LazyLock`, `MCLazyLock`, `LazyLockInv`, `LazyLockSteps`, `LazyLockProofs` |
| what CSNs promise | (abstract) | `CsnHorizon` |
| CSN manager, snapshots, cursors | `src/src/transaction/dstore_csn_mgr.cpp`, `dstore_transaction.cpp`, `dstore_cursor.cpp` | `CsnMgr`, `MCCsnMgr`, `CsnMgrProofs` |
| slot pages, their WAL and `Restore` | `src/src/undo/dstore_undo_zone_txn_mgr.cpp`, `src/include/undo/dstore_undo_wal.h` | `TxnSlotRing` |
| transactions in their slots, the transaction info cache, row visibility, restart | `dstore_transaction_mgr.cpp`, `dstore_undo_txn_info_cache.cpp`, `src/src/page/dstore_data_page.cpp` | `TxnSlots` (on `TxnSlotRing` and `CsnHorizon`), `MCTxnSlots` |

How they fit together: `TableLockMgr` applies the operators of `LockEntry`, one
call per critical section. `LazyLock` uses a lock manager reduced to what
`TableLockMgr` promises. `CsnMgr` implements `CsnHorizon`, and `TxnSlots` uses
`CsnHorizon` (`INSTANCE`) for its CSNs, snapshots and horizon, so that the two
compose through the abstract specification. A module `...Inv` holds the inductive
invariant of a component, `...Steps` one lemma per action, `...Proofs` the theorems.

## Light-weight lock

State: `low` and `high` are the halves of the state word, as records of their bit
fields; `waiters` is the wait list; `waiting`, `posted` and `held` are fields of
each thread; the rest are locals of the functions. One action is one access to
shared memory. A compare-and-swap loop is one action at its last iteration; the
two compare-and-swaps of `UpDateNewStat` that give up instead of looping are
actions of their own. Accesses to the wait list are merged with the action that
takes or drops `WAIT_LIST_LOCKED`. All entry points are there: `LWLockAcquire`,
`LWLockConditionalAcquire`, `LWLockConditionalAcquireAnyMode`,
`LWLockAcquireOrWait`, `LWLockRelease`, `LWLockDisown`, `LWLockOwn`.

* `lwlock_safety` - three threads, both modes, posts on the futexes that were
  meant for somebody else. Mutual exclusion, the meaning of every bit and count of
  the word, no node linked twice, no lost wakeup. `Scope` (a state constraint)
  limits the mix: three threads in plain acquires without limit; the other entry
  points and a disowned lock while at least one thread is outside and has no post
  to take. Every pair of entry points meets; three at a time only for
  `LWLockAcquire`.
* `lwlock_live` - two threads, weak fairness: every sleeper in the wait list is
  woken, and an exclusive waiter that raised `DISALLOW_PREEMPT` gets the lock.
* `lwlock_signals` (violation) - see Findings.

Fairness: a thread inside a call runs on, its timed sleep expires, and critical
sections end. All three are weak: the scheduler is preemptive, the sleep has a
timeout argument, and holding a light-weight lock for ever is a bug elsewhere.

## Lock manager and fast path

`LockEntry` is one entry: holders, FIFO queue, per-mode counters. Its methods are
functions from entry to entry, including the early deadlock check that refuses or
reorders an upgrading request. `TableLockMgr` has the threads: a call is a record
with its next step, and one step is one critical section (a thread's `m_mutex`, a
partition of the main table, the strong-lock counters). A strong lock marks its
partition, transfers every thread's fast-path locks on the tag and then queues; a
weak one is granted in the thread's own record while nothing is marked. Failures
of memory, `dontWait`, timeouts (`StopWaiting`, at any moment, which also stands
for cancellation and the deadlock detector) and batch release are included.

* `tablelock_modes` - two threads, one table, the modes AccessShare, RowExclusive,
  ShareUpdateExclusive and AccessExclusive (two weak, the one that is neither weak
  nor strong, a strong one), upgrades, failures. Holders are compatible, the
  records agree with the table, the marks are exact, counters follow the queues,
  two threads never wait for each other on one entry.
* `tablelock_counts` - two tables that share a fast-path partition, each lock held
  up to twice, a weak and a self-compatible strong mode. It checks `IInv`, the
  inductive invariant of the proofs, whose parts together say what the other runs
  ask for one by one. Threads and tags are symmetric here; `ScopeCounts` (a state
  constraint) lets one thread at a time hold a lock twice.
* `tablelock_queue` - three threads, one lock at a time: the head of a queue is
  really blocked, wake-ups match grants, nobody is overtaken, every call returns.

Fairness of the last run: a thread inside a call goes on, and a caller releases
what it holds. No timeout is assumed. A caller that asks for a second lock could
deadlock, so this run has no upgrades.

## Lazy locks

`LazyLock` has the per-thread hint words (a counter and a closing bit in one
atomic), the slots, the list of strong requests per partition, the walks over all
threads, the push of lazy locks into the lock manager and the wake-up of strong
lockers. A walk is one step per thread, with the lock it holds.

* `lazylock_three` - two strong lockers, two lazy ones, one of which registers and
  unregisters; every allocation may fail. The two rules of the comment at
  `dstore_resowner.cpp:1168`, the exactness of counters, closing bits and flags.
* `lazylock_live` - two tables compete for a slot, and allocations for slots and
  pushes may fail; every wait for lazy locks ends. Fairness: threads run on, lock
  waits poll, transactions end (weak), and a push that is retried again and again
  is not refused memory for ever (strong: the push is enabled with either outcome
  at every retry, and without it the wait may last as long as memory is short).
* `lazylock_iterator` (violation) - see Findings.

With two partitions the two rules hold only while one partition at a time has
waiters; `lazylock_three` therefore has one. The proofs say which part survives:
the partition that a wake-up visits first keeps both rules whatever the others do.

## CSN manager

`CsnHorizon` says what users rely on: a snapshot is the next CSN, and the horizon
grows but never passes a snapshot in use. `CsnMgr` is the code: a thread announces
a snapshot with `MAX_COMMITSEQNO`, reads `m_nextCsn`, publishes it, in three steps;
cursors keep snapshots over the end of a transaction; the horizon is computed
from one thread after the other; commits draw numbers in blocks reserved in the
control file, whose write may fail; a restart continues behind the reserved bound.

A failed write leaves the committers of its block without anybody to push the
bound for them, and a later write does not always reach them, so `WaiterHasPusher`
is about the time before the first failure since the start.

* `csn_mgr` - one thread that reads, opens a cursor and commits, one that commits;
  blocks of two numbers, six numbers, a restart at any point. Bounds: `MaxCsn = 6`
  gives three blocks, so that the bound is pushed before and after a restart;
  snapshots up to number 2 and one open cursor per thread, as older and newer
  snapshots of one thread already differ there; scans of the horizon that begin up
  to number 3 (`Scope`), as every snapshot is as old to later ones. The proofs below
  do not have these bounds.

## Transaction slots, visibility and restart

`TxnSlotRing` has the slot pages as values: allocate, set, freeze, redo of each WAL
record, and the conclusions of `UndoZoneTrxManager::Restore`. `TxnSlots` adds the
actors: the writer of the zone, the recycler, readers, the WAL writer, the page
writer, other sessions that draw CSNs, and a crash.

* A commit is four steps: mark `PENDING_COMMIT`, draw the CSN (which may fail),
  write `COMMITTED`, write the cache and unlock. A rollback undoes the rows, reads
  a CSN, writes `ABORTED`, unlocks.
* A reader takes a snapshot and looks at a row as a consistent-read copy
  (`ConstructCR`) or under the page lock (`XidVisibleToSnapshot`): horizon and
  cache, slot, durability of the commit, wait for the end, again.
* `wal` holds the records that are not on disk; `disk` is what redo would make of
  the pages and the log. A page is written only when its log is. A crash drops
  `wal`, and `Restart` is redo, `Restore`, its recycling and the decision to roll
  the last transaction back, which then runs beside new readers.

Runs:

* `txnslots_life` - two instances in one run (`instance` is chosen at first and
  stays). "rows": a reader and a ring of one slot, three transactions, one crash,
  so that a slot is recycled and used again while the reader works. "ring": two
  pages of two slots, five transactions (one more than a lap), two crashes, no
  reader; it is about `Restore`. Two records may be unflushed: enough to lose one
  change of each of two pages. Every verdict "visible" is about a transaction that
  committed durably below the snapshot; "invisible" is never contradicted by a
  later commit; a restart finds the ring as it was; no unfinished transaction is
  left alone; what the cache concludes about older transactions is true.
* `txnslots_cr` (violation) - see Findings.

There is no deadlock check in these two: the behaviours end at the bounds.

Things the model shows that break no property:

* A recycle record that ends at a page boundary has slot 0 as its end, and its redo
  freezes nothing. `Restore` tolerates it: it starts from an earlier id and
  recycles again.
* A commit that cannot draw its CSN returns as if it had committed and leaves the
  slot `PENDING_COMMIT` (`DrawCommitCsnFails`). The properties leave such
  transactions out; the hazard list names the line.
* A strong lock with `dontWait` still waits for lazy locks.
* `EnableLazyLockOnAllThreads` runs before `UnlockInMainLockTable`; harmless, since
  a lazy lock taken in between is only recorded while the strong one is on its way
  out.

## Proofs

All are checked by `tlapm` with the SMT, Zenon and LS4 backends.

`LWLockProofs` - for any finite set of threads and any choice of entry points:

* `StateWordCorrect`: the state word counts exactly the shared holders and attempts
  in flight; the bits agree with the holders.
* `LWLockExcludes`: an exclusive holder is alone.

`MutualExclusion` is not inductive: whether an attempt may have the lock is read
off the word, so one has to know what the word says. `IInv` adds the types,
`ControlInv` (a thread inside a call holds nothing, and the word it compares with
was a free one) and `StateWordCounts`. Each action has a lemma; most rest on
`NeutralStep` (nobody's ownership changes) or on `CountUp`/`CountDown`.

`LWLockProofs` also has, in the same generality, the theorems about the high half of
the word and the wait list:

* `LWLockTypes`: the types, the lists included.
* `DisallowOwned`: `DISALLOW_PREEMPT` is up exactly while the one exclusive waiter
  that raised it has not got the lock.
* `WaitersLinkedOnce`: nobody is linked twice, and whoever is linked is marked as
  waiting and announced by `HAS_WAITERS`.
* `WakeupsReach`: `NoLostWakeup`.

`NoLostWakeup` speaks of states at rest only; the argument is about the others.
`WInv` (module `LWLockInv`) says who will act: while the lock is free, a thread in the
wait list whose attempts have failed (`Refused`) has a `Rescuer`, a thread that is
going to look at the list, or was woken and will try again; while `RELEASE_OK` is
down, somebody taken off the list is going to set it (`Releases`); and a `SHARED` bit
that nobody counts for has a releaser about to clear it (`SharedEnds`). To carry these
through a wakeup one has to know that a list has one owner at a time (`ListLock`),
that a thread on its way out of a list is not in it any more (`Lists`), and what the
locals of a call say about its place (`CallInv`, `NeedInv`). A thread that is outside
or asleep is no rescuer, which is `NoLostWakeup`. `LWLockListProofs` has a lemma
`...Lists` for each action, and what `Keep`, `Head` and `Tail` do to a list without
repetitions (`Kept`, `Popped`, `Pushed`). Two facts enter it as hypotheses,
`LeastLaw` (a set of naturals has a least element) and `CountLaw` (a shared attempt
that has added its unit is counted); `LWLockProofs` proves both before it uses them.

`CsnMgrProofs` - for any sets of threads, any block size of at least two and any
bounds:

* `HorizonSafe`, `HorizonNeverBack`: the horizon never passes a snapshot in use,
  and the panic of `UpdateLocalCsnMin` is unreachable. The inductive invariant
  `HInv` says what a published value means (`ThreadInv`), that the horizon is
  below every thread's snapshots and its published value (`Covers`), and that a
  scan has already covered the threads it has passed (`ScanInv`): what they take
  later is not below the `nextCsn` the scan began with.
* `IssuedOnDisk`, `CsnUnique`: no number is committed twice, restarts included.
  `NInv` relates the numbers drawn, the bound in memory and the one on disk.
* `HorizonImplemented`: `CsnMgr` implements `CsnHorizon`, step by step, from
  `HInv`.

* `CsnTypes`, `WaitersHavePushers`: `m_maxReservedCsnLock` is held exactly across a
  write, and a commit that waits has a thread on its way to push the bound past its
  number. The bound and every number that starts a block are multiples of the
  increment; `PInv` says that the first number of each block that was reached but
  not reserved is in the hands of a thread that has still to push, holds the lock or
  waits for it. The arithmetic (`Division`, `NextBlock`) is for any increment.

`TableLockMgrProofs` - for any sets of threads and tags, any partitioning of the
tags, any modes and any bound on the local counters:

* `LocksCompatible`: nobody holds a lock that conflicts with another thread's, in the
  main table or on the fast path.
* `RecordsAreRight`, `StrongCountIsExact`, `FastPathIsQuiet`: local records, marks and
  fast path agree with the main table.
* `HeadWaitsForAHolder`, `FlagsAreRight`, `QueuesAreRight`, `CountersAreExact`: the
  queues; `GrantsKeepOrder`: `NoOvertaking`, as an action property.

Compatibility alone is far from inductive: a weak lock on the fast path is safe only
because of the mark of a strong one, the mark only because of what each call has
still to take off, and that only because records and table agree at every step of
every call. `IInv` has four layers: the entries (`EntryInv`: counters, queue without
repetition, a blocked head, compatible holders), where each lock of each thread is at
each step, the strong-lock counters, and the quiet fast path. `LockEntryProofs` proves
the first for the operators of an entry once and for all: `EnqueueOK` and
`DequeueOK` say what an enqueue and a dequeue may do to an entry (who is granted, who
is woken, in which order), and `TableLockSteps` uses nothing else about them.
`AdvanceWaitingQueue` is a loop; its count of grants is found with the least-number
principle (`LeastNumber`), which stands in for induction over the queue.

`LazyLockProofs` - for any sets of threads and tags, any partitions:

* `LazyTypes`, `CountsMatch`, `ClosedIsExact`, `WaitFlagIsExact`: the hint words never
  underflow and mean what they should, and waits and flags match.
* `FirstPartitionQuiet`: the two rules of `dstore_resowner.cpp:1168` for partition 0;
  `OnePartitionQuiet`: both rules as they stand when there is one partition.

`IInv` adds to the counts where each strong request is (`Requests`) and what a walk
over the threads has done to those it has passed (`WalkRight`): a thread behind the
walk is already closed, or open, as the walk leaves it. `Quiet` says of a partition
that a request past its wait finds no lazy lock; the step of a wake-up keeps it only
for the first partition visited, which is the place the finding below is about.

Assumptions: `ThreadAssumption`, `OpsAssumption`, `RolesAssumption` (finite
threads, known entry points), `CsnAssumption` (the increment is at least 2, numbers
are naturals), `TagAssumption` and `CallAssumption` (every tag has a partition, calls
ask for lock modes), `OrderAssumption` (a walk meets no thread twice) and
`LazyAssumption` (at least one partition, every tag in one). TLC evaluates them in
the runs.

Only model-checked:

* all liveness: fairness and ENABLED are beyond the prover;
* `NoMutualWait`, which holds for two threads only (the early deadlock check looks at
  one blocked waiter; a third thread's request can be the one that closes a cycle);
* the transaction slots: the visibility properties go through redo and `Restore`,
  folds over the log and the pages, and what such a fold computes needs induction
  over data.

## Findings

* `lwlock_signals`: `LWLockAcquire` swallows futex posts meant for other sleepers,
  while its comment (`dstore_lwlock.cpp:942-945`) says they are put back.
* `lazylock_iterator`: one thread iterator serves all partitions of the wake-up
  scan (`dstore_resowner.cpp:1024`), so the second waiting partition is scanned
  from where the first one ended, and a strong locker passes its wait beside a lazy
  lock. `RemoveInvalidRequests` shares the pattern but has no callers.
* `txnslots_cr`: a reader on a copy of a page that meets the rollback of a restart
  finds no CSN, against the assertion at `dstore_data_page.cpp:1273`.

## Not modelled

Of the modelled parts:

* Light-weight lock: several locks at once (`held_lwlocks`, its limit),
  `LWLockReset`, more than one disowned holder.
* Lock manager: the local-entry map and its memory, `FORCE_HOLD`, `ONLY_WAIT`,
  `UpdateAllWaitersAndHolders`, `RemoveAllRequests`, the recovery-scan flags, thread
  exit; the deadlock detector is `StopWaiting`.
* Lazy locks: `ReleaseLazyLocksAcquiredAfter` (savepoints), several weak modes per
  slot, `LockResourceRecord`.
* CSN: takeover of snapshots (TAC), `flashbackCsnMin` and `backupRestoreCsnMin`,
  `PromoteInitialize`, autonomous transactions, externally set snapshots, standby
  snapshots, `SNAPSHOT_NOW`, repeatable read, a failing abort that is entered again.
* Transaction slots: more than one zone and the switch between zones, undo records
  and their pages, asynchronous commit of autonomous transactions, the failover
  barrier, the broadcast mode of CSNs, failing page reads, savepoints, command ids,
  dirty snapshots, and the eviction of a slot page between two lines of `Commit`.

Other parts, with the reason for each, are in `PROJECT.json`: the write-ahead log
and parallel redo, the buffer pool and page writers (used as an ordered log of
which a prefix is durable, and as pages that may be written at any moment), heap,
B-tree, tablespaces, control file, logical replication, flashback, catalogue and
common code. Heap and B-tree are page algorithms that need models of their own;
the rest is sequential or pure I/O, or has no effect on the state modelled here.
