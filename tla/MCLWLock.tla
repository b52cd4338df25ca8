------------------------------ MODULE MCLWLock ------------------------------
(* LWLock for TLC: symmetric threads. *)
EXTENDS LWLock, TLC

Symmetry == Permutations(Thread)

\* How far the search goes with three threads: the other calls and a disowned
\* lock while at least one thread is outside and has no post to take, plain
\* acquires without a limit.
Scope ==
    \/ held[Nobody] = None /\ \A t \in Thread : op[t] \in {None, "LWLockAcquire", "LWLockRelease"}
    \/ \E t \in Thread : pc[t] = "idle" /\ held[t] = None /\ ~posted[t]
=============================================================================
