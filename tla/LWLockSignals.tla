---------------------------- MODULE LWLockSignals ----------------------------
(***************************************************************************)
(* The futex of a thread is shared by the light-weight locks, the lock     *)
(* manager and every other sleeper of the thread.  This module adds to     *)
(* LWLock a history of the posts that were not meant for the light-weight  *)
(* lock, to ask what becomes of them.                                      *)
(***************************************************************************)
EXTENDS LWLock

VARIABLE signal     \* the thread was posted for another reason and has not seen it yet

SignalInit == Init /\ signal = [t \in Thread |-> FALSE]

SignalNext ==
    \/ /\ Next
       /\ \A t \in Thread : ~UnrelatedPost(t)
       /\ UNCHANGED signal
    \/ \E t \in Thread : UnrelatedPost(t) /\ signal' = [signal EXCEPT ![t] = TRUE]

SignalSpec == SignalInit /\ [][SignalNext]_<<vars, signal>>

\* What the comment in LWLockAcquire promises: a post received while the thread
\* waited for the lock is there again once the call has returned (the late post of a wakeup that is
\* still running is not counted against it).
SignalsKept ==
    (\A t \in Thread : pc[t] = "idle") => \A t \in Thread : signal[t] => posted[t]

=============================================================================
