------------------------------ MODULE LWLockInv ------------------------------
(***************************************************************************)
(* Why no wakeup of a light-weight lock is lost: what a call may be doing, *)
(* who may touch the wait list, and who will wake the threads in it.  With *)
(* IInv of LWLock, WInv is inductive.                                      *)
(***************************************************************************)
EXTENDS LWLock

\* Steps of LWLockWakeup, steps under WAIT_LIST_LOCKED, and the steps of
\* LWLockDequeueSelf that come after the thread has left the wait list.
Waking  == {"wkFlags", "wkStop", "wkPost"}
Listing == {"qPush", "dqFound", "dqLost", "wkFlags"}
Leaving == {"dqFound", "dqLost", "dqReleaseOk", "dqSleep"}

\* The calls that queue, and those that go through LWLockAttemptLock.
Queueing == {"LWLockAcquire", "LWLockAcquireOrWait"}
Attempting == Queueing \cup {"LWLockConditionalAcquire"}

\* What the locals of a thread say about the call it is in.
CallInv(t) ==
    /\ queued[t] => /\ op[t] \in Queueing
                    /\ pc[t] \in {"attempt", "cas", "tryWake", "wkLock", "sleep", "dqLock"}
                                   \cup Waking \cup Leaving
    /\ pc[t] \in {"sleep", "dqLock"} \cup Leaving => queued[t]
    /\ pc[t] \in {"qMark", "qPush"} => ~queued[t] /\ op[t] \in Queueing
    /\ pc[t] \in {"attempt", "cas", "tryWake"} => op[t] \in Attempting \/ mode[t] = None
    /\ pc[t] = "idle" => op[t] = None
    /\ pc[t] \in {"relCas", "relRetry", "relRead"} => op[t] = "LWLockRelease"
    /\ pc[t] \in {"anyCas", "anySub"} => op[t] = "LWLockConditionalAcquireAnyMode"
    /\ pc[t] \in {"cas", "tryWake"} => mode[t] = S
    /\ pc[t] \in {"wkLock"} \cup Waking => op[t] = "LWLockRelease" \/ (op[t] \in Attempting /\ mode[t] = S)
    /\ pc[t] = "relRetry" => old[t].disallow
    /\ waked[t] => op[t] = "LWLockAcquire"
    /\ waiting[t] => queued[t]
    /\ pc[t] \notin Waking => wakeup[t] = <<>>
    /\ pc[t] \in {"wkStop", "wkPost"} => wakeup[t] # <<>>

\* A thread raises DISALLOW_PREEMPT in its sleep and takes it along until it has
\* the lock.
NeedInv(t) ==
    need[t] => /\ op[t] = "LWLockAcquire" /\ mode[t] = X
               /\ \/ pc[t] = "sleep"
                  \/ waked[t] /\ pc[t] \in {"attempt", "qMark", "qPush", "dqLock"} \cup Leaving

Calls == \A t \in Thread : CallInv(t) /\ NeedInv(t)

\* WAIT_LIST_LOCKED is up while one thread works on the wait list.
ListLock ==
    /\ high.listLocked <=> \E t \in Thread : pc[t] \in Listing
    /\ \A t, u \in Thread : pc[t] \in Listing /\ pc[u] \in Listing => t = u

\* A thread that leaves is in no list it could be woken from by surprise, a wakeup
\* that took nobody has seen an empty list, and HAS_WAITERS is up before the push.
Lists ==
    /\ \A t \in Range(waiters) : pc[t] \notin Leaving
    /\ \A u \in Thread :
         /\ \A t \in Range(Taken(u)) : pc[t] # "dqFound"
         /\ pc[u] = "wkFlags" => \A t \in Range(wakeup[u]) : pc[t] \notin Leaving
         /\ pc[u] = "wkFlags" /\ wakeup[u] = <<>> => waiters = <<>>
         /\ pc[u] = "qPush" => high.hasWaiters

\* A thread that was taken off the wait list and has not yet set RELEASE_OK again.
Summoned(t) ==
    /\ queued[t] /\ op[t] = "LWLockAcquire"
    /\ t \notin Range(waiters)
    /\ pc[t] \notin {"dqFound", "dqSleep"}

\* A thread that was woken and tries again, past DISALLOW_PREEMPT.
Retrying(t) == waked[t] /\ pc[t] \in {"attempt", "cas", "qMark", "qPush"}

\* A thread in the wait list whose attempts have failed.
Refused(t) == t \in Range(waiters) /\ pc[t] \in {"sleep", "tryWake", "wkLock"} \cup Waking

\* A thread that will wake the list, or will have the lock and release it.
Rescuer(t) == pc[t] \in {"relRead", "tryWake", "wkLock"} \/ Summoned(t) \/ Retrying(t)

\* RELEASE_OK is down only while somebody is on the way to set it.
Releases == ~high.releaseOk => \E t \in Thread : Summoned(t)

\* A SHARED bit that nobody counts for is about to be cleared.
SharedEnds ==
    low.shared /\ low.cnt = 0 =>
        \E t \in Thread : \/ pc[t] = "relCas" /\ (old[t] = low \/ low.disallow)
                          \/ pc[t] = "relRetry" /\ old[t] = low

\* While nobody holds the lock, a refused thread in the wait list has a rescuer.
Wakes == ~Locked(low) /\ (\E t \in Thread : Refused(t)) => \E t \in Thread : Rescuer(t)

\* Together they are inductive.
WInv == ListTypeOK /\ Calls /\ ListLock /\ LinkedOnce /\ Lists /\ DisallowHasOneOwner
          /\ Releases /\ SharedEnds /\ Wakes
==============================================================================
