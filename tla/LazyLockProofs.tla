--------------------------- MODULE LazyLockProofs ---------------------------
(***************************************************************************)
(* Proofs about LazyLock, for any threads, tags, partitions and failures:  *)
(* the hint words count what is in the slots, a partition is closed        *)
(* exactly where a strong request wants it closed, the wait flag tells who *)
(* waits, and in the first partition that a wake-up visits no lazy lock    *)
(* outlives the wait of a strong request.                                  *)
(***************************************************************************)
EXTENDS LazyLockSteps, WellFoundedInduction, FiniteSetTheorems

-----------------------------------------------------------------------------
(* Quiet.                                                                  *)

(* A walk passes threads only. *)
LEMMA Passed ==
  ASSUME Shape, NEW t \in Thread, Walking(t), NEW i \in 1..call[t].at
  PROVE  i \in DOMAIN Order /\ Order[i] \in Thread
  <1>1. call[t].at \in Nat /\ call[t].at <= Len(Order)
    BY DEF Shape, CallShape, CallType, FieldsShape, Walking
  <1>2. DOMAIN Order = 1..Len(Order) /\ Len(Order) \in Nat BY SMTT(20), OrderAssumption
  <1>3. i \in DOMAIN Order BY ONLY <1>1, <1>2, i \in 1..call[t].at
  <1>4. QED BY SMTT(20), <1>3 DEF Thread

(* A step of t that does not disable, and adds no lazy lock where there is none. *)
LEMMA QuietKeep ==
  ASSUME NEW p \in Part, Shape, Quiet(p), NEW t \in Thread, OwnCall(t),
         call[t].pc # "disabling", call'[t].pc # "disabling",
         request'[p] # {} => request[p] # {}, ~ waitFlag'[p] => ~ waitFlag[p],
         \A u \in Thread : cnt[u][p] = 0 => cnt'[u][p] = 0
  PROVE  Quiet(p)'
  <1>1. \A u \in Thread : /\ call'[u].pc = "disabling" <=> call[u].pc = "disabling"
                          /\ call[u].pc = "disabling" => call'[u] = call[u]
    BY SMTT(20) DEF OwnCall
  <1>2. \A u \in Thread : call'[u].pc = "disabling" /\ CallPart(u)' = p <=> call[u].pc = "disabling" /\ CallPart(u) = p
    BY <1>1 DEF CallPart
  <1>3. ASSUME request'[p] # {}, ~ waitFlag'[p],
               ~ (\E u \in Thread : call'[u].pc = "disabling" /\ CallPart(u)' = p)
        PROVE  \A u \in Thread : cnt'[u][p] = 0
    <2>1. ~ (\E u \in Thread : call[u].pc = "disabling" /\ CallPart(u) = p) BY <1>2, <1>3
    <2>2. request[p] # {} /\ ~ waitFlag[p] BY Zenon, <1>3
    <2>3. \A u \in Thread : cnt[u][p] = 0 BY Zenon, <2>1, <2>2 DEF Quiet
    <2>4. QED BY <2>3
  <1>4. ASSUME NEW w \in Thread, call'[w].pc = "disabling", CallPart(w)' = p, ~ call'[w].found,
               NEW i \in 1..call'[w].at
        PROVE  cnt'[Order[i]][p] = 0
    <2>1. call[w].pc = "disabling" /\ CallPart(w) = p /\ call'[w] = call[w] BY Zenon, <1>1, <1>2, <1>4
    <2>2. cnt[Order[i]][p] = 0 BY Zenon, <1>4, <2>1 DEF Quiet
    <2>3. Order[i] \in Thread BY <1>4, <2>1, Passed DEF Walking
    <2>4. QED BY Zenon, <2>2, <2>3
  <1>5. QED BY Zenon, <1>3, <1>4 DEF Quiet

\* Every step keeps the first partition quiet.
LEMMA QuietStep ==
  /\ Shape /\ Shape' /\ Counts /\ Counts' /\ Requests /\ Requests' /\ Flags /\ Quiet(0)
  /\ WalkRight /\ [Next]_vars
  => Quiet(0)'
  (* A step of t that does not disable and counts no lazy lock. *)
  <1>NoWalk. ASSUME Quiet(0), NEW t \in Thread, OwnCall(t), Shape, Counts, Counts',
                    call[t].pc # "disabling", call'[t].pc # "disabling", UNCHANGED <<request, waitFlag>>,
                    \A u \in Thread, p \in Part : cnt'[u][p] <= cnt[u][p]
             PROVE  Quiet(0)'
    <2> USE <1>NoWalk
    <2>1. 0 \in Part BY LazyAssumption DEF Part
    <2>2. \A u \in Thread : cnt[u][0] = 0 => cnt'[u][0] = 0
      <3> SUFFICES ASSUME NEW u \in Thread, cnt[u][0] = 0 PROVE cnt'[u][0] = 0
        BY SMTT(20)
      <3>1. cnt'[u][0] \in Nat /\ cnt'[u][0] <= cnt[u][0] BY <2>1 DEF Counts
      <3>2. QED BY <3>1
    <2>3. request'[0] = request[0] /\ waitFlag'[0] = waitFlag[0] BY SMTT(20)
    <2>4. QED BY <2>1, <2>2, <2>3, QuietKeep
  (* A count that falls. *)
  <1>Less. ASSUME Counts, NEW t \in Thread, NEW p \in Part, NEW n \in Nat, cnt' = [cnt EXCEPT ![t][p] = @ - n]
           PROVE  \A u \in Thread, q \in Part : cnt'[u][q] <= cnt[u][q]
    <2> USE <1>Less
    <2> SUFFICES ASSUME NEW u \in Thread, NEW q \in Part PROVE cnt'[u][q] <= cnt[u][q]
      OBVIOUS
    <2>1. cnt[u][q] \in Nat /\ cnt'[u][q] = IF u = t /\ q = p THEN cnt[u][q] - n ELSE cnt[u][q]
      BY SMTT(20) DEF Counts
    <2>2. QED BY <2>1
  <1> SUFFICES ASSUME Shape, Shape', Counts, Counts', Requests, Requests', Flags, Quiet(0),
                      WalkRight, [Next]_vars
               PROVE  Quiet(0)'
    OBVIOUS
  <1>1. CASE UNCHANGED vars
    <2>1. UNCHANGED <<request, waitFlag, cnt, call>> BY SMTT(20), <1>1 DEF vars
    <2>2. QED BY <2>1 DEF Quiet, CallPart
  <1>2. \A t \in Thread :
          /\ call[t] \in CallType /\ FieldsShape(call[t].pc, call[t].tag, call[t].next, call[t].at)
          /\ Listed(t)
    BY DEF Shape, CallShape, Requests
  <1>0. 0 \in Part /\ \A u \in Thread, p \in Part : cnt[u][p] \in Nat /\ cnt[u][p] <= cnt[u][p]
    BY LazyAssumption DEF Part, Counts
  <1>3. ASSUME NEW t \in Thread, WeakLock(t) PROVE Quiet(0)'
    <2>1. UNCHANGED <<request, waitFlag>> BY <1>3 DEF WeakLock, listVars
    <2>2. FieldsShape(call[t].pc, call[t].tag, call[t].next, call[t].at) BY <1>2
    <2>3. OwnCall(t) /\ call[t].pc # "disabling" /\ call'[t].pc # "disabling"
      BY Zenon, <1>3, <2>2, WeakLockEffect
         DEF Becomes, To, Pushes, GivesUp, Starts, Idles, Continues, FieldsShape
    <2>4. cnt' = cnt BY <1>3 DEF WeakLock, hintVars
    <2>5. QED BY <1>0, <2>1, <2>3, <2>4, <1>NoWalk
  <1>4. ASSUME NEW t \in Thread, LazyWaitFails(t) PROVE Quiet(0)'
    <2>1. UNCHANGED <<request, waitFlag>> BY <1>4 DEF LazyWaitFails, listVars
    <2>2. FieldsShape(call[t].pc, call[t].tag, call[t].next, call[t].at) BY <1>2
    <2>3. OwnCall(t) /\ call[t].pc # "disabling" /\ call'[t].pc # "disabling"
      BY Zenon, <1>4, <2>2, LazyWaitFailsEffect
         DEF Becomes, To, Pushes, GivesUp, Starts, Idles, Continues, FieldsShape
    <2>4. cnt' = cnt BY <1>4 DEF LazyWaitFails, hintVars
    <2>5. QED BY <1>0, <2>1, <2>3, <2>4, <1>NoWalk
  <1>5. ASSUME NEW t \in Thread, LazyWaitEnds(t) PROVE Quiet(0)'
    <2>1. UNCHANGED <<request, waitFlag>> BY Zenon, <1>5 DEF LazyWaitEnds, listVars
    <2>2. FieldsShape(call[t].pc, call[t].tag, call[t].next, call[t].at) BY <1>2
    <2>3. OwnCall(t) /\ call[t].pc # "disabling" /\ call'[t].pc # "disabling"
      BY <1>5, <2>2, LazyWaitEndsEffect
         DEF Becomes, To, Pushes, GivesUp, Starts, Idles, Continues, FieldsShape
    <2>4. cnt' = cnt BY <1>5 DEF LazyWaitEnds, hintVars
    <2>5. QED BY <1>0, <2>1, <2>3, <2>4, <1>NoWalk
  <1>6. ASSUME NEW t \in Thread, BeginLazyWait(t) PROVE Quiet(0)'
    <2>1. UNCHANGED <<request, waitFlag>> BY SMTT(20), <1>6 DEF BeginLazyWait, listVars
    <2>2. FieldsShape(call[t].pc, call[t].tag, call[t].next, call[t].at) BY <1>2
    <2>3. OwnCall(t) /\ call[t].pc # "disabling" /\ call'[t].pc # "disabling"
      BY <1>6, <2>2, BeginLazyWaitEffect
         DEF Becomes, To, Pushes, GivesUp, Starts, Idles, Continues, FieldsShape
    <2>4. cnt' = cnt BY <1>6 DEF BeginLazyWait, hintVars
    <2>5. QED BY <1>0, <2>1, <2>3, <2>4, <1>NoWalk
  <1>7. ASSUME NEW t \in Thread, PollWhileWaiting(t) PROVE Quiet(0)'
    <2>1. UNCHANGED <<request, waitFlag>> BY Zenon, <1>7 DEF PollWhileWaiting, listVars
    <2>2. FieldsShape(call[t].pc, call[t].tag, call[t].next, call[t].at) BY <1>2
    <2>3. OwnCall(t) /\ call[t].pc # "disabling" /\ call'[t].pc # "disabling"
      BY Zenon, <1>7, <2>2, PollWhileWaitingEffect
         DEF Becomes, To, Pushes, GivesUp, Starts, Idles, Continues, FieldsShape
    <2>4. cnt' = cnt BY Zenon, <1>7 DEF PollWhileWaiting, hintVars
    <2>5. QED BY <1>0, <2>1, <2>3, <2>4, <1>NoWalk
  <1>8. ASSUME NEW t \in Thread, RemoveSortArray(t) PROVE Quiet(0)'
    <2>1. UNCHANGED <<request, waitFlag>> BY <1>8 DEF RemoveSortArray, listVars
    <2>2. FieldsShape(call[t].pc, call[t].tag, call[t].next, call[t].at) BY <1>2
    <2>3. OwnCall(t) /\ call[t].pc # "disabling" /\ call'[t].pc # "disabling"
      BY Zenon, <1>8, <2>2, RemoveSortArrayEffect
         DEF Becomes, To, Pushes, GivesUp, Starts, Idles, Continues, FieldsShape
    <2>4. cnt' = cnt BY <1>8 DEF RemoveSortArray, hintVars
    <2>5. QED BY <1>0, <2>1, <2>3, <2>4, <1>NoWalk
  <1>9. ASSUME NEW t \in Thread, StrongLock(t) PROVE Quiet(0)'
    <2>1. UNCHANGED <<request, waitFlag>> BY <1>9 DEF StrongLock, listVars
    <2>2. FieldsShape(call[t].pc, call[t].tag, call[t].next, call[t].at) BY <1>2
    <2>3. OwnCall(t) /\ call[t].pc # "disabling" /\ call'[t].pc # "disabling"
      BY Zenon, <1>9, <2>2, StrongLockEffect
         DEF Becomes, To, Pushes, GivesUp, Starts, Idles, Continues, FieldsShape
    <2>4. cnt' = cnt BY <1>9 DEF StrongLock, hintVars
    <2>5. QED BY <1>0, <2>1, <2>3, <2>4, <1>NoWalk
  <1>10. ASSUME NEW t \in Thread, UnlockInLockManager(t) PROVE Quiet(0)'
    <2>1. UNCHANGED <<request, waitFlag>> BY <1>10 DEF UnlockInLockManager, listVars
    <2>2. FieldsShape(call[t].pc, call[t].tag, call[t].next, call[t].at) BY <1>2
    <2>3. OwnCall(t) /\ call[t].pc # "disabling" /\ call'[t].pc # "disabling"
      BY Zenon, <1>10, <2>2, UnlockInLockManagerEffect
         DEF Becomes, To, Pushes, GivesUp, Starts, Idles, Continues, FieldsShape
    <2>4. cnt' = cnt BY <1>10 DEF UnlockInLockManager, hintVars
    <2>5. QED BY <1>0, <2>1, <2>3, <2>4, <1>NoWalk
  <1>11. ASSUME NEW t \in Thread, ReleaseAllLocks(t) PROVE Quiet(0)'
    <2>1. UNCHANGED <<request, waitFlag>> BY Zenon, <1>11 DEF ReleaseAllLocks, listVars
    <2>2. FieldsShape(call[t].pc, call[t].tag, call[t].next, call[t].at) BY <1>2
    <2>3. OwnCall(t) /\ call[t].pc # "disabling" /\ call'[t].pc # "disabling"
      BY Zenon, <1>11, <2>2, ReleaseAllLocksEffect
         DEF Becomes, To, Pushes, GivesUp, Starts, Idles, Continues, FieldsShape
    <2>4. cnt' = cnt BY Zenon, <1>11 DEF ReleaseAllLocks, hintVars
    <2>5. QED BY <1>0, <2>1, <2>3, <2>4, <1>NoWalk
  <1>12. ASSUME NEW t \in Thread, ActuallyAcquireLazyLocks(t) PROVE Quiet(0)'
    <2>1. UNCHANGED <<request, waitFlag>> BY Zenon, <1>12 DEF ActuallyAcquireLazyLocks, listVars
    <2>2. FieldsShape(call[t].pc, call[t].tag, call[t].next, call[t].at) BY <1>2
    <2>3. OwnCall(t) /\ call[t].pc # "disabling" /\ call'[t].pc # "disabling"
      BY Zenon, <1>12, <2>2, ActuallyAcquireLazyLocksEffect
         DEF Becomes, To, Pushes, GivesUp, Starts, Idles, Continues, FieldsShape
    <2>4. cnt' = cnt BY Zenon, <1>12 DEF ActuallyAcquireLazyLocks, hintVars
    <2>5. QED BY <1>0, <2>1, <2>3, <2>4, <1>NoWalk
  <1>13. ASSUME NEW t \in Thread, EnableNextThread(t) PROVE Quiet(0)'
    <2>1. UNCHANGED <<request, waitFlag>> BY <1>13 DEF EnableNextThread, listVars
    <2>2. FieldsShape(call[t].pc, call[t].tag, call[t].next, call[t].at) BY <1>2
    <2>3. OwnCall(t) /\ call[t].pc # "disabling" /\ call'[t].pc # "disabling"
      BY Zenon, <1>13, <2>2, EnableNextThreadEffect
         DEF Becomes, To, Pushes, GivesUp, Starts, Idles, Continues, FieldsShape
    <2>4. cnt' = cnt BY <1>13 DEF EnableNextThread, hintVars
    <2>5. QED BY <1>0, <2>1, <2>3, <2>4, <1>NoWalk
  <1>14. ASSUME NEW t \in Thread, NEW tag \in Tag, LockStrong(t, tag) PROVE Quiet(0)'
    <2>1. UNCHANGED <<request, waitFlag>> BY <1>14 DEF LockStrong, listVars
    <2>2. FieldsShape(call[t].pc, call[t].tag, call[t].next, call[t].at) BY <1>2
    <2>3. OwnCall(t) /\ call[t].pc # "disabling" /\ call'[t].pc # "disabling"
      BY Zenon, <1>14, <2>2, LockStrongEffect
         DEF Becomes, To, Pushes, GivesUp, Starts, Idles, Continues, FieldsShape
    <2>4. cnt' = cnt BY SMTT(20), <1>14 DEF LockStrong, hintVars
    <2>5. QED BY Zenon, <1>0, <2>1, <2>3, <2>4, <1>NoWalk
  <1>15. ASSUME NEW t \in Thread, NEW tag \in Tag, UnlockStrong(t, tag) PROVE Quiet(0)'
    <2>1. UNCHANGED <<request, waitFlag>> BY <1>15 DEF UnlockStrong, listVars
    <2>2. FieldsShape(call[t].pc, call[t].tag, call[t].next, call[t].at) BY <1>2
    <2>3. OwnCall(t) /\ call[t].pc # "disabling" /\ call'[t].pc # "disabling"
      BY Zenon, <1>15, <2>2, UnlockStrongEffect
         DEF Becomes, To, Pushes, GivesUp, Starts, Idles, Continues, FieldsShape
    <2>4. cnt' = cnt BY <1>15 DEF UnlockStrong, hintVars
    <2>5. QED BY Zenon, <1>0, <2>1, <2>3, <2>4, <1>NoWalk
  <1>16. ASSUME NEW t \in Thread, LazyLockRollback(t) PROVE Quiet(0)'
    <2>1. UNCHANGED <<request, waitFlag>> BY <1>16 DEF LazyLockRollback, listVars
    <2>2. FieldsShape(call[t].pc, call[t].tag, call[t].next, call[t].at) BY <1>2
    <2>3. OwnCall(t) /\ call[t].pc # "disabling" /\ call'[t].pc # "disabling"
      BY Zenon, <1>16, <2>2, LazyLockRollbackEffect
         DEF Becomes, To, Pushes, GivesUp, Starts, Idles, Continues, FieldsShape
    <2>4. \A u \in Thread, p \in Part : cnt'[u][p] <= cnt[u][p]
      <3>1. CallPart(t) \in Part
        BY Zenon, <1>16, <1>2, LazyLockRollbackEffect, LazyAssumption DEF FieldsShape, WithTag, CallPart
      <3>2. cnt' = [cnt EXCEPT ![t][CallPart(t)] = @ - 1] BY <1>16 DEF LazyLockRollback, RolledBack
      <3>3. QED BY <1>0, <3>1, <3>2, <1>Less
    <2>5. QED BY Zenon, <2>1, <2>3, <2>4, <1>NoWalk
  <1>17. ASSUME NEW t \in Thread, DecreaseLazyLockCnt(t) PROVE Quiet(0)'
    <2>1. UNCHANGED <<request, waitFlag>> BY <1>17 DEF DecreaseLazyLockCnt, listVars
    <2>2. FieldsShape(call[t].pc, call[t].tag, call[t].next, call[t].at) BY <1>2
    <2>3. OwnCall(t) /\ call[t].pc # "disabling" /\ call'[t].pc # "disabling"
      BY <1>17, <2>2, DecreaseLazyLockCntEffect
         DEF Becomes, To, Pushes, GivesUp, Starts, Idles, Continues, FieldsShape
    <2>4. \A u \in Thread, p \in Part : cnt'[u][p] <= cnt[u][p]
      <3>1. call[t].at \in Part /\ call[t].n \in Nat
        BY Zenon, <1>17, <1>2, DecreaseLazyLockCntEffect DEF FieldsShape, CallType
      <3>2. cnt' = [cnt EXCEPT ![t][call[t].at] = @ - call[t].n] BY SMTT(20), <1>17 DEF DecreaseLazyLockCnt
      <3>3. QED BY Zenon, <3>1, <3>2, <1>Less
    <2>5. QED BY <2>1, <2>3, <2>4, <1>NoWalk
  <1>18. ASSUME NEW t \in Thread, ReleaseAllLazyLocks(t) PROVE Quiet(0)'
    <2>1. UNCHANGED <<request, waitFlag>> BY <1>18 DEF ReleaseAllLazyLocks, listVars
    <2>2. FieldsShape(call[t].pc, call[t].tag, call[t].next, call[t].at) BY <1>2
    <2>3. OwnCall(t) /\ call[t].pc # "disabling" /\ call'[t].pc # "disabling"
      BY Zenon, <1>18, <2>2, ReleaseAllLazyLocksEffect
         DEF Becomes, To, Pushes, GivesUp, Starts, Idles, Continues, FieldsShape
    <2>4. \A u \in Thread, p \in Part : cnt'[u][p] <= cnt[u][p]
      <3>1. CASE cnt' = cnt BY <1>0, <3>1
      <3>2. ASSUME NEW p \in Part, cnt' = [cnt EXCEPT ![t][p] = @ - slot[t][p].cnt]
            PROVE  \A u \in Thread, q \in Part : cnt'[u][q] <= cnt[u][q]
        BY Zenon, <3>2, SlotCount, <1>Less
      <3>3. QED BY SMTT(20), <1>18, <3>1, <3>2, ReleaseAllLazyLocksEffect
    <2>5. QED BY <2>1, <2>3, <2>4, <1>NoWalk
  <1>19. ASSUME NEW t \in Thread, NEW tag \in Tag, UnlockWeak(t, tag) PROVE Quiet(0)'
    <2>1. UNCHANGED <<request, waitFlag>> BY <1>19 DEF UnlockWeak, listVars
    <2>2. FieldsShape(call[t].pc, call[t].tag, call[t].next, call[t].at) BY <1>2
    <2>3. OwnCall(t) /\ call[t].pc # "disabling" /\ call'[t].pc # "disabling"
      BY Zenon, <1>19, <2>2, UnlockWeakEffect
         DEF Becomes, To, Pushes, GivesUp, Starts, Idles, Continues, FieldsShape
    <2>4. \A u \in Thread, p \in Part : cnt'[u][p] <= cnt[u][p]
      <3>1. CASE cnt' = cnt BY <1>0, <3>1
      <3>2. CASE cnt' = [cnt EXCEPT ![t][PartOf[tag]] = @ - 1]
        <4>1. PartOf[tag] \in Part BY LazyAssumption
        <4>2. QED BY Zenon, <3>2, <4>1, <1>Less
      <3>3. cnt' = cnt \/ cnt' = [cnt EXCEPT ![t][PartOf[tag]] = @ - 1]
        BY ONLY Zenon, <1>19 DEF UnlockWeak
      <3>4. QED BY Zenon, <3>1, <3>2, <3>3
    <2>5. QED BY SMTT(20), <2>1, <2>3, <2>4, <1>NoWalk
  <1>20. ASSUME NEW t \in Thread, InsertSortArray(t) PROVE Quiet(0)'
    <2>1. UNCHANGED <<request, waitFlag>> BY SMTT(20), <1>20 DEF InsertSortArray, listVars
    <2>2. FieldsShape(call[t].pc, call[t].tag, call[t].next, call[t].at) BY <1>2
    <2>3. OwnCall(t) /\ call[t].pc # "disabling" /\ call'[t].pc # "disabling"
      <3>1. call[t].pc = "idle" BY Zenon, <1>20 DEF InsertSortArray, Counts, Away
      <3>2. QED BY <1>20, <3>1, InsertSortArrayEffect DEF Becomes, To
    <2>4. \A u \in Thread, p \in Part : cnt'[u][p] <= cnt[u][p]
      <3>1. cnt' = [cnt EXCEPT ![t] = [p \in Part |-> 0]] BY Zenon, <1>20 DEF InsertSortArray
      <3>2. \A u \in Thread : cnt'[u] = IF u = t THEN [p \in Part |-> 0] ELSE cnt[u]
        BY SMTT(20), <3>1 DEF Counts
      <3>3. QED BY <1>0, <3>2
    <2>5. QED BY <2>1, <2>3, <2>4, <1>NoWalk
  <1>21. ASSUME NEW t \in Thread, EnableLazyLock(t) PROVE Quiet(0)'
    <2>1. call[t].tag \in Tag /\ OwnCall(t) /\ call[t].pc # "disabling" /\ call'[t].pc # "disabling"
      BY Zenon, <1>21, <1>2, EnableLazyLockEffect
         DEF FieldsShape, WithTag, Continues, Idles, Starts, To, Becomes
    <2>2. request' = [request EXCEPT ![CallPart(t)] = @ \ {Request(t)}] BY Zenon, <1>21, EnableLazyLockEffect
    <2>3. request'[0] # {} => request[0] # {} BY Zenon, <1>0, <2>1, <2>2, DropRequest
    <2>4. cnt' = cnt /\ waitFlag' = waitFlag BY Zenon, <1>21 DEF EnableLazyLock, hintVars
    <2>5. QED BY <1>0, <2>1, <2>3, <2>4, QuietKeep
  <1>22. ASSUME NEW t \in Thread, DisableLazyLock(t) PROVE Quiet(0)'
    <2>1. call[t].pc = "disable" /\ hintLock = {} /\ call[t].tag \in Tag /\ call[t].at = 0
      BY Zenon, <1>22, <1>2, DisableLazyLockEffect DEF FieldsShape, WithTag
    <2>2. cnt' = cnt /\ waitFlag' = waitFlag BY <1>22 DEF DisableLazyLock, hintVars
    <2>3. CASE GivesUp(t) /\ UNCHANGED <<request, hintLock>>
      BY Zenon, <1>0, <2>1, <2>2, <2>3, QuietKeep DEF GivesUp, Becomes
    <2>4. ASSUME request' = [request EXCEPT ![CallPart(t)] = @ \cup {Request(t)}],
                 request[CallPart(t)] # {}, To(t, "lazywait") \/ To(t, "strong")
          PROVE  Quiet(0)'
      <3>1. request'[0] # {} => request[0] # {} BY Zenon, <1>0, <2>1, <2>4, AddRequest
      <3>2. OwnCall(t) /\ call'[t].pc # "disabling" BY <2>4 DEF To, Becomes
      <3>3. QED BY SMTT(20), <1>0, <2>1, <2>2, <3>1, <3>2, QuietKeep
    <2>5. ASSUME request' = [request EXCEPT ![CallPart(t)] = @ \cup {Request(t)}], To(t, "disabling")
          PROVE  Quiet(0)'
      <3>1. \A u \in Thread : call[u].pc # "disabling" BY <2>1 DEF Shape, CallShape, Walking
      <3>2. /\ \A u \in Thread \ {t} : call'[u] = call[u]
            /\ call'[t].pc = "disabling" /\ call'[t].tag = call[t].tag /\ call'[t].at = 0
        BY Zenon, <2>1, <2>5 DEF To, Becomes, OwnCall
      <3>3. CASE CallPart(t) = 0
        <4>1. call'[t].pc = "disabling" /\ CallPart(t)' = 0 BY <3>2, <3>3 DEF CallPart
        <4>2. \A w \in Thread : call'[w].pc = "disabling" => 1..call'[w].at = {} BY <3>1, <3>2
        <4>3. QED BY <4>1, <4>2 DEF Quiet
      <3>4. CASE CallPart(t) # 0
        <4>1. request'[0] = request[0] BY Zenon, <1>0, <2>1, <2>5, <3>4, AddRequest
        <4>2. \A u \in Thread : ~ (call'[u].pc = "disabling" /\ CallPart(u)' = 0)
          BY <3>1, <3>2, <3>4 DEF CallPart
        <4>3. request[0] # {} /\ ~ waitFlag[0] => \A u \in Thread : cnt[u][0] = 0
          BY Zenon, <3>1 DEF Quiet
        <4>4. QED BY Zenon, <2>2, <4>1, <4>2, <4>3 DEF Quiet
      <3>5. QED BY SMTT(20), <3>3, <3>4
    <2>6. QED BY Zenon, <1>22, <2>3, <2>4, <2>5, DisableLazyLockEffect
  <1>23. ASSUME NEW t \in Thread, DisableNextThread(t) PROVE Quiet(0)'
    <2>1. call[t].pc = "disabling" /\ call[t].tag \in Tag /\ CallPart(t) \in Part /\ call[t].at \in Nat
      BY Zenon, <1>23, <1>2, DisableNextThreadEffect, LazyAssumption DEF FieldsShape, WithTag, CallPart, CallType
    <2>2. \A u \in Thread \ {t} : call[u].pc # "disabling"
      <3>1. \A u \in Thread : Walking(u) <=> hintLock = {u} BY DEF Shape, CallShape
      <3>2. Walking(t) BY SMTT(20), <2>1 DEF Walking
      <3>3. QED BY <3>1, <3>2 DEF Walking
    <2>3. cnt' = cnt /\ request' = request BY <1>23 DEF DisableNextThread
    <2>4. DOMAIN Order = 1..Len(Order) /\ Len(Order) \in Nat BY OrderAssumption
    <2>5. CASE /\ call[t].at < Len(Order)
               /\ Becomes(t, "disabling", call[t].tag, call[t].next, call[t].at + 1, call[t].n,
                          NeedWait(t, Order[call[t].at + 1]))
               /\ UNCHANGED <<waitFlag, hintLock>>
      <3>1. /\ \A u \in Thread \ {t} : call'[u] = call[u]
            /\ call'[t].pc = "disabling" /\ call'[t].tag = call[t].tag /\ call'[t].at = call[t].at + 1
            /\ CallPart(t)' = CallPart(t)
        BY Zenon, <2>5 DEF Becomes, OwnCall, CallPart
      <3>2. call'[t].found <=> call[t].found \/ cnt[Order[call[t].at + 1]][CallPart(t)] > 0
        BY Zenon, <2>5 DEF Becomes, NeedWait
      <3>3. \A u \in Thread : call'[u].pc = "disabling" /\ CallPart(u)' = 0
                              <=> call[u].pc = "disabling" /\ CallPart(u) = 0
        BY Zenon, <2>1, <3>1 DEF CallPart
      <3>4. ASSUME CallPart(t) = 0, ~ call'[t].found, NEW i \in 1..call'[t].at
            PROVE  cnt[Order[i]][0] = 0
        <4>1. CASE i = call[t].at + 1
          <5>1. i \in DOMAIN Order
            <6>1. call[t].at \in Nat /\ call[t].at < Len(Order) BY <2>1, <2>5
            <6>2. QED BY ONLY SMTT(20), <2>4, <4>1, <6>1
          <5>2. cnt[Order[i]][0] \in Nat BY SMTT(20), <1>0, <5>1 DEF Thread
          <5>3. ~ (cnt[Order[i]][0] > 0) BY <3>2, <3>4, <4>1
          <5>4. QED BY <5>2, <5>3
        <4>2. CASE i # call[t].at + 1
          <5>1. i \in 1..call[t].at BY <2>1, <3>1, <4>2
          <5>2. ~ call[t].found BY Zenon, <3>2, <3>4
          <5>3. QED BY Zenon, <2>1, <3>4, <5>1, <5>2 DEF Quiet
        <4>3. QED BY <4>1, <4>2
      <3>5. \A u \in Thread : call'[u].pc = "disabling" => u = t BY <2>2, <3>1
      <3>6. \A u \in Thread : call'[u].pc = "disabling" /\ CallPart(u)' = 0 /\ ~ call'[u].found
              => \A i \in 1..call'[u].at : cnt[Order[i]][0] = 0
        BY <3>1, <3>4, <3>5
      <3>7. request[0] # {} /\ ~ waitFlag[0]
            /\ ~ (\E u \in Thread : call'[u].pc = "disabling" /\ CallPart(u)' = 0)
            => \A u \in Thread : cnt[u][0] = 0
        BY Zenon, <3>3 DEF Quiet
      <3>8. waitFlag' = waitFlag BY <2>5
      <3>9. QED BY Zenon, <2>3, <3>6, <3>7, <3>8 DEF Quiet
    <2>6. CASE /\ call[t].at = Len(Order)
               /\ waitFlag' = [waitFlag EXCEPT ![CallPart(t)] = call[t].found]
               /\ Becomes(t, IF call[t].found THEN "lazywait" ELSE "strong", call[t].tag,
                          call[t].next, 0, call[t].n, FALSE)
      <3>1. \A u \in Thread : call'[u].pc # "disabling" BY Zenon, <2>2, <2>6 DEF Becomes, OwnCall
      <3>2. ASSUME request[0] # {}, ~ waitFlag'[0], NEW u \in Thread PROVE cnt[u][0] = 0
        <4>1. CASE CallPart(t) = 0
          <5>1. waitFlag'[0] = call[t].found BY Zenon, <1>0, <2>6, <4>1 DEF Flags
          <5>2. ~ call[t].found BY <3>2, <5>1
          <5>3. PICK i \in DOMAIN Order : u = Order[i] BY SMTT(20) DEF Thread
          <5>4. i \in 1..call[t].at BY <2>4, <2>6, <5>3
          <5>5. QED BY SMTT(20), <2>1, <4>1, <5>2, <5>3, <5>4 DEF Quiet
        <4>2. CASE CallPart(t) # 0
          <5>1. waitFlag'[0] = waitFlag[0] BY Zenon, <1>0, <2>6, <4>2 DEF Flags
          <5>2. ~ waitFlag[0] BY <3>2, <5>1
          <5>3. ~ (\E w \in Thread : call[w].pc = "disabling" /\ CallPart(w) = 0) BY <2>2, <4>2
          <5>4. QED BY Zenon, <3>2, <5>2, <5>3 DEF Quiet
        <4>3. QED BY SMTT(20), <4>1, <4>2
      <3>3. QED BY Zenon, <2>3, <3>1, <3>2 DEF Quiet
    <2>7. QED BY Zenon, <1>23, <2>5, <2>6, DisableNextThreadEffect
  <1>24. ASSUME NEW t \in Thread, WakeupAllRequests(t) PROVE Quiet(0)'
    <2>1. cnt' = cnt /\ request' = request /\ hintLock = {} BY <1>24 DEF WakeupAllRequests, hintVars
    <2>2. waitFlag'[0] <=> waitFlag[0] /\ 0 \notin Walk[PartCnt].free
      BY Zenon, <1>0, <1>24 DEF WakeupAllRequests
    <2>3. OwnCall(t) /\ call[t].pc # "disabling" /\ call'[t].pc # "disabling"
      BY Zenon, <1>24, <1>2, WakeupAllRequestsEffect DEF Continues, Idles, Starts, To, Becomes, FieldsShape
    <2>4. CASE 0 \notin Walk[PartCnt].free
      <3>1. ~ waitFlag'[0] => ~ waitFlag[0] BY Zenon, <2>2, <2>4
      <3>2. QED BY Zenon, <1>0, <2>1, <2>3, <3>1, QuietKeep
    <2>5. CASE 0 \in Walk[PartCnt].free
      <3>1. LazyHolders(0, 0) = {} BY <2>5 DEF WalkRight, WalkOK
      <3>2. \A u \in Thread : cnt[u][0] = 0
        <4> SUFFICES ASSUME NEW u \in Thread PROVE cnt[u][0] = 0
          OBVIOUS
        <4>1. PICK i \in DOMAIN Order : u = Order[i] BY DEF Thread
        <4>2. i > 0 BY <4>1, OrderAssumption
        <4>3. ~ (cnt[Order[i]][0] > 0) BY <3>1, <4>2 DEF LazyHolders
        <4>4. cnt[u][0] \in Nat BY <1>0
        <4>5. QED BY <4>1, <4>3, <4>4
      <3>3. \A u \in Thread : call'[u].pc # "disabling"
        <4>1. \A u \in Thread : call[u].pc # "disabling" BY <2>1 DEF Shape, CallShape, Walking
        <4>2. QED BY SMTT(20), <2>3, <4>1 DEF OwnCall
      <3>4. QED BY Zenon, <2>1, <3>2, <3>3 DEF Quiet
    <2>6. QED BY <2>4, <2>5
  <1>25. ASSUME NEW t \in Thread, NEW tag \in Tag, LazyLock(t, tag) PROVE Quiet(0)'
    <2>1. UNCHANGED <<request, waitFlag>> /\ request' = request BY <1>25 DEF LazyLock, listVars
    <2>2. OwnCall(t) /\ call[t].pc # "disabling" /\ call'[t].pc # "disabling" /\ t \in active
      BY Zenon, <1>25, LazyLockEffect DEF Becomes, To, Starts
    <2>3. CASE cnt' = cnt BY <1>0, <2>1, <2>2, <2>3, <1>NoWalk
    <2>4. CASE ~ closed[t][PartOf[tag]] /\ cnt' = [cnt EXCEPT ![t][PartOf[tag]] = @ + 1]
      <3>1. PartOf[tag] \in Part BY LazyAssumption
      <3>2. CASE PartOf[tag] # 0
        <4>1. \A u \in Thread : cnt'[u][0] = cnt[u][0] BY Zenon, <1>0, <2>4, <3>1, <3>2 DEF Counts
        <4>2. QED BY Zenon, <1>0, <2>1, <2>2, <4>1, QuietKeep
      <3>3. CASE PartOf[tag] = 0
        <4>1. PICK k \in DOMAIN Order : t = Order[k] BY DEF Thread
        <4>2. request[0] = {} \/ Ahead("disabling", k, 0)
          <5>1. ClosedAt(k, 0) BY Zenon, <1>0, ClosedAtDef DEF Requests
          <5>2. ~ closed[Order[k]][0] /\ Order[k] \in active BY <2>2, <2>4, <3>3, <4>1
          <5>3. QED BY Zenon, <5>1, <5>2 DEF ClosedAt
        <4>3. \A u \in Thread \ {t} : cnt'[u] = cnt[u] BY Zenon, <2>4, <3>1 DEF Counts
        <4>4. \A w \in Thread : call'[w].pc = "disabling" => w # t /\ call'[w] = call[w]
          BY <2>2 DEF OwnCall
        <4>5. CASE request[0] = {}
          <5>1. \A w \in Thread : ~ (call[w].pc = "disabling" /\ CallPart(w) = 0)
            BY Zenon, <1>2, <4>5 DEF Listed
          <5>2. \A w \in Thread : ~ (call'[w].pc = "disabling" /\ CallPart(w)' = 0)
            BY <4>4, <5>1 DEF CallPart
          <5>3. QED BY Zenon, <2>1, <4>5, <5>2 DEF Quiet
        <4>6. CASE Ahead("disabling", k, 0)
          <5>1. PICK w \in Thread : call[w].pc = "disabling" /\ CallPart(w) = 0 /\ call[w].at < k
            BY Zenon, <4>6 DEF Ahead
          <5>2. \A u \in Thread : call[u].pc = "disabling" => u = w
            <6>1. \A u \in Thread : Walking(u) <=> hintLock = {u} BY SMTT(20) DEF Shape, CallShape
            <6>2. QED BY SMTT(20), <5>1, <6>1 DEF Walking
          <5>3. w # t /\ call'[w] = call[w] BY <2>2, <5>1 DEF OwnCall
          <5>4. call'[w].pc = "disabling" /\ CallPart(w)' = 0 BY Zenon, <5>1, <5>3 DEF CallPart
          <5>5. ASSUME ~ call[w].found, NEW i \in 1..call[w].at PROVE cnt'[Order[i]][0] = 0
            <6>1. cnt[Order[i]][0] = 0 BY SMTT(20), <5>1, <5>5 DEF Quiet
            <6>2. i \in DOMAIN Order /\ Order[i] \in Thread BY <5>1, Passed DEF Walking
            <6>3. i # k
              <7>1. call[w].at \in Nat BY Zenon, <1>2 DEF CallType
              <7>2. k \in Nat BY OrderAssumption
              <7>3. call[w].at < k BY <5>1
              <7>4. QED BY ONLY SMTT(20), <7>1, <7>2, <7>3, i \in 1..call[w].at
            <6>4. Order[i] # t BY SMTT(20), <4>1, <6>2, <6>3, OrderAssumption
            <6>5. QED BY SMTT(20), <4>3, <6>1, <6>2, <6>4
          <5>6. \A u \in Thread : call'[u].pc = "disabling" /\ CallPart(u)' = 0 /\ ~ call'[u].found
                  => \A i \in 1..call'[u].at : cnt'[Order[i]][0] = 0
            BY <4>4, <5>2, <5>3, <5>5
          <5>7. QED BY Zenon, <5>4, <5>6 DEF Quiet
        <4>7. QED BY <4>2, <4>5, <4>6
      <3>4. QED BY <3>2, <3>3
    <2>5. QED BY Zenon, <1>25, <2>3, <2>4, LazyLockEffect
  <1>26. QED
    BY SMTT(20), <1>1, <1>3, <1>4, <1>5, <1>6, <1>7, <1>8, <1>9, <1>10, <1>11, <1>12, <1>13, <1>14, <1>15, <1>16,
       <1>17, <1>18, <1>19, <1>20, <1>21, <1>22, <1>23, <1>24, <1>25 DEF Next, CallStep

-----------------------------------------------------------------------------
(* The walk of a wake-up over the partitions.                              *)

\* A set of natural numbers that is not empty has a least element: the induction
\* principle in a form without an operator parameter.
LEMMA LeastElement ==
  ASSUME NEW T, T \subseteq Nat, T # {}
  PROVE  \E n \in T : \A m \in T : n <= m
  <1>1. IsWellFoundedOn(OpToRel(<, Nat), Nat) BY Zenon, NatLessThanWellFounded
  <1>2. PICK n \in T : \A m \in T : ~ (<<m, n>> \in OpToRel(<, Nat)) BY Zenon, <1>1, WFMin
  <1>3. \A m \in T : ~ (m < n) BY Zenon, <1>2 DEF OpToRel
  <1>4. QED BY <1>3

(* One partition of the walk. *)
WalkOne(w, q) ==
  LET holders == LazyHolders(q, w.at)
  IN  IF request[q] = {} \/ ~ waitFlag[q] THEN w
      ELSE IF holders # {}
        THEN [w EXCEPT !.at = CHOOSE i \in holders : \A j \in holders : i <= j]
        ELSE [at |-> Len(Order), free |-> w.free \cup {q}]

WalkTo(g, n) ==
  g = [p \in 0..n |-> IF p = 0 THEN [at |-> 0, free |-> {}] ELSE WalkOne(g[p - 1], p - 1)]

\* The recursion that defines Walk has a solution.
LEMMA WalkExists == \A n \in Nat : \E g : WalkTo(g, n)
  <1> DEFINE T == {n \in Nat : ~ \E g : WalkTo(g, n)}
  <1>1. SUFFICES ASSUME T # {} PROVE FALSE OBVIOUS
  <1>2. PICK n \in T : \A m \in T : n <= m BY Zenon, <1>1, LeastElement
  <1>3. n \in Nat /\ ~ \E g : WalkTo(g, n) OBVIOUS
  <1>4. CASE n = 0
    <2> DEFINE g == [p \in 0..0 |-> [at |-> 0, free |-> {}]]
    <2>1. g = [p \in 0..n |-> IF p = 0 THEN [at |-> 0, free |-> {}] ELSE WalkOne(g[p - 1], p - 1)]
      BY <1>4
    <2>2. WalkTo(g, n) BY <2>1 DEF WalkTo
    <2>3. QED BY <2>2, <1>3
  <1>5. CASE n # 0
    <2>1. n - 1 \in Nat /\ ~ (n <= n - 1) BY <1>3, <1>5
    <2>2. n - 1 \notin T BY <2>1, <1>2
    <2>3. PICK h : WalkTo(h, n - 1) BY <2>1, <2>2
    <2> DEFINE g == [p \in 0..n |-> IF p = n THEN WalkOne(h[n - 1], n - 1) ELSE h[p]]
    <2>4. \A p \in 0..n : p = n \/ p \in 0..(n - 1) BY <1>3
    <2>5. \A p \in 0..(n - 1) : g[p] = h[p] BY <1>3
    <2>6. \A p \in 0..n : p # 0 => p - 1 \in 0..(n - 1) BY <1>3
    <2>7. \A p \in 0..(n - 1) :
            h[p] = IF p = 0 THEN [at |-> 0, free |-> {}] ELSE WalkOne(h[p - 1], p - 1)
      BY Zenon, <2>3 DEF WalkTo
    <2>8. \A p \in 0..n :
            g[p] = IF p = 0 THEN [at |-> 0, free |-> {}] ELSE WalkOne(g[p - 1], p - 1)
      <3> SUFFICES ASSUME NEW p \in 0..n
                   PROVE  g[p] = IF p = 0 THEN [at |-> 0, free |-> {}] ELSE WalkOne(g[p - 1], p - 1)
        BY Zenon
      <3>1. p # 0 => g[p - 1] = h[p - 1] BY <2>5, <2>6
      <3>2. CASE p = n
        <4>1. g[p] = WalkOne(h[n - 1], n - 1) BY <3>2
        <4>2. QED BY ONLY SMTT(20), <4>1, <3>1, <3>2, <1>5
      <3>3. CASE p # n
        <4>1. p \in 0..(n - 1) BY <3>3, <2>4
        <4>2. g[p] = h[p] BY <4>1, <2>5
        <4>3. h[p] = IF p = 0 THEN [at |-> 0, free |-> {}] ELSE WalkOne(h[p - 1], p - 1)
          BY <4>1, <2>7
        <4>4. QED BY ONLY <4>2, <4>3, <3>1
      <3>4. QED BY <3>2, <3>3
    <2>9. g = [p \in 0..n |-> IF p = 0 THEN [at |-> 0, free |-> {}] ELSE WalkOne(g[p - 1], p - 1)]
      <3>1. g = [p \in 0..n |-> g[p]] OBVIOUS
      <3> HIDE DEF g
      <3>2. QED BY <3>1, <2>8
    <2>10. WalkTo(g, n) BY <2>9 DEF WalkTo
    <2>11. QED BY <2>10, <1>3
  <1>6. QED BY <1>4, <1>5

\* What Walk is at each partition.
LEMMA WalkDef ==
  \A p \in 0..PartCnt :
    Walk[p] = IF p = 0 THEN [at |-> 0, free |-> {}] ELSE WalkOne(Walk[p - 1], p - 1)
  <1>1. PartCnt \in Nat BY LazyAssumption
  <1>2. Walk = CHOOSE g : WalkTo(g, PartCnt) BY DEF Walk, WalkTo, WalkOne
  <1>3. WalkTo(Walk, PartCnt) BY SMTT(20), <1>1, <1>2, WalkExists
  <1>4. QED BY Zenon, <1>3 DEF WalkTo

\* One partition more keeps it.
LEMMA WalkOneOK ==
  ASSUME NEW p \in Part, NEW w, WalkOK(w, p)
  PROVE  WalkOK(WalkOne(w, p), p + 1)
  <1>1. p \in Nat /\ PartCnt \in Nat /\ p + 1 # 0 BY LazyAssumption DEF Part
  <1>2. DOMAIN Order \subseteq Nat /\ Len(Order) \in Nat BY OrderAssumption
  <1>3. w.at \in Nat /\ w.free \in SUBSET Part /\ Part \subseteq Nat BY <1>1 DEF WalkOK, Part
  <1>4. CASE request[p] = {} \/ ~ waitFlag[p]
    <2>1. WalkOne(w, p) = w BY <1>4 DEF WalkOne
    <2>2. \A q \in w.free : q < p + 1 BY <1>1, <1>3 DEF WalkOK
    <2>3. QED BY Zenon, <2>1, <2>2, <1>1 DEF WalkOK
  <1>5. CASE ~ (request[p] = {} \/ ~ waitFlag[p]) /\ LazyHolders(p, w.at) # {}
    <2> DEFINE holders == LazyHolders(p, w.at)
               i == CHOOSE k \in holders : \A j \in holders : k <= j
    <2>1. holders \subseteq Nat BY <1>2 DEF LazyHolders
    <2>2. i \in holders BY <2>1, <1>5, LeastElement
    <2>3. WalkOne(w, p) = [w EXCEPT !.at = i] BY <1>5 DEF WalkOne
    <2>4. i \in Nat BY <2>1, <2>2
    <2>5. WalkOne(w, p) \in [at : Nat, free : SUBSET Part] /\ WalkOne(w, p).free = w.free
      BY Zenon, <2>3, <2>4 DEF WalkOK
    <2>6. \A q \in w.free : q < p + 1 BY <1>1, <1>3 DEF WalkOK
    <2>7. QED BY Zenon, <2>5, <2>6, <1>1 DEF WalkOK
  <1>6. CASE ~ (request[p] = {} \/ ~ waitFlag[p]) /\ LazyHolders(p, w.at) = {}
    <2>1. WalkOne(w, p) = [at |-> Len(Order), free |-> w.free \cup {p}] BY <1>6 DEF WalkOne
    <2>2. \A q \in w.free \cup {p} : q < p + 1 /\ waitFlag[q] /\ request[q] # {}
      <3>1. \A q \in w.free : q < p + 1 BY <1>1, <1>3 DEF WalkOK
      <3>2. \A q \in w.free : waitFlag[q] /\ request[q] # {} BY Zenon DEF WalkOK
      <3>3. waitFlag[p] /\ request[p] # {} BY Zenon, <1>6
      <3>4. p < p + 1 BY <1>1
      <3>5. QED BY Zenon, <3>1, <3>2, <3>3, <3>4
    <2>3. p = 0 => w.at = 0 BY <1>3 DEF WalkOK
    <2>4. 0 \in w.free \cup {p} => LazyHolders(0, 0) = {} BY <2>3, <1>6 DEF WalkOK
    <2>5. WalkOne(w, p) \in [at : Nat, free : SUBSET Part] BY <2>1, <1>2, <1>3
    <2>6. WalkOne(w, p).free = w.free \cup {p} BY <2>1
    <2>7. QED BY Zenon, <2>2, <2>4, <2>5, <2>6, <1>1 DEF WalkOK
  <1>7. QED BY <1>4, <1>5, <1>6

\* A wake-up lowers no flag that is not up, and the flag of the first partition only
\* when no thread counts a lazy lock there.
LEMMA WalkCorrect == WalkRight
  <1> DEFINE T == {n \in 0..PartCnt : ~ WalkOK(Walk[n], n)}
  <1> USE DEF WalkRight
  <1>0. PartCnt \in Nat BY LazyAssumption
  <1>1. SUFFICES ASSUME T # {} PROVE FALSE
    <2>1. PartCnt \in 0..PartCnt BY <1>0
    <2>2. QED BY Zenon, <2>1
  <1>2. PICK n \in T : \A m \in T : n <= m
    <2>1. T \subseteq Nat BY <1>0
    <2> HIDE DEF T
    <2>2. QED BY Zenon, <2>1, <1>1, LeastElement
  <1>3. n \in 0..PartCnt /\ ~ WalkOK(Walk[n], n) OBVIOUS
  <1>4. CASE n = 0
    <2>1. Walk[n] = [at |-> 0, free |-> {}] BY Zenon, <1>3, <1>4, WalkDef
    <2>2. WalkOK(Walk[n], n) BY <2>1, <1>4 DEF WalkOK
    <2>3. QED BY <2>2, <1>3
  <1>5. CASE n # 0
    <2>1. n - 1 \in Part /\ n - 1 \in 0..PartCnt /\ ~ (n <= n - 1) /\ (n - 1) + 1 = n
      BY <1>0, <1>3, <1>5 DEF Part
    <2>2. n - 1 \notin T BY <2>1, <1>2
    <2>3. WalkOK(Walk[n - 1], n - 1) BY <2>1, <2>2
    <2>4. Walk[n] = WalkOne(Walk[n - 1], n - 1) BY <1>3, <1>5, WalkDef
    <2>5. WalkOK(WalkOne(Walk[n - 1], n - 1), (n - 1) + 1) BY <2>1, <2>3, WalkOneOK
    <2>6. QED BY <2>1, <2>4, <2>5, <1>3
  <1>6. QED BY <1>4, <1>5

-----------------------------------------------------------------------------
(* The theorems.                                                           *)

\* The initial states: everybody is idle, nothing is held, nothing is closed.
LEMMA InitIInv == Init => IInv
  <1> SUFFICES ASSUME Init PROVE IInv
    OBVIOUS
  <1>1. \A t \in Thread : call[t] = IdleCall /\ call[t].pc = "idle" /\ call[t].at = 0
    BY DEF Init, IdleCall
  <1>2. Shape
    <2>1. call \in [Thread -> CallType] BY IdleCallType DEF Init
    <2>2. slot \in [Thread -> [Part -> Slot]] BY FreeSlotType DEF Init
    <2>3. \A t \in Thread : CallShape(t) BY <1>1 DEF Init, CallShape, Walking, FieldsShape, WithTag
    <2>4. QED BY <2>1, <2>2, <2>3 DEF Init, Shape
  <1>3. Counts
    <2>1. CountMatchesSlots
      <3> SUFFICES ASSUME NEW t \in Thread, NEW p \in Part PROVE cnt[t][p] = slot[t][p].cnt + 0 + 0
        BY <1>1 DEF CountMatchesSlots
      <3>1. QED BY DEF Init, FreeSlot
    <2>2. QED BY <2>1 DEF Init, Counts
  <1>4. Requests
    <2>1. \A t \in Thread : Listed(t) BY SMTT(20), <1>1 DEF Init, Listed, Acquiring, Pushing, At
    <2>2. ClosedExact BY Zenon, <1>1 DEF Init, ClosedExact, Thread
    <2>3. QED BY SMTT(20), <2>1, <2>2 DEF Init, Requests
  <1>5. Flags
    <2>1. WaitFlagExact BY <1>1 DEF Init, WaitFlagExact, At
    <2>2. QED BY <1>1, <2>1 DEF Init, Flags, At
  <1>6. Quiet(0)
    <2>1. 0 \in Part BY LazyAssumption DEF Part
    <2>2. QED BY <1>1, <2>1 DEF Init, Quiet
  <1>7. QED BY <1>2, <1>3, <1>4, <1>5, <1>6 DEF IInv

\* The conjunction of the layers is an inductive invariant of the lazy locks.
THEOREM LazyInvariant == Spec => []IInv
  <1>1. IInv /\ [Next]_vars => IInv'
    <2> SUFFICES ASSUME IInv, [Next]_vars PROVE IInv'
      OBVIOUS
    <2>1. Shape /\ Counts /\ Requests /\ Flags /\ Quiet(0) BY DEF IInv
    <2>2. Shape' BY <2>1, ShapeStep
    <2>3. Counts' BY <2>1, <2>2, CountsStep
    <2>4. Requests' BY <2>1, <2>2, <2>3, RequestsStep
    <2>5. Flags' BY <2>1, <2>2, <2>4, WalkCorrect, FlagsStep
    <2>6. Quiet(0)' BY <2>1, <2>2, <2>3, <2>4, WalkCorrect, QuietStep
    <2>7. QED BY <2>2, <2>3, <2>4, <2>5, <2>6 DEF IInv
  <1>2. QED BY InitIInv, <1>1, PTL DEF Spec

\* The types of the variables, for any threads, tags and partitions; in particular a
\* count never falls below zero (the assertion in DecreaseLazyLockCnt), and one
\* thread at most walks over the others.
THEOREM LazyTypes == Spec => []TypeOK
  <1>1. IInv => TypeOK
    <2> SUFFICES ASSUME IInv PROVE TypeOK
      OBVIOUS
    <2>1. Slot \subseteq [tag : Tag \cup {NoTag}, cnt : Nat] BY DEF Slot, FreeSlot
    <2>2. slot \in [Thread -> [Part -> [tag : Tag \cup {NoTag}, cnt : Nat]]]
      BY <2>1 DEF IInv, Shape
    <2>3. hintLock \subseteq Thread /\ Cardinality(hintLock) <= 1
      <3>1. CASE hintLock = {} BY <3>1, FS_EmptySet
      <3>2. ASSUME NEW t \in Thread, hintLock = {t}
            PROVE  hintLock \subseteq Thread /\ Cardinality(hintLock) <= 1
        BY <3>2, FS_Singleton
      <3>3. QED BY <3>1, <3>2 DEF IInv, Shape
    <2>4. QED BY <2>2, <2>3 DEF IInv, Shape, Counts, Requests, Flags, TypeOK, CallType
  <1>2. QED BY <1>1, LazyInvariant, PTL

\* A hint word counts what is in the slot and what its call has still to take off.
THEOREM CountsMatch == Spec => []CountMatchesSlots
  <1>1. IInv => CountMatchesSlots BY DEF IInv, Counts
  <1>2. QED BY <1>1, LazyInvariant, PTL

\* A partition is closed on a registered thread exactly where a request is listed and
\* no walk has still to reach the thread: EnableLazyLock never subtracts a bit that is
\* not set, and no thread stays closed after the last request has left.
THEOREM ClosedIsExact == Spec => []ClosedExact
  <1>1. IInv => ClosedExact BY DEF IInv, Requests
  <1>2. QED BY <1>1, LazyInvariant, PTL

\* A lazy waiter that was not woken is flagged, and a wake-up reaches only threads
\* that are in the lazy wait or are giving it up.
THEOREM WaitFlagIsExact == Spec => []WaitFlagExact
  <1>1. IInv => WaitFlagExact BY DEF IInv, Flags
  <1>2. QED BY <1>1, LazyInvariant, PTL

(* A listed request that is neither waiting nor giving up means a quiet partition. *)
LEMMA QuietFor ==
  ASSUME IInv, NEW t \in Thread, NEW tag \in Tag, PartOf[tag] = 0,
         [thr |-> t, tag |-> tag] \in request[0],
         call[t].tag = tag => ~ At(t, "lazywait") /\ call[t].pc \notin {"disabling", "enable"}
  PROVE  \A u \in Thread : cnt[u][0] = 0
  <1>1. 0 \in Part BY LazyAssumption DEF Part
  <1>2. ~ waitFlag[0]
    <2>1. Flagged(t) BY FlagsOf DEF IInv
    <2>2. QED BY Zenon, <1>1, <2>1 DEF Flagged
  <1>3. ~ (\E w \in Thread : call[w].pc = "disabling" /\ CallPart(w) = 0)
    <2> SUFFICES ASSUME NEW w \in Thread, call[w].pc = "disabling", CallPart(w) = 0 PROVE FALSE
      OBVIOUS
    <2>1. request[0] = {Request(w)} BY DEF IInv, Requests, Listed
    <2>2. w = t /\ call[w].tag = tag BY <2>1 DEF Request
    <2>3. QED BY <2>2
  <1>4. QED BY Zenon, <1>2, <1>3 DEF IInv, Quiet

\* In the partition that a wake-up visits first no lazy lock is left when a strong
\* request computes its conflicts, and none comes back before its release begins.
THEOREM FirstPartitionQuiet == Spec => []NoLazyPastTheWaitIn(0)
  <1>1. IInv => NoLazyPastTheWaitIn(0)
    <2> SUFFICES ASSUME IInv, NEW t \in Thread, NEW tag \in Tag, PartOf[tag] = 0,
                        \/ At(t, "strong") /\ call[t].tag = tag
                        \/ t \in strong[tag] /\ ~ Releasing(t, tag)
                 PROVE  \A u \in Thread : cnt[u][0] = 0
      BY DEF NoLazyPastTheWaitIn
    <2>1. Listed(t) BY DEF IInv, Requests
    <2>2. CASE At(t, "strong") /\ call[t].tag = tag
      <3>1. [thr |-> t, tag |-> tag] \in request[0] BY <2>1, <2>2 DEF Listed, Request, CallPart
      <3>2. ~ At(t, "lazywait") /\ call[t].pc \notin {"disabling", "enable"} BY <2>2 DEF At
      <3>3. QED BY SMTT(20), <3>1, <3>2, QuietFor
    <2>3. CASE t \in strong[tag] /\ ~ Releasing(t, tag)
      <3>1. [thr |-> t, tag |-> tag] \in request[0] BY SMTT(20), <2>1, <2>3 DEF Listed, Releasing
      <3>2. call[t].tag = tag => ~ At(t, "lazywait") /\ call[t].pc \notin {"disabling", "enable"}
        BY <2>1, <2>3 DEF Listed, Releasing, Acquiring, Pushing, At
      <3>3. QED BY SMTT(20), <3>1, <3>2, QuietFor
    <2>4. QED BY <2>2, <2>3
  <1>2. QED BY <1>1, LazyInvariant, PTL

\* With one partition that is all of rules (1) and (2) of LazyLock.  With more it is not:
\* the wake-up has one iterator over the threads for all partitions.
THEOREM OnePartitionQuiet == ASSUME PartCnt = 1 PROVE Spec => []NoLazyPastTheWait
  <1>1. NoLazyPastTheWaitIn(0) => NoLazyPastTheWait
    <2>1. \A tag \in Tag : PartOf[tag] = 0 BY LazyAssumption DEF Part
    <2>2. QED BY <2>1 DEF NoLazyPastTheWaitIn, NoLazyPastTheWait
  <1>2. QED BY <1>1, FirstPartitionQuiet, PTL

=============================================================================
