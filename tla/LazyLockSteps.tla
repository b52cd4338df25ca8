--------------------------- MODULE LazyLockSteps ---------------------------
(***************************************************************************)
(* Every step of the lazy locks keeps each layer of LazyLockInv's          *)
(* invariant.  What a wake-up finds on its walk over the partitions        *)
(* (WalkRight) is an assumption here, and is proved in LazyLockProofs.     *)
(***************************************************************************)
EXTENDS LazyLockInv, TLAPS

-----------------------------------------------------------------------------
(* Shape.                                                                  *)

(* A step of t leaves the other threads' calls alone. *)
OwnCall(t) ==
  /\ call' \in [Thread -> CallType]
  /\ \A u \in Thread \ {t} : call'[u] = call[u]

HintLockStep(t) ==
  \/ hintLock' = hintLock
  \/ hintLock = {} /\ hintLock' = {t}
  \/ hintLock = {t} /\ hintLock' = {}

(* The fields of t's call after a step. *)
Becomes(t, pc, tag, next, at, n, found) ==
  /\ OwnCall(t)
  /\ call'[t].pc = pc /\ call'[t].tag = tag /\ call'[t].next = next
  /\ call'[t].at = at /\ call'[t].n = n /\ call'[t].found = found

\* The ways in which a step changes a call.
LEMMA SetCall ==
  ASSUME Shape, NEW t \in Thread, NEW c \in CallType, call' = [call EXCEPT ![t] = c]
  PROVE  Becomes(t, c.pc, c.tag, c.next, c.at, c.n, c.found)
  BY DEF Shape, Becomes, OwnCall, CallType

(* The step and the one after it change. *)
LEMMA SetPcNext ==
  ASSUME Shape, NEW t \in Thread, NEW pc \in PCs, NEW next \in PCs,
         call' = [call EXCEPT ![t].pc = pc, ![t].next = next]
  PROVE  Becomes(t, pc, call[t].tag, next, call[t].at, call[t].n, call[t].found)
  BY ZenonT(60) DEF Shape, Becomes, OwnCall, CallType

(* The step changes, with the partition and the number a count is lowered by. *)
LEMMA SetPcAtN ==
  ASSUME Shape, NEW t \in Thread, NEW pc \in PCs, NEW at \in Nat, NEW n \in Nat,
         call' = [call EXCEPT ![t].pc = pc, ![t].at = at, ![t].n = n]
  PROVE  Becomes(t, pc, call[t].tag, call[t].next, at, n, call[t].found)
  BY ZenonT(60) DEF Shape, Becomes, OwnCall, CallType

(* The usual ones by name. *)
To(t, pc)    == Becomes(t, pc, call[t].tag, call[t].next, call[t].at, call[t].n, call[t].found)
Pushes(t, next) == Becomes(t, "push", call[t].tag, next, call[t].at, call[t].n, call[t].found)
GivesUp(t)   == Becomes(t, "enable", call[t].tag, "idle", call[t].at, call[t].n, call[t].found)
Starts(t, pc, tag, next) == Becomes(t, pc, tag, next, 0, 0, FALSE)
Idles(t)     == Starts(t, "idle", NoTag, "idle")
Continues(t) == IF call[t].next = "idle" THEN Idles(t) ELSE To(t, call[t].next)

(* What Goto, and a step that leaves the call alone, do. *)
LEMMA GotoEffect ==
  ASSUME Shape, NEW t \in Thread, NEW pc \in PCs, Goto(t, pc)
  PROVE  To(t, pc)
  BY ZenonT(60) DEF Goto, To, Shape, Becomes, OwnCall, CallType

(* A step that leaves the call alone. *)
LEMMA SameEffect ==
  ASSUME Shape, NEW t \in Thread, UNCHANGED call
  PROVE  To(t, call[t].pc)
  BY DEF Shape, To, Becomes, OwnCall

(* An idle call is a call. *)
LEMMA IdleCallType == IdleCall \in CallType
  BY DEF IdleCall, CallType, PCs

(* A call starts with a push, or with an enable. *)
LEMMA StartEffect ==
  ASSUME Shape, NEW t \in Thread, NEW pc \in PCs, NEW tag \in Tag, NEW next \in PCs,
         call' = [call EXCEPT ![t] = [IdleCall EXCEPT !.pc = pc, !.tag = tag, !.next = next]]
  PROVE  Starts(t, pc, tag, next)
  <1> DEFINE c == [IdleCall EXCEPT !.pc = pc, !.tag = tag, !.next = next]
  <1>1. c \in CallType BY Zenon, IdleCallType DEF CallType
  <1>2. c.pc = pc /\ c.tag = tag /\ c.next = next BY IdleCallType DEF CallType
  <1>3. c.at = 0 /\ c.n = 0 /\ c.found = FALSE BY DEF IdleCall
  <1> HIDE DEF c
  <1>4. Becomes(t, c.pc, c.tag, c.next, c.at, c.n, c.found) BY Zenon, <1>1, SetCall DEF c
  <1>5. QED BY Zenon, <1>2, <1>3, <1>4 DEF Starts

(* A call returns. *)
LEMMA ReturnEffect ==
  ASSUME Shape, NEW t \in Thread, Return(t)
  PROVE  Idles(t)
  BY Zenon, IdleCallType, SetCall DEF Return, Idles, Starts, IdleCall

(* A call turns to pushing the thread's lazy locks. *)
LEMMA PushEffect ==
  ASSUME Shape, NEW t \in Thread, NEW next \in PCs, Push(t, next)
  PROVE  Pushes(t, next)
  BY Zenon, SetPcNext DEF Push, Pushes, PCs

(* A strong request gives up. *)
LEMMA GiveUpEffect ==
  ASSUME Shape, NEW t \in Thread, call' = [call EXCEPT ![t].pc = "enable", ![t].next = "idle"]
  PROVE  GivesUp(t)
  BY Zenon, SetPcNext DEF GivesUp, PCs

(* A call goes on after a push. *)
LEMMA ContinueEffect ==
  ASSUME Shape, NEW t \in Thread, Continue(t)
  PROVE  Continues(t)
  <1>1. call[t].next \in PCs BY DEF Shape, CallType
  <1>2. QED BY <1>1, ReturnEffect, GotoEffect DEF Continue, Continues

(* What each action does to the call, field by field.  The rolled-back count. *)
LEMMA LazyLockRollbackEffect ==
  ASSUME Shape, NEW t \in Thread, LazyLockRollback(t)
  PROVE  call[t].pc = "rollback" /\ To(t, "weak")
  BY GotoEffect DEF LazyLockRollback, PCs

(* The lock manager's answer to a weak request. *)
LEMMA WeakLockEffect ==
  ASSUME Shape, NEW t \in Thread, WeakLock(t)
  PROVE  call[t].pc = "weak" /\ Idles(t)
  BY ReturnEffect DEF WeakLock, PCs

(* A strong request begins. *)
LEMMA BeginLazyWaitEffect ==
  ASSUME Shape, NEW t \in Thread, BeginLazyWait(t)
  PROVE  call[t].pc = "wait" /\ To(t, "disable")
  BY GotoEffect DEF BeginLazyWait, PCs

(* A lazy wait ends, *)
LEMMA LazyWaitEndsEffect ==
  ASSUME Shape, NEW t \in Thread, LazyWaitEnds(t)
  PROVE  call[t].pc = "lazywait" /\ To(t, "strong")
  BY GotoEffect DEF LazyWaitEnds, PCs

(* or fails. *)
LEMMA LazyWaitFailsEffect ==
  ASSUME Shape, NEW t \in Thread, LazyWaitFails(t)
  PROVE  call[t].pc = "lazywait" /\ GivesUp(t)
  BY Zenon, GiveUpEffect DEF LazyWaitFails, PCs

(* A wake-up goes on with what the push was for. *)
LEMMA WakeupAllRequestsEffect ==
  ASSUME Shape, NEW t \in Thread, WakeupAllRequests(t)
  PROVE  call[t].pc = "wake" /\ Continues(t)
  BY ContinueEffect DEF WakeupAllRequests, PCs

(* A poll pushes and comes back to the same wait. *)
LEMMA PollWhileWaitingEffect ==
  ASSUME Shape, NEW t \in Thread, PollWhileWaiting(t)
  PROVE  call[t].pc \in {"lazywait", "weak", "strong"} /\ Pushes(t, call[t].pc)
  BY PushEffect DEF PollWhileWaiting, PCs

(* A lowered count leads back to the push. *)
LEMMA DecreaseLazyLockCntEffect ==
  ASSUME Shape, NEW t \in Thread, DecreaseLazyLockCnt(t)
  PROVE  call[t].pc = "decrease" /\ Becomes(t, "push", call[t].tag, call[t].next, 0, 0, call[t].found)
  BY Zenon, SetPcAtN DEF DecreaseLazyLockCnt, PCs

(* A thread unregisters: its call stays. *)
LEMMA RemoveSortArrayEffect ==
  ASSUME Shape, NEW t \in Thread, RemoveSortArray(t)
  PROVE  call[t].pc = "idle" /\ To(t, "idle")
  BY SameEffect DEF RemoveSortArray, PCs

(* A thread registers: its call stays. *)
LEMMA InsertSortArrayEffect ==
  ASSUME Shape, NEW t \in Thread, InsertSortArray(t)
  PROVE  To(t, call[t].pc)
  BY SameEffect DEF InsertSortArray, PCs

(* The lock manager's answer to a strong request. *)
LEMMA StrongLockEffect ==
  ASSUME Shape, NEW t \in Thread, StrongLock(t)
  PROVE  call[t].pc = "strong" /\ (Idles(t) \/ GivesUp(t))
  BY ReturnEffect, GiveUpEffect DEF StrongLock, PCs

(* The end of a transaction: its start, a weak lock dropped, a strong lock to enable. *)
LEMMA ReleaseAllLocksEffect ==
  ASSUME Shape, NEW t \in Thread, ReleaseAllLocks(t)
  PROVE  \/ call[t].pc = "idle" /\ To(t, "release") /\ (HoldsInLockManager(t) \/ HoldsLazily(t))
         \/ call[t].pc = "release" /\ To(t, "release")
         \/ /\ call[t].pc = "release"
            /\ \E tag \in Tag :
                 /\ t \in strong[tag]
                 /\ Becomes(t, "enable", tag, "unlock", call[t].at, call[t].n, call[t].found)
  <1>0. "release" \in PCs /\ "enable" \in PCs /\ "unlock" \in PCs BY DEF PCs
  <1>1. CASE call[t].pc = "idle"
    <2>1. call' = [call EXCEPT ![t].pc = "release", ![t].ending = TRUE] BY Zenon, <1>1 DEF ReleaseAllLocks
    <2>2. To(t, "release") BY ZenonT(60), <1>0, <2>1 DEF To, Shape, Becomes, OwnCall, CallType
    <2>3. QED BY Zenon, <1>1, <2>2 DEF ReleaseAllLocks
  <1>2. CASE call[t].pc = "release" /\ UNCHANGED call
    BY <1>2, SameEffect
  <1>3. ASSUME NEW tag \in Tag, call[t].pc = "release", t \in strong[tag],
               call' = [call EXCEPT ![t].pc = "enable", ![t].tag = tag, ![t].next = "unlock"]
        PROVE  Becomes(t, "enable", tag, "unlock", call[t].at, call[t].n, call[t].found)
    BY ZenonT(60), <1>0, <1>3 DEF Shape, Becomes, OwnCall, CallType
  <1>4. QED BY Zenon, <1>1, <1>2, <1>3 DEF ReleaseAllLocks

(* The end of a transaction: a slot emptied, or all of them are. *)
LEMMA ReleaseAllLazyLocksEffect ==
  ASSUME Shape, NEW t \in Thread, ReleaseAllLazyLocks(t)
  PROVE  /\ call[t].pc = "release"
         /\ \/ \E p \in Part :
                  /\ slot[t][p] # FreeSlot
                  /\ cnt' = [cnt EXCEPT ![t][p] = @ - slot[t][p].cnt]
                  /\ slot' = [slot EXCEPT ![t][p] = FreeSlot]
                  /\ \E b \in BOOLEAN :
                       Becomes(t, "release", call[t].tag, call[t].next, call[t].at, call[t].n, b)
            \/ (Pushes(t, "idle") \/ Idles(t)) /\ UNCHANGED <<cnt, slot>>
  <1>1. call[t].pc = "release" /\ call[t] \in CallType /\ call[t].at \in Nat
    BY DEF ReleaseAllLazyLocks, Shape, CallType
  <1>2. ASSUME NEW p \in Part, call' = [call EXCEPT ![t].found = @ \/ closed[t][p]]
        PROVE  \E b \in BOOLEAN :
                 Becomes(t, "release", call[t].tag, call[t].next, call[t].at, call[t].n, b)
    <2> DEFINE b == call[t].found \/ closed[t][p]
    <2>1. b \in BOOLEAN OBVIOUS
    <2>2. call' = [call EXCEPT ![t].found = b] BY <1>2
    <2> HIDE DEF b
    <2>3. Becomes(t, call[t].pc, call[t].tag, call[t].next, call[t].at, call[t].n, b)
      BY Zenon, <2>1, <2>2 DEF Becomes, OwnCall, Shape, CallType
    <2>4. QED BY <1>1, <2>1, <2>3
  <1>3. ASSUME IF call[t].found THEN Push(t, "idle") ELSE Return(t) PROVE Pushes(t, "idle") \/ Idles(t)
    BY <1>3, PushEffect, ReturnEffect DEF PCs
  <1>4. QED BY <1>1, <1>2, <1>3 DEF ReleaseAllLazyLocks

(* A push: a slot enters the lock manager, is refused, or none is left. *)
LEMMA ActuallyAcquireLazyLocksEffect ==
  ASSUME Shape, NEW t \in Thread, ActuallyAcquireLazyLocks(t)
  PROVE  /\ call[t].pc = "push"
         /\ \/ \E p \in Part :
                  /\ slot[t][p] # FreeSlot
                  /\ weak' = [weak EXCEPT ![t][slot[t][p].tag] = @ + slot[t][p].cnt]
                  /\ slot' = [slot EXCEPT ![t][p] = FreeSlot]
                  /\ Becomes(t, "decrease", call[t].tag, call[t].next, p, slot[t][p].cnt, call[t].found)
            \/ Continues(t) /\ UNCHANGED <<slot, weak>>
            \/ To(t, "wake") /\ UNCHANGED <<slot, weak>>
  <1>1. call[t].pc = "push" BY Zenon DEF ActuallyAcquireLazyLocks
  <1>2. ASSUME NEW p \in Part, call' = [call EXCEPT ![t].pc = "decrease", ![t].at = p,
                                                   ![t].n = slot[t][p].cnt]
        PROVE  Becomes(t, "decrease", call[t].tag, call[t].next, p, slot[t][p].cnt, call[t].found)
    <2>1. p \in Nat BY DEF Part
    <2>2. slot[t][p] \in Slot BY DEF Shape
    <2>3. slot[t][p].cnt \in Nat BY <2>2 DEF Slot, FreeSlot
    <2>4. QED BY Zenon, <1>2, <2>1, <2>3, SetPcAtN DEF PCs
  <1>3. QED BY Zenon, <1>1, <1>2, ContinueEffect, GotoEffect DEF ActuallyAcquireLazyLocks, PCs

(* A request is listed and walks, or goes by the flag; or cannot be listed. *)
LEMMA DisableLazyLockEffect ==
  ASSUME Shape, NEW t \in Thread, DisableLazyLock(t)
  PROVE  /\ call[t].pc = "disable" /\ hintLock = {}
         /\ \/ /\ request' = [request EXCEPT ![CallPart(t)] = @ \cup {Request(t)}]
               /\ \/ request[CallPart(t)] = {} /\ hintLock' = {t} /\ To(t, "disabling")
                  \/ /\ request[CallPart(t)] # {} /\ hintLock' = hintLock
                     /\ IF waitFlag[CallPart(t)] THEN To(t, "lazywait") ELSE To(t, "strong")
            \/ GivesUp(t) /\ UNCHANGED <<request, hintLock>>
  <1>1. "disabling" \in PCs /\ "lazywait" \in PCs /\ "strong" \in PCs BY DEF PCs
  <1>2. QED BY <1>1, GotoEffect, GiveUpEffect DEF DisableLazyLock

(* The disabling walk passes a thread, or ends. *)
LEMMA DisableNextThreadEffect ==
  ASSUME Shape, NEW t \in Thread, DisableNextThread(t)
  PROVE  /\ call[t].pc = "disabling"
         /\ \/ /\ call[t].at < Len(Order)
               /\ closed' = [closed EXCEPT ![Order[call[t].at + 1]][CallPart(t)] =
                                @ \/ Order[call[t].at + 1] \in active]
               /\ Becomes(t, "disabling", call[t].tag, call[t].next, call[t].at + 1, call[t].n,
                          NeedWait(t, Order[call[t].at + 1]))
               /\ UNCHANGED <<waitFlag, hintLock>>
            \/ /\ call[t].at = Len(Order)
               /\ waitFlag' = [waitFlag EXCEPT ![CallPart(t)] = call[t].found]
               /\ hintLock' = {}
               /\ Becomes(t, IF call[t].found THEN "lazywait" ELSE "strong", call[t].tag,
                          call[t].next, 0, call[t].n, FALSE)
               /\ UNCHANGED closed
  <1>1. call[t].at \in Nat /\ call[t].at + 1 \in Nat BY DEF Shape, CallType
  <1>2. NeedWait(t, Order[call[t].at + 1]) \in BOOLEAN BY DEF NeedWait
  <1>3. (IF call[t].found THEN "lazywait" ELSE "strong") \in PCs BY SMTT(20) DEF PCs
  <1>4. call[t].pc = "disabling" BY DEF DisableNextThread
  <1>8. 0 \in Nat /\ FALSE \in BOOLEAN OBVIOUS
  <1>5. ASSUME call' = [call EXCEPT ![t].at = @ + 1, ![t].found = NeedWait(t, Order[call[t].at + 1])]
        PROVE  Becomes(t, "disabling", call[t].tag, call[t].next, call[t].at + 1, call[t].n,
                       NeedWait(t, Order[call[t].at + 1]))
    <2>1. call' = [call EXCEPT ![t].at = call[t].at + 1, ![t].found = NeedWait(t, Order[call[t].at + 1])]
      BY <1>5
    <2>2. QED BY ZenonT(60), <1>1, <1>2, <1>4, <2>1 DEF Shape, Becomes, OwnCall, CallType
  <1>6. ASSUME call' = [call EXCEPT ![t].pc = IF call[t].found THEN "lazywait" ELSE "strong",
                                    ![t].at = 0, ![t].found = FALSE]
        PROVE  Becomes(t, IF call[t].found THEN "lazywait" ELSE "strong", call[t].tag,
                       call[t].next, 0, call[t].n, FALSE)
    <2> DEFINE pc == IF call[t].found THEN "lazywait" ELSE "strong"
    <2>1. pc \in PCs BY Zenon, <1>3
    <2>2. call' = [call EXCEPT ![t].pc = pc, ![t].at = 0, ![t].found = FALSE] BY Zenon, <1>6
    <2> HIDE DEF pc
    <2>3. Becomes(t, pc, call[t].tag, call[t].next, 0, call[t].n, FALSE)
      BY ZenonT(60), <1>8, <2>1, <2>2 DEF Shape, Becomes, OwnCall, CallType
    <2>4. QED BY Zenon, <2>3 DEF pc
  <1>7. QED BY Zenon, <1>4, <1>5, <1>6 DEF DisableNextThread

(* A request leaves, and walks if it is the last. *)
LEMMA EnableLazyLockEffect ==
  ASSUME Shape, NEW t \in Thread, EnableLazyLock(t)
  PROVE  /\ call[t].pc = "enable" /\ hintLock = {}
         /\ request' = [request EXCEPT ![CallPart(t)] = @ \ {Request(t)}]
         /\ \/ request[CallPart(t)] = {Request(t)} /\ hintLock' = {t} /\ To(t, "enabling")
            \/ request[CallPart(t)] # {Request(t)} /\ hintLock' = hintLock /\ Continues(t)
  <1>1. "enabling" \in PCs BY DEF PCs
  <1>2. QED BY <1>1, GotoEffect, ContinueEffect DEF EnableLazyLock, LastRequestLeaves

(* The enabling walk passes a thread, or ends. *)
LEMMA EnableNextThreadEffect ==
  ASSUME Shape, NEW t \in Thread, EnableNextThread(t)
  PROVE  /\ call[t].pc = "enabling"
         /\ \/ /\ call[t].at < Len(Order)
               /\ closed' = [closed EXCEPT ![Order[call[t].at + 1]][CallPart(t)] = FALSE]
               /\ Becomes(t, "enabling", call[t].tag, call[t].next, call[t].at + 1, call[t].n,
                          call[t].found)
               /\ UNCHANGED hintLock
            \/ /\ call[t].at = Len(Order)
               /\ hintLock' = {}
               /\ IF call[t].next = "idle" THEN Idles(t)
                  ELSE Becomes(t, call[t].next, call[t].tag, call[t].next, 0, call[t].n, call[t].found)
               /\ UNCHANGED closed
  <1>1. /\ call[t].at \in Nat /\ call[t].at + 1 \in Nat /\ call[t].next \in PCs
        /\ call \in [Thread -> CallType] /\ call[t] \in CallType
    BY DEF Shape, CallType
  <1>2. call[t].pc = "enabling" BY DEF EnableNextThread
  <1>3. ASSUME call' = [call EXCEPT ![t].at = @ + 1]
        PROVE  Becomes(t, "enabling", call[t].tag, call[t].next, call[t].at + 1, call[t].n,
                       call[t].found)
    BY <1>1, <1>2, <1>3 DEF Becomes, OwnCall, CallType
  <1>4. ASSUME call' = [call EXCEPT ![t] = IF call[t].next = "idle" THEN IdleCall
                                           ELSE [@ EXCEPT !.pc = call[t].next, !.at = 0]]
        PROVE  IF call[t].next = "idle" THEN Idles(t)
               ELSE Becomes(t, call[t].next, call[t].tag, call[t].next, 0, call[t].n, call[t].found)
    <2>1. CASE call[t].next = "idle"
      <3>1. call' = [call EXCEPT ![t] = IdleCall] BY <1>4, <2>1
      <3>2. QED BY Zenon, <2>1, <3>1, ReturnEffect DEF Return
    <2>2. CASE call[t].next # "idle"
      <3> DEFINE c == [call[t] EXCEPT !.pc = call[t].next, !.at = 0]
      <3>1. c \in CallType BY Zenon, <1>1 DEF CallType
      <3>2. /\ c.pc = call[t].next /\ c.tag = call[t].tag /\ c.next = call[t].next
            /\ c.at = 0 /\ c.n = call[t].n /\ c.found = call[t].found
        BY <1>1 DEF CallType
      <3>3. call' = [call EXCEPT ![t] = c] BY <1>4, <2>2
      <3> HIDE DEF c
      <3>4. Becomes(t, c.pc, c.tag, c.next, c.at, c.n, c.found) BY Zenon, <3>1, <3>3, SetCall
      <3>5. QED BY <2>2, <3>2, <3>4
    <2>3. QED BY <2>1, <2>2
  <1>5. QED BY <1>2, <1>3, <1>4 DEF EnableNextThread

(* A strong lock is given back. *)
LEMMA UnlockInLockManagerEffect ==
  ASSUME Shape, NEW t \in Thread, UnlockInLockManager(t)
  PROVE  call[t].pc = "unlock" /\ (Idles(t) \/ Starts(t, "release", NoTag, "idle"))
  <1>1. call[t].pc = "unlock" BY DEF UnlockInLockManager
  <1>2. CASE call[t].ending
    <2> DEFINE c == [IdleCall EXCEPT !.pc = "release", !.ending = TRUE]
    <2>1. c \in CallType BY Zenon, IdleCallType DEF CallType, PCs
    <2>2. c.pc = "release" BY IdleCallType DEF CallType
    <2>3. c.tag = NoTag /\ c.next = "idle" /\ c.at = 0 /\ c.n = 0 /\ c.found = FALSE BY DEF IdleCall
    <2>4. call' = [call EXCEPT ![t] = c] BY <1>2 DEF UnlockInLockManager
    <2> HIDE DEF c
    <2>5. Becomes(t, c.pc, c.tag, c.next, c.at, c.n, c.found) BY Zenon, <2>1, <2>4, SetCall
    <2>6. QED BY Zenon, <1>1, <2>2, <2>3, <2>5 DEF Starts
  <1>3. CASE ~ call[t].ending
    <2>1. call' = [call EXCEPT ![t] = IdleCall] BY <1>3 DEF UnlockInLockManager
    <2>2. QED BY Zenon, <1>1, <2>1, ReturnEffect DEF Return
  <1>4. QED BY <1>2, <1>3

(* A lazy lock is refused, noted, or to be rolled back. *)
LEMMA LazyLockEffect ==
  ASSUME Shape, NEW t \in Thread, NEW tag \in Tag, LazyLock(t, tag)
  PROVE  /\ call[t].pc = "idle" /\ t \in active
         /\ \/ closed[t][PartOf[tag]] /\ Starts(t, "push", tag, "weak") /\ UNCHANGED <<cnt, slot>>
            \/ /\ ~ closed[t][PartOf[tag]]
               /\ cnt' = [cnt EXCEPT ![t][PartOf[tag]] = @ + 1]
               /\ \/ /\ slot' = [slot EXCEPT ![t][PartOf[tag]] = [tag |-> tag, cnt |-> @.cnt + 1]]
                     /\ To(t, "idle")
                  \/ Starts(t, "rollback", tag, "idle") /\ UNCHANGED slot
  <1>0. ASSUME NEW pc \in PCs, Start(t, pc, tag) PROVE Starts(t, pc, tag, "idle")
    <2> DEFINE c == [IdleCall EXCEPT !.pc = pc, !.tag = tag]
    <2>1. c \in CallType BY Zenon, IdleCallType DEF CallType
    <2>2. c.pc = pc /\ c.tag = tag BY IdleCallType DEF CallType
    <2>3. c.next = "idle" /\ c.at = 0 /\ c.n = 0 /\ c.found = FALSE BY DEF IdleCall
    <2>4. call' = [call EXCEPT ![t] = c] BY <1>0 DEF Start
    <2> HIDE DEF c
    <2>5. Becomes(t, c.pc, c.tag, c.next, c.at, c.n, c.found) BY Zenon, <2>1, <2>4, SetCall
    <2>6. QED BY Zenon, <2>2, <2>3, <2>5 DEF Starts
  <1>1. "push" \in PCs /\ "weak" \in PCs /\ "rollback" \in PCs BY DEF PCs
  <1>2. QED BY Zenon, <1>0, <1>1, StartEffect, SameEffect DEF LazyLock, IncreaseRefused

(* A weak unlock takes a slot's lock or the lock manager's. *)
LEMMA UnlockWeakEffect ==
  ASSUME Shape, NEW t \in Thread, NEW tag \in Tag, UnlockWeak(t, tag)
  PROVE  /\ call[t].pc = "idle"
         /\ \/ /\ slot[t][PartOf[tag]].tag = tag
               /\ cnt' = [cnt EXCEPT ![t][PartOf[tag]] = @ - 1]
               /\ slot' = [slot EXCEPT ![t][PartOf[tag]] =
                             IF @.cnt = 1 THEN FreeSlot ELSE [tag |-> tag, cnt |-> @.cnt - 1]]
               /\ Pushes(t, "idle") \/ To(t, "idle")
               /\ UNCHANGED weak
            \/ /\ weak[t][tag] > 0
               /\ weak' = [weak EXCEPT ![t][tag] = @ - 1]
               /\ To(t, "idle")
               /\ UNCHANGED <<cnt, slot>>
  <1>1. "idle" \in PCs BY DEF PCs
  <1>2. QED BY <1>1, PushEffect, SameEffect DEF UnlockWeak

(* A strong lock starts with a push. *)
LEMMA LockStrongEffect ==
  ASSUME Shape, NEW t \in Thread, NEW tag \in Tag, LockStrong(t, tag)
  PROVE  call[t].pc = "idle" /\ t \in active /\ t \notin strong[tag] /\ Starts(t, "push", tag, "wait")
  BY Zenon, StartEffect DEF LockStrong, PCs

(* A strong unlock starts with the enable. *)
LEMMA UnlockStrongEffect ==
  ASSUME Shape, NEW t \in Thread, NEW tag \in Tag, UnlockStrong(t, tag)
  PROVE  call[t].pc = "idle" /\ t \in strong[tag] /\ Starts(t, "enable", tag, "unlock")
  BY Zenon, StartEffect DEF UnlockStrong, PCs

(* A free slot is a slot, and what a slot counts is a number. *)
LEMMA FreeSlotType == FreeSlot \in Slot /\ \A s \in Slot : s.cnt \in Nat
  BY DEF Slot, FreeSlot

\* Every step keeps the shape of the calls.
LEMMA ShapeStep == Shape /\ [Next]_vars => Shape'
  (* A step of t keeps the shape if it keeps that of t's own call. *)
  <1>Thread. ASSUME Shape, NEW t \in Thread, OwnCall(t), HintLockStep(t), CallShape(t)',
                    active' \subseteq Thread, slot' \in [Thread -> [Part -> Slot]]
             PROVE  Shape'
    <2> USE <1>Thread
    <2>1. \A u \in Thread \ {t} : CallShape(u)'
      <3> SUFFICES ASSUME NEW u \in Thread \ {t} PROVE CallShape(u)'
        OBVIOUS
      <3>1. call'[u] = call[u] /\ CallShape(u) BY DEF OwnCall, Shape
      <3>2. hintLock' = {u} <=> hintLock = {u} BY Zenon DEF HintLockStep
      <3>3. QED BY <3>1, <3>2 DEF CallShape, Walking
    <2>2. hintLock' = {} \/ \E u \in Thread : hintLock' = {u} BY DEF Shape, HintLockStep
    <2>3. QED BY <2>1, <2>2 DEF Shape, OwnCall
  (* The same, with the fields that Becomes gives. *)
  <1>Becomes. ASSUME Shape, NEW t \in Thread, NEW pc, NEW tag, NEW next, NEW at, NEW n, NEW found,
                     Becomes(t, pc, tag, next, at, n, found), FieldsShape(pc, tag, next, at),
                     HintLockStep(t), pc \in {"disabling", "enabling"} <=> hintLock' = {t},
                     active' \subseteq Thread, slot' \in [Thread -> [Part -> Slot]]
              PROVE  Shape'
    <2> USE <1>Becomes
    <2>1. CallShape(t)' BY DEF Becomes, CallShape, Walking
    <2>2. OwnCall(t) BY DEF Becomes
    <2>3. QED BY <2>1, <2>2, <1>Thread
  (* The same, for a step of a thread that does not walk. *)
  <1>Move. ASSUME Shape, NEW t \in Thread, NEW pc, NEW tag, NEW next, NEW at, NEW n, NEW found,
                  Becomes(t, pc, tag, next, at, n, found), FieldsShape(pc, tag, next, at),
                  ~ Walking(t), pc \notin {"disabling", "enabling"}, hintLock' = hintLock,
                  active' \subseteq Thread, slot' \in [Thread -> [Part -> Slot]]
           PROVE  Shape'
    <2> USE <1>Move
    <2>1. hintLock # {t} BY DEF Shape, CallShape
    <2>2. HintLockStep(t) BY DEF HintLockStep
    <2>3. QED BY <2>1, <2>2, <1>Becomes
  (* Continue, from a push. *)
  <1>Continues. ASSUME Shape, NEW t \in Thread, Continues(t), call[t].at = 0,
                       FieldsShape(call[t].next, call[t].tag, call[t].next, 0),
                       call[t].next \notin {"disabling", "enabling"},
                       ~ Walking(t), hintLock' = hintLock,
                       active' \subseteq Thread, slot' \in [Thread -> [Part -> Slot]]
                PROVE  Shape'
    <2> USE <1>Continues
    <2>1. CASE call[t].next = "idle"
      <3>1. FieldsShape("idle", NoTag, "idle", 0) BY DEF FieldsShape, WithTag
      <3>2. QED BY Zenon, <2>1, <3>1, <1>Move DEF Continues, Idles, Starts
    <2>2. CASE call[t].next # "idle"
      BY <2>2, <1>Move DEF Continues, To
    <2>3. QED BY <2>1, <2>2
  (* One slot changes. *)
  <1>Slot. ASSUME Shape, NEW t \in Thread, NEW p \in Part, NEW v \in Slot,
                  slot' = [slot EXCEPT ![t][p] = v]
           PROVE  /\ slot' \in [Thread -> [Part -> Slot]]
                  /\ slot'[t][p] = v
                  /\ \A u \in Thread, q \in Part : u # t \/ q # p => slot'[u][q] = slot[u][q]
    BY <1>Slot DEF Shape
  <1> SUFFICES ASSUME Shape, [Next]_vars PROVE Shape'
    OBVIOUS
  <1>1. CASE UNCHANGED vars
    BY <1>1 DEF vars, Shape, CallShape, Walking
  <1>2. \A t \in Thread : call[t] \in CallType /\ FieldsShape(call[t].pc, call[t].tag, call[t].next, call[t].at)
    BY DEF Shape, CallShape
  <1>3. ASSUME NEW t \in Thread, LazyLockRollback(t) PROVE Shape'
    <2>1. UNCHANGED <<hintLock, active, slot>> /\ active' \subseteq Thread /\ slot' \in [Thread -> [Part -> Slot]]
      BY <1>3 DEF LazyLockRollback, listVars, Shape
    <2>2. To(t, "weak") /\ ~ Walking(t) BY <1>3, LazyLockRollbackEffect DEF Walking
    <2>3. FieldsShape("weak", call[t].tag, call[t].next, call[t].at) BY <1>3, <1>2, LazyLockRollbackEffect DEF FieldsShape, WithTag
    <2>4. QED BY <2>1, <2>2, <2>3, <1>Move DEF To, Pushes, GivesUp, Starts, Idles
  <1>4. ASSUME NEW t \in Thread, WeakLock(t) PROVE Shape'
    <2>1. UNCHANGED <<hintLock, active, slot>> /\ active' \subseteq Thread /\ slot' \in [Thread -> [Part -> Slot]]
      BY <1>4 DEF WeakLock, listVars, Shape
    <2>2. Idles(t) /\ ~ Walking(t) BY <1>4, WeakLockEffect DEF Walking
    <2>3. FieldsShape("idle", NoTag, "idle", 0) BY <1>4, <1>2, WeakLockEffect DEF FieldsShape, WithTag
    <2>4. QED BY Zenon, <2>1, <2>2, <2>3, <1>Move DEF To, Pushes, GivesUp, Starts, Idles
  <1>5. ASSUME NEW t \in Thread, BeginLazyWait(t) PROVE Shape'
    <2>1. UNCHANGED <<hintLock, active, slot>> /\ active' \subseteq Thread /\ slot' \in [Thread -> [Part -> Slot]]
      BY <1>5 DEF BeginLazyWait, listVars, Shape
    <2>2. To(t, "disable") /\ ~ Walking(t) BY <1>5, BeginLazyWaitEffect DEF Walking
    <2>3. FieldsShape("disable", call[t].tag, call[t].next, call[t].at) BY <1>5, <1>2, BeginLazyWaitEffect DEF FieldsShape, WithTag
    <2>4. QED BY <2>1, <2>2, <2>3, <1>Move DEF To, Pushes, GivesUp, Starts, Idles
  <1>6. ASSUME NEW t \in Thread, LazyWaitEnds(t) PROVE Shape'
    <2>1. UNCHANGED <<hintLock, active, slot>> /\ active' \subseteq Thread /\ slot' \in [Thread -> [Part -> Slot]]
      BY <1>6 DEF LazyWaitEnds, listVars, Shape
    <2>2. To(t, "strong") /\ ~ Walking(t) BY <1>6, LazyWaitEndsEffect DEF Walking
    <2>3. FieldsShape("strong", call[t].tag, call[t].next, call[t].at) BY <1>6, <1>2, LazyWaitEndsEffect DEF FieldsShape, WithTag
    <2>4. QED BY <2>1, <2>2, <2>3, <1>Move DEF To, Pushes, GivesUp, Starts, Idles
  <1>7. ASSUME NEW t \in Thread, LazyWaitFails(t) PROVE Shape'
    <2>1. UNCHANGED <<hintLock, active, slot>> /\ active' \subseteq Thread /\ slot' \in [Thread -> [Part -> Slot]]
      BY <1>7 DEF LazyWaitFails, listVars, Shape
    <2>2. GivesUp(t) /\ ~ Walking(t) BY <1>7, LazyWaitFailsEffect DEF Walking
    <2>3. FieldsShape("enable", call[t].tag, "idle", call[t].at) BY <1>7, <1>2, LazyWaitFailsEffect DEF FieldsShape, WithTag
    <2>4. QED BY <2>1, <2>2, <2>3, <1>Move DEF To, Pushes, GivesUp, Starts, Idles
  <1>8. ASSUME NEW t \in Thread, PollWhileWaiting(t) PROVE Shape'
    <2>1. UNCHANGED <<hintLock, active, slot>> /\ active' \subseteq Thread /\ slot' \in [Thread -> [Part -> Slot]]
      BY <1>8 DEF PollWhileWaiting, listVars, Shape
    <2>2. Pushes(t, call[t].pc) /\ ~ Walking(t) BY <1>8, PollWhileWaitingEffect DEF Walking
    <2>3. FieldsShape("push", call[t].tag, call[t].pc, call[t].at) BY <1>8, <1>2, PollWhileWaitingEffect DEF FieldsShape, WithTag
    <2>4. QED BY <2>1, <2>2, <2>3, <1>Move DEF To, Pushes, GivesUp, Starts, Idles
  <1>9. ASSUME NEW t \in Thread, DecreaseLazyLockCnt(t) PROVE Shape'
    <2>1. UNCHANGED <<hintLock, active, slot>> /\ active' \subseteq Thread /\ slot' \in [Thread -> [Part -> Slot]]
      BY <1>9 DEF DecreaseLazyLockCnt, listVars, Shape
    <2>2. Becomes(t, "push", call[t].tag, call[t].next, 0, 0, call[t].found) /\ ~ Walking(t) BY <1>9, DecreaseLazyLockCntEffect DEF Walking
    <2>3. FieldsShape("push", call[t].tag, call[t].next, 0) BY <1>9, <1>2, DecreaseLazyLockCntEffect DEF FieldsShape, WithTag
    <2>4. QED BY <2>1, <2>2, <2>3, <1>Move DEF To, Pushes, GivesUp, Starts, Idles
  <1>10. ASSUME NEW t \in Thread, NEW tag \in Tag, LockStrong(t, tag) PROVE Shape'
    <2>1. UNCHANGED <<hintLock, active, slot>> /\ active' \subseteq Thread /\ slot' \in [Thread -> [Part -> Slot]]
      BY <1>10 DEF LockStrong, listVars, Shape
    <2>2. Starts(t, "push", tag, "wait") /\ ~ Walking(t) BY <1>10, LockStrongEffect DEF Walking
    <2>3. FieldsShape("push", tag, "wait", 0) BY <1>10, <1>2, LockStrongEffect DEF FieldsShape, WithTag
    <2>4. QED BY Zenon, <2>1, <2>2, <2>3, <1>Move DEF To, Pushes, GivesUp, Starts, Idles
  <1>11. ASSUME NEW t \in Thread, NEW tag \in Tag, UnlockStrong(t, tag) PROVE Shape'
    <2>1. UNCHANGED <<hintLock, active, slot>> /\ active' \subseteq Thread /\ slot' \in [Thread -> [Part -> Slot]]
      BY <1>11 DEF UnlockStrong, listVars, Shape
    <2>2. Starts(t, "enable", tag, "unlock") /\ ~ Walking(t) BY <1>11, UnlockStrongEffect DEF Walking
    <2>3. FieldsShape("enable", tag, "unlock", 0) BY <1>11, <1>2, UnlockStrongEffect DEF FieldsShape, WithTag
    <2>4. QED BY Zenon, <2>1, <2>2, <2>3, <1>Move DEF To, Pushes, GivesUp, Starts, Idles
  <1>12. ASSUME NEW t \in Thread, StrongLock(t) PROVE Shape'
    <2>1. UNCHANGED <<hintLock, active, slot>> /\ active' \subseteq Thread /\ slot' \in [Thread -> [Part -> Slot]]
      BY <1>12 DEF StrongLock, listVars, Shape
    <2>2. ~ Walking(t) /\ (Idles(t) \/ GivesUp(t)) BY <1>12, StrongLockEffect DEF Walking
    <2>3. FieldsShape("idle", NoTag, "idle", 0) BY DEF FieldsShape, WithTag
    <2>4. FieldsShape("enable", call[t].tag, "idle", call[t].at)
      BY <1>12, <1>2, StrongLockEffect DEF FieldsShape, WithTag
    <2>5. CASE Idles(t) BY Zenon, <2>1, <2>2, <2>3, <2>5, <1>Move DEF Starts, Idles
    <2>6. CASE GivesUp(t) BY <2>1, <2>2, <2>4, <2>6, <1>Move DEF GivesUp
    <2>7. QED BY <2>2, <2>5, <2>6
  <1>13. ASSUME NEW t \in Thread, UnlockInLockManager(t) PROVE Shape'
    <2>1. UNCHANGED <<hintLock, active, slot>> /\ active' \subseteq Thread /\ slot' \in [Thread -> [Part -> Slot]]
      BY <1>13 DEF UnlockInLockManager, listVars, Shape
    <2>2. ~ Walking(t) /\ (Idles(t) \/ Starts(t, "release", NoTag, "idle"))
      BY <1>13, UnlockInLockManagerEffect DEF Walking
    <2>3. FieldsShape("idle", NoTag, "idle", 0) /\ FieldsShape("release", NoTag, "idle", 0)
      BY DEF FieldsShape, WithTag
    <2>4. QED BY Zenon, <2>1, <2>2, <2>3, <1>Move DEF Starts, Idles
  <1>14. ASSUME NEW t \in Thread, WakeupAllRequests(t) PROVE Shape'
    <2>1. UNCHANGED <<hintLock, active, slot>> /\ active' \subseteq Thread /\ slot' \in [Thread -> [Part -> Slot]]
      BY <1>14 DEF WakeupAllRequests, listVars, Shape
    <2>2. ~ Walking(t) /\ Continues(t) /\ call[t].pc = "wake" BY <1>14, WakeupAllRequestsEffect DEF Walking
    <2>3. /\ call[t].at = 0 /\ FieldsShape(call[t].next, call[t].tag, call[t].next, 0)
          /\ call[t].next \notin {"disabling", "enabling"}
      BY <2>2, <1>2 DEF FieldsShape, WithTag
    <2>4. QED BY SMTT(20), <2>1, <2>2, <2>3, <1>Continues
  <1>15. ASSUME NEW t \in Thread, InsertSortArray(t) \/ RemoveSortArray(t) PROVE Shape'
    <2>1. UNCHANGED <<call, hintLock, slot>> /\ active' \subseteq Thread
      BY <1>15 DEF InsertSortArray, RemoveSortArray, listVars, Shape
    <2>2. QED BY SMTT(20), <2>1 DEF Shape, CallShape, Walking
  <1>16. ASSUME NEW t \in Thread, ReleaseAllLocks(t) PROVE Shape'
    <2>1. UNCHANGED <<hintLock, active, slot>> /\ active' \subseteq Thread /\ slot' \in [Thread -> [Part -> Slot]]
      BY Zenon, <1>16 DEF ReleaseAllLocks, listVars, Shape
    <2>2. ~ Walking(t) /\ call[t].pc \in {"idle", "release"} BY Zenon, <1>16 DEF ReleaseAllLocks, Walking
    <2>3. CASE To(t, "release")
      <3>1. FieldsShape("release", call[t].tag, call[t].next, call[t].at)
        BY <2>2, <1>2 DEF FieldsShape, WithTag
      <3>2. QED BY <2>1, <2>2, <2>3, <3>1, <1>Move DEF To
    <2>4. ASSUME NEW tag \in Tag, Becomes(t, "enable", tag, "unlock", call[t].at, call[t].n, call[t].found)
          PROVE  Shape'
      <3>1. FieldsShape("enable", tag, "unlock", call[t].at) BY <2>2, <1>2 DEF FieldsShape, WithTag
      <3>2. QED BY <2>1, <2>2, <2>4, <3>1, <1>Move
    <2>5. QED BY <1>16, <2>3, <2>4, ReleaseAllLocksEffect
  <1>17. ASSUME NEW t \in Thread, ReleaseAllLazyLocks(t) PROVE Shape'
    <2>1. UNCHANGED <<hintLock, active>> /\ active' \subseteq Thread
      BY <1>17 DEF ReleaseAllLazyLocks, listVars, Shape
    <2>2. ~ Walking(t) /\ call[t].pc = "release" BY <1>17 DEF ReleaseAllLazyLocks, Walking
    <2>3. slot' \in [Thread -> [Part -> Slot]]
      <3>1. CASE UNCHANGED slot BY <3>1 DEF Shape
      <3>2. ASSUME NEW p \in Part, slot' = [slot EXCEPT ![t][p] = FreeSlot]
            PROVE  slot' \in [Thread -> [Part -> Slot]]
        BY Zenon, <3>2, FreeSlotType, <1>Slot
      <3>3. QED BY <1>17, <3>1, <3>2, ReleaseAllLazyLocksEffect
    <2>4. FieldsShape("push", call[t].tag, "idle", call[t].at) BY <2>2, <1>2 DEF FieldsShape, WithTag
    <2>5. FieldsShape("idle", NoTag, "idle", 0) BY DEF FieldsShape, WithTag
    <2>6. FieldsShape("release", call[t].tag, call[t].next, call[t].at)
      BY SMTT(20), <2>2, <1>2 DEF FieldsShape, WithTag
    <2>7. CASE Pushes(t, "idle") BY <2>1, <2>2, <2>3, <2>4, <2>7, <1>Move DEF Pushes
    <2>8. CASE Idles(t) BY Zenon, <2>1, <2>2, <2>3, <2>5, <2>8, <1>Move DEF Starts, Idles
    <2>9. ASSUME NEW b \in BOOLEAN,
                 Becomes(t, "release", call[t].tag, call[t].next, call[t].at, call[t].n, b)
          PROVE  Shape'
      BY SMTT(20), <2>1, <2>2, <2>3, <2>6, <2>9, <1>Move
    <2>10. QED BY <1>17, <2>7, <2>8, <2>9, ReleaseAllLazyLocksEffect
  <1>18. ASSUME NEW t \in Thread, ActuallyAcquireLazyLocks(t) PROVE Shape'
    <2>1. UNCHANGED <<hintLock, active>> /\ active' \subseteq Thread
      BY Zenon, <1>18 DEF ActuallyAcquireLazyLocks, listVars, Shape
    <2>2. ~ Walking(t) /\ call[t].pc = "push" BY Zenon, <1>18 DEF ActuallyAcquireLazyLocks, Walking
    <2>3. slot' \in [Thread -> [Part -> Slot]]
      <3>1. CASE UNCHANGED slot BY <3>1 DEF Shape
      <3>2. ASSUME NEW p \in Part, slot' = [slot EXCEPT ![t][p] = FreeSlot]
            PROVE  slot' \in [Thread -> [Part -> Slot]]
        BY Zenon, <3>2, FreeSlotType, <1>Slot
      <3>3. QED BY SMTT(20), <1>18, <3>1, <3>2, ActuallyAcquireLazyLocksEffect
    <2>4. CASE To(t, "wake")
      <3>1. FieldsShape("wake", call[t].tag, call[t].next, call[t].at)
        BY SMTT(20), <2>2, <1>2 DEF FieldsShape, WithTag
      <3>2. QED BY SMTT(20), <2>1, <2>2, <2>3, <2>4, <3>1, <1>Move DEF To
    <2>5. CASE Continues(t)
      <3>1. /\ call[t].at = 0 /\ FieldsShape(call[t].next, call[t].tag, call[t].next, 0)
            /\ call[t].next \notin {"disabling", "enabling"}
        BY <2>2, <1>2 DEF FieldsShape, WithTag
      <3>2. QED BY SMTT(20), <2>1, <2>2, <2>3, <2>5, <3>1, <1>Continues
    <2>6. ASSUME NEW p \in Part,
                 Becomes(t, "decrease", call[t].tag, call[t].next, p, slot[t][p].cnt, call[t].found)
          PROVE  Shape'
      <3>1. FieldsShape("decrease", call[t].tag, call[t].next, p)
        BY <2>2, <1>2 DEF FieldsShape, WithTag
      <3>2. QED BY <2>1, <2>2, <2>3, <2>6, <3>1, <1>Move
    <2>7. QED BY <1>18, <2>4, <2>5, <2>6, ActuallyAcquireLazyLocksEffect
  <1>19. ASSUME NEW t \in Thread, DisableLazyLock(t) PROVE Shape'
    <2>1. UNCHANGED <<active, slot>> /\ active' \subseteq Thread /\ slot' \in [Thread -> [Part -> Slot]]
      BY SMTT(20), <1>19 DEF DisableLazyLock, Shape
    <2>2. /\ ~ Walking(t) /\ call[t].pc = "disable" /\ hintLock = {}
          /\ call[t].at = 0 /\ call[t].tag \in Tag
      BY <1>19, <1>2, DisableLazyLockEffect DEF Walking, FieldsShape, WithTag
    <2>3. CASE hintLock' = {t} /\ To(t, "disabling")
      <3>1. FieldsShape("disabling", call[t].tag, call[t].next, call[t].at)
        BY <2>2, OrderAssumption DEF FieldsShape, WithTag
      <3>2. HintLockStep(t) BY SMTT(20), <2>2, <2>3 DEF HintLockStep
      <3>3. QED BY <2>1, <2>3, <3>1, <3>2, <1>Becomes DEF To
    <2>4. ASSUME NEW pc \in {"lazywait", "strong"}, hintLock' = hintLock, To(t, pc) PROVE Shape'
      <3>1. FieldsShape(pc, call[t].tag, call[t].next, call[t].at) BY <2>2 DEF FieldsShape, WithTag
      <3>2. QED BY <2>1, <2>2, <2>4, <3>1, <1>Move DEF To
    <2>5. CASE hintLock' = hintLock /\ GivesUp(t)
      <3>1. FieldsShape("enable", call[t].tag, "idle", call[t].at) BY <2>2 DEF FieldsShape, WithTag
      <3>2. QED BY <2>1, <2>2, <2>5, <3>1, <1>Move DEF GivesUp
    <2>6. QED BY <1>19, <2>3, <2>4, <2>5, DisableLazyLockEffect
  <1>20. ASSUME NEW t \in Thread, DisableNextThread(t) PROVE Shape'
    <2>1. UNCHANGED <<active, slot>> /\ active' \subseteq Thread /\ slot' \in [Thread -> [Part -> Slot]]
      BY <1>20 DEF DisableNextThread, Shape
    <2>2. call[t].pc = "disabling" /\ hintLock = {t}
      BY Zenon, <1>20, DisableNextThreadEffect DEF Walking, Shape, CallShape
    <2>3. call[t].tag \in Tag /\ call[t].at \in Nat /\ Len(Order) \in Nat
      BY <2>2, <1>2, OrderAssumption DEF FieldsShape, WithTag, CallType
    <2>4. ASSUME call[t].at < Len(Order), hintLock' = hintLock, NEW b,
                 Becomes(t, "disabling", call[t].tag, call[t].next, call[t].at + 1, call[t].n, b)
          PROVE  Shape'
      <3>1. FieldsShape("disabling", call[t].tag, call[t].next, call[t].at + 1)
        BY <2>3, <2>4 DEF FieldsShape, WithTag
      <3>2. HintLockStep(t) BY <2>4 DEF HintLockStep
      <3>3. QED BY <2>1, <2>2, <2>4, <3>1, <3>2, <1>Becomes
    <2>5. ASSUME hintLock' = {},
                 NEW pc \in {"lazywait", "strong"}, Becomes(t, pc, call[t].tag, call[t].next, 0, call[t].n, FALSE)
          PROVE  Shape'
      <3>1. FieldsShape(pc, call[t].tag, call[t].next, 0) BY <2>3 DEF FieldsShape, WithTag
      <3>2. HintLockStep(t) BY <2>2, <2>5 DEF HintLockStep
      <3>3. QED BY Zenon, <2>1, <2>5, <3>1, <3>2, <1>Becomes
    <2>6. (IF call[t].found THEN "lazywait" ELSE "strong") \in {"lazywait", "strong"} OBVIOUS
    <2>7. QED BY Zenon, <1>20, <2>4, <2>5, <2>6, DisableNextThreadEffect
  <1>21. ASSUME NEW t \in Thread, EnableLazyLock(t) PROVE Shape'
    <2>1. UNCHANGED <<active, slot>> /\ active' \subseteq Thread /\ slot' \in [Thread -> [Part -> Slot]]
      BY SMTT(20), <1>21 DEF EnableLazyLock, Shape
    <2>2. /\ ~ Walking(t) /\ call[t].pc = "enable" /\ hintLock = {}
          /\ call[t].at = 0 /\ call[t].tag \in Tag /\ call[t].next \in {"idle", "unlock"}
      BY <1>21, <1>2, EnableLazyLockEffect DEF Walking, FieldsShape, WithTag
    <2>3. CASE hintLock' = {t} /\ To(t, "enabling")
      <3>1. FieldsShape("enabling", call[t].tag, call[t].next, call[t].at)
        BY <2>2, OrderAssumption DEF FieldsShape, WithTag
      <3>2. HintLockStep(t) BY <2>2, <2>3 DEF HintLockStep
      <3>3. QED BY <2>1, <2>3, <3>1, <3>2, <1>Becomes DEF To
    <2>4. CASE hintLock' = hintLock /\ Continues(t)
      <3>1. FieldsShape(call[t].next, call[t].tag, call[t].next, 0) BY <2>2 DEF FieldsShape, WithTag
      <3>2. QED BY <2>1, <2>2, <2>4, <3>1, <1>Continues
    <2>5. QED BY <1>21, <2>3, <2>4, EnableLazyLockEffect
  <1>22. ASSUME NEW t \in Thread, EnableNextThread(t) PROVE Shape'
    <2>1. UNCHANGED <<active, slot>> /\ active' \subseteq Thread /\ slot' \in [Thread -> [Part -> Slot]]
      BY <1>22 DEF EnableNextThread, Shape
    <2>2. call[t].pc = "enabling" /\ hintLock = {t}
      BY Zenon, <1>22, EnableNextThreadEffect DEF Walking, Shape, CallShape
    <2>3. /\ call[t].tag \in Tag /\ call[t].at \in Nat /\ Len(Order) \in Nat
          /\ call[t].next \in {"idle", "unlock"}
      BY <2>2, <1>2, OrderAssumption DEF FieldsShape, WithTag, CallType
    <2>4. ASSUME call[t].at < Len(Order), hintLock' = hintLock, NEW b,
                 Becomes(t, "enabling", call[t].tag, call[t].next, call[t].at + 1, call[t].n, b)
          PROVE  Shape'
      <3>1. FieldsShape("enabling", call[t].tag, call[t].next, call[t].at + 1)
        BY <2>3, <2>4 DEF FieldsShape, WithTag
      <3>2. HintLockStep(t) BY <2>4 DEF HintLockStep
      <3>3. QED BY <2>1, <2>2, <2>4, <3>1, <3>2, <1>Becomes
    <2>5. CASE hintLock' = {}
      <3>1. HintLockStep(t) BY <2>2, <2>5 DEF HintLockStep
      <3>2. CASE Idles(t)
        <4>1. FieldsShape("idle", NoTag, "idle", 0) BY DEF FieldsShape, WithTag
        <4>2. QED BY Zenon, <2>1, <2>5, <3>1, <3>2, <4>1, <1>Becomes DEF Idles, Starts
      <3>3. CASE call[t].next # "idle" /\
                 Becomes(t, call[t].next, call[t].tag, call[t].next, 0, call[t].n, call[t].found)
        <4>1. FieldsShape(call[t].next, call[t].tag, call[t].next, 0) BY <2>3 DEF FieldsShape, WithTag
        <4>2. QED BY SMTT(20), <2>1, <2>3, <2>5, <3>1, <3>3, <4>1, <1>Becomes
      <3>4. hintLock' # hintLock BY <2>2, <2>5
      <3>5. QED BY Zenon, <1>22, <3>2, <3>3, <3>4, EnableNextThreadEffect
    <2>6. QED BY Zenon, <1>22, <2>4, <2>5, EnableNextThreadEffect
  <1>23. ASSUME NEW t \in Thread, NEW tag \in Tag, LazyLock(t, tag) PROVE Shape'
    <2>1. UNCHANGED <<hintLock, active>> /\ active' \subseteq Thread
      BY <1>23 DEF LazyLock, listVars, Shape
    <2>2. ~ Walking(t) /\ call[t].pc = "idle" /\ call[t].at = 0
      BY Zenon, <1>23, <1>2, LazyLockEffect DEF Walking, FieldsShape
    <2>3. slot' \in [Thread -> [Part -> Slot]]
      <3>1. CASE UNCHANGED slot BY <3>1 DEF Shape
      <3>2. CASE slot' = [slot EXCEPT ![t][PartOf[tag]] = [tag |-> tag, cnt |-> @.cnt + 1]]
        <4>1. PartOf[tag] \in Part BY LazyAssumption
        <4>2. slot[t][PartOf[tag]] \in Slot BY <4>1 DEF Shape
        <4>3. slot[t][PartOf[tag]].cnt \in Nat BY <4>2 DEF Slot, FreeSlot
        <4>4. [tag |-> tag, cnt |-> slot[t][PartOf[tag]].cnt + 1] \in Slot BY <4>3 DEF Slot
        <4>5. slot' = [slot EXCEPT ![t][PartOf[tag]] = [tag |-> tag, cnt |-> slot[t][PartOf[tag]].cnt + 1]]
          BY Zenon, <3>2
        <4> DEFINE new == [tag |-> tag, cnt |-> slot[t][PartOf[tag]].cnt + 1]
                   p == PartOf[tag]
        <4>6. new \in Slot /\ p \in Part /\ slot' = [slot EXCEPT ![t][p] = new] BY <4>1, <4>4, <4>5
        <4> HIDE DEF new, p
        <4>7. QED BY Zenon, <4>6, <1>Slot
      <3>3. QED BY <1>23, <3>1, <3>2, LazyLockEffect
    <2>4. CASE Starts(t, "push", tag, "weak")
      <3>1. FieldsShape("push", tag, "weak", 0) BY DEF FieldsShape, WithTag
      <3>2. Becomes(t, "push", tag, "weak", 0, 0, FALSE) BY Zenon, <2>4 DEF Starts
      <3>3. hintLock' = hintLock /\ ~ Walking(t) BY <2>1, <2>2
      <3>4. QED BY Zenon, <2>1, <2>3, <3>1, <3>2, <3>3, <1>Move
    <2>5. CASE Starts(t, "rollback", tag, "idle")
      <3>1. FieldsShape("rollback", tag, "idle", 0) BY DEF FieldsShape, WithTag
      <3>2. Becomes(t, "rollback", tag, "idle", 0, 0, FALSE) BY Zenon, <2>5 DEF Starts
      <3>3. hintLock' = hintLock /\ ~ Walking(t) BY <2>1, <2>2
      <3>4. QED BY Zenon, <2>1, <2>3, <3>1, <3>2, <3>3, <1>Move
    <2>6. CASE To(t, "idle")
      <3>1. FieldsShape("idle", call[t].tag, call[t].next, call[t].at) BY <2>2 DEF FieldsShape, WithTag
      <3>2. QED BY <2>1, <2>2, <2>3, <2>6, <3>1, <1>Move DEF To
    <2>7. QED BY Zenon, <1>23, <2>4, <2>5, <2>6, LazyLockEffect
  <1>24. ASSUME NEW t \in Thread, NEW tag \in Tag, UnlockWeak(t, tag) PROVE Shape'
    <2>1. UNCHANGED <<hintLock, active>> /\ active' \subseteq Thread
      BY <1>24 DEF UnlockWeak, listVars, Shape
    <2>2. ~ Walking(t) /\ call[t].pc = "idle" /\ call[t].at = 0
      BY Zenon, <1>24, <1>2, UnlockWeakEffect DEF Walking, FieldsShape
    <2>3. slot' \in [Thread -> [Part -> Slot]]
      <3>1. CASE UNCHANGED slot BY <3>1 DEF Shape
      <3>2. CASE /\ slot[t][PartOf[tag]].tag = tag
                 /\ slot' = [slot EXCEPT ![t][PartOf[tag]] =
                               IF @.cnt = 1 THEN FreeSlot ELSE [tag |-> tag, cnt |-> @.cnt - 1]]
        <4> DEFINE old == slot[t][PartOf[tag]]
                   new == IF old.cnt = 1 THEN FreeSlot ELSE [tag |-> tag, cnt |-> old.cnt - 1]
        <4>1. PartOf[tag] \in Part BY LazyAssumption
        <4>2. old \in Slot BY <4>1 DEF Shape
        <4>3. old # FreeSlot BY <3>2, LazyAssumption DEF FreeSlot
        <4>4. old \in [tag : Tag, cnt : Nat \ {0}] BY <4>2, <4>3 DEF Slot
        <4>5. new \in Slot BY <4>4 DEF Slot
        <4>6. slot' = [slot EXCEPT ![t][PartOf[tag]] = new] BY Zenon, <3>2
        <4> HIDE DEF new, old
        <4>7. QED BY Zenon, <4>1, <4>5, <4>6, <1>Slot
      <3>3. QED BY <1>24, <3>1, <3>2, UnlockWeakEffect
    <2>4. CASE Pushes(t, "idle")
      <3>1. FieldsShape("push", call[t].tag, "idle", call[t].at) BY <2>2 DEF FieldsShape, WithTag
      <3>2. QED BY SMTT(20), <2>1, <2>2, <2>3, <2>4, <3>1, <1>Move DEF Pushes
    <2>5. CASE To(t, "idle")
      <3>1. FieldsShape("idle", call[t].tag, call[t].next, call[t].at) BY <2>2 DEF FieldsShape, WithTag
      <3>2. QED BY <2>1, <2>2, <2>3, <2>5, <3>1, <1>Move DEF To
    <2>6. QED BY Zenon, <1>24, <2>4, <2>5, UnlockWeakEffect
  <1>25. QED
    BY SMTT(20), <1>1, <1>3, <1>4, <1>5, <1>6, <1>7, <1>8, <1>9, <1>10, <1>11, <1>12, <1>13, <1>14, <1>15, <1>16, <1>17, <1>18, <1>19, <1>20, <1>21, <1>22, <1>23, <1>24 DEF Next, CallStep

-----------------------------------------------------------------------------
(* Counts.                                                                 *)

CountOf(t) ==
  \A p \in Part :
    cnt[t][p] = slot[t][p].cnt
                + (IF call[t].pc = "decrease" /\ call[t].at = p THEN call[t].n ELSE 0)
                + (IF call[t].pc = "rollback" /\ CallPart(t) = p THEN 1 ELSE 0)

(* A step of t leaves alone what the other threads hold. *)
OwnLocks(t) ==
  /\ cnt' \in [Thread -> [Part -> Int]]
  /\ weak' \in [Thread -> [Tag -> Nat]]
  /\ strong' \in [Tag -> SUBSET Thread]
  /\ \A u \in Thread \ {t} :
       /\ cnt'[u] = cnt[u] /\ slot'[u] = slot[u] /\ weak'[u] = weak[u]
       /\ \A tag \in Tag : u \in strong'[tag] <=> u \in strong[tag]

(* What a slot counts is a number. *)
LEMMA SlotCount ==
  ASSUME Shape, NEW t \in Thread, NEW p \in Part
  PROVE  slot[t][p].cnt \in Nat
  <1>1. slot[t][p] \in Slot BY Zenon DEF Shape
  <1>2. QED BY Zenon, <1>1, FreeSlotType

(* The same of a strong lock. *)
LEMMA SetStrong ==
  ASSUME Counts, NEW t \in Thread, NEW tag \in Tag,
         \/ strong' = [strong EXCEPT ![tag] = @ \cup {t}]
         \/ strong' = [strong EXCEPT ![tag] = @ \ {t}]
  PROVE  /\ strong' \in [Tag -> SUBSET Thread]
         /\ \A u \in Thread \ {t}, g \in Tag : u \in strong'[g] <=> u \in strong[g]
  <1>1. strong[tag] \subseteq Thread /\ strong \in [Tag -> SUBSET Thread] BY DEF Counts
  <1>2. CASE strong' = [strong EXCEPT ![tag] = @ \cup {t}] BY <1>1, <1>2
  <1>3. CASE strong' = [strong EXCEPT ![tag] = @ \ {t}] BY SMTT(20), <1>1, <1>3
  <1>4. QED BY <1>2, <1>3

\* Every step keeps the counts.
LEMMA CountsStep == Shape /\ Shape' /\ Counts /\ [Next]_vars => Counts'
  (* A step of t keeps the counts if it keeps t's own. *)
  <1>Thread. ASSUME Shape, Shape', Counts, NEW t \in Thread, OwnCall(t), OwnLocks(t), CountOf(t)',
                    \A u \in Thread \ {t} : u \in active' <=> u \in active,
                    t \in active' \/ Away(t)'
             PROVE  Counts'
    <2> USE <1>Thread
    <2>1. \A u \in Thread \ {t} : CountOf(u)'
      <3> SUFFICES ASSUME NEW u \in Thread \ {t} PROVE CountOf(u)'
        OBVIOUS
      <3>1. CountOf(u) BY Zenon DEF Counts, CountMatchesSlots, CountOf
      <3>2. call'[u] = call[u] /\ cnt'[u] = cnt[u] /\ slot'[u] = slot[u] BY DEF OwnCall, OwnLocks
      <3>3. QED BY <3>1, <3>2 DEF CountOf, CallPart
    <2>2. \A u \in Thread : CountOf(u)' BY SMTT(20), <2>1
    <2>3. CountMatchesSlots' BY SMTT(20), <2>2 DEF CountMatchesSlots, CountOf
    <2>4. \A u \in Thread, p \in Part : cnt'[u][p] \in Nat
      <3> SUFFICES ASSUME NEW u \in Thread, NEW p \in Part PROVE cnt'[u][p] \in Nat
        OBVIOUS
      <3>1. slot'[u][p].cnt \in Nat
        <4>1. slot'[u][p] \in Slot BY Zenon DEF Shape
        <4>2. QED BY Zenon, <4>1, FreeSlotType
      <3>2. call'[u].n \in Nat BY SMTT(20) DEF Shape, CallType
      <3>3. cnt'[u][p] = slot'[u][p].cnt
                  + (IF call'[u].pc = "decrease" /\ call'[u].at = p THEN call'[u].n ELSE 0)
                  + (IF call'[u].pc = "rollback" /\ CallPart(u)' = p THEN 1 ELSE 0)
        BY <2>2 DEF CountOf
      <3>4. QED BY SMTT(20), <3>1, <3>2, <3>3
    <2>5. cnt' \in [Thread -> [Part -> Nat]] BY <2>4 DEF OwnLocks
    <2>6. \A u \in Thread \ active' : Away(u)'
      <3> SUFFICES ASSUME NEW u \in Thread \ active' PROVE Away(u)'
        OBVIOUS
      <3>1. CASE u = t BY SMTT(20), <3>1
      <3>2. CASE u # t
        <4>1. Away(u) BY <3>2 DEF Counts
        <4>2. QED BY Zenon, <3>2, <4>1 DEF Away, OwnCall, OwnLocks
      <3>3. QED BY <3>1, <3>2
    <2>7. QED BY SMTT(20), <2>3, <2>5, <2>6 DEF Counts, OwnLocks
  (* A thread that is doing something is registered. *)
  <1>Registers. ASSUME Counts, NEW t \in Thread,
                       \/ call[t].pc # "idle"
                       \/ \E p \in Part : slot[t][p] # FreeSlot
                       \/ \E tag \in Tag : weak[t][tag] # 0 \/ t \in strong[tag]
                PROVE  t \in active
    BY <1>Registers DEF Counts, Away
  (* The steps that change neither counts nor slots. *)
  <1>Quiet. ASSUME Shape, Shape', Counts, NEW t \in Thread, OwnCall(t), UNCHANGED <<cnt, slot, active>>,
                   weak' \in [Thread -> [Tag -> Nat]], strong' \in [Tag -> SUBSET Thread],
                   \A u \in Thread \ {t} :
                     weak'[u] = weak[u] /\ \A tag \in Tag : u \in strong'[tag] <=> u \in strong[tag],
                   t \in active, {call[t].pc, call'[t].pc} \cap {"decrease", "rollback"} = {}
            PROVE  Counts'
    <2> USE <1>Quiet
    <2>1. CountOf(t) BY DEF Counts, CountMatchesSlots, CountOf
    <2>2. CountOf(t)' BY Zenon, <2>1 DEF CountOf
    <2>3. OwnLocks(t) BY DEF OwnLocks, Counts
    <2>4. QED BY <2>2, <2>3, <1>Thread
  (* One thread's weak or strong lock changes. *)
  <1>Weak. ASSUME Counts, NEW t \in Thread, NEW tag \in Tag, NEW v \in Nat, weak' = [weak EXCEPT ![t][tag] = v]
           PROVE  weak' \in [Thread -> [Tag -> Nat]] /\ \A u \in Thread \ {t} : weak'[u] = weak[u]
    BY <1>Weak DEF Counts
  (* One thread's count changes. *)
  <1>Cnt. ASSUME Counts, NEW t \in Thread, NEW p \in Part, NEW v \in Int, cnt' = [cnt EXCEPT ![t][p] = v]
          PROVE  /\ cnt' \in [Thread -> [Part -> Int]] /\ \A u \in Thread \ {t} : cnt'[u] = cnt[u]
                 /\ cnt'[t][p] = v /\ \A q \in Part \ {p} : cnt'[t][q] = cnt[t][q]
    BY <1>Cnt DEF Counts
  (* A count and its slot change together. *)
  <1>Together. ASSUME Shape, Shape', Counts, NEW t \in Thread, NEW p \in Part, OwnCall(t), t \in active,
                      UNCHANGED <<active, strong>>,
                      weak' \in [Thread -> [Tag -> Nat]], \A u \in Thread \ {t} : weak'[u] = weak[u],
                      NEW v \in Int, cnt' = [cnt EXCEPT ![t][p] = v], NEW s \in Slot,
                      slot' = [slot EXCEPT ![t][p] = s], v - cnt[t][p] = s.cnt - slot[t][p].cnt,
                      {call[t].pc, call'[t].pc} \cap {"decrease", "rollback"} = {}
               PROVE  Counts'
    <2> USE <1>Together
    <2>1. /\ cnt' \in [Thread -> [Part -> Int]] /\ \A u \in Thread \ {t} : cnt'[u] = cnt[u]
          /\ cnt'[t][p] = v /\ \A q \in Part \ {p} : cnt'[t][q] = cnt[t][q]
      BY Zenon, <1>Cnt
    <2>2. /\ slot'[t][p] = s
          /\ \A u \in Thread, q \in Part : u # t \/ q # p => slot'[u][q] = slot[u][q]
      BY DEF Shape
    <2>3. \A q \in Part : cnt[t][q] = slot[t][q].cnt /\ slot[t][q].cnt \in Nat
      <3> SUFFICES ASSUME NEW q \in Part PROVE cnt[t][q] = slot[t][q].cnt /\ slot[t][q].cnt \in Nat
        OBVIOUS
      <3>1. cnt[t][q] = slot[t][q].cnt + 0 + 0 BY Zenon DEF Counts, CountMatchesSlots
      <3>2. QED BY SMTT(20), <3>1, SlotCount
    <2>4. \A q \in Part : cnt'[t][q] = slot'[t][q].cnt
      <3> SUFFICES ASSUME NEW q \in Part PROVE cnt'[t][q] = slot'[t][q].cnt
        BY SMTT(20)
      <3>1. CASE q # p BY SMTT(20), <3>1, <2>1, <2>2, <2>3
      <3>2. CASE q = p
        <4>1. s.cnt \in Nat BY SMTT(20) DEF Slot, FreeSlot
        <4>2. cnt[t][p] = slot[t][p].cnt /\ slot[t][p].cnt \in Nat BY <2>3
        <4>3. v \in Int /\ v - cnt[t][p] = s.cnt - slot[t][p].cnt OBVIOUS
        <4>4. v = s.cnt BY ONLY <4>1, <4>2, <4>3
        <4>5. QED BY SMTT(20), <3>2, <4>4, <2>1, <2>2
      <3>3. QED BY <3>1, <3>2
    <2>5. CountOf(t)'
      <3> SUFFICES ASSUME NEW q \in Part PROVE cnt'[t][q] = slot'[t][q].cnt + 0 + 0
        BY Zenon DEF CountOf
      <3>1. cnt'[t][q] \in Int BY <2>1
      <3>2. QED BY <2>4, <3>1
    <2>6. \A u \in Thread \ {t} : slot'[u] = slot[u]
      BY SMTT(20) DEF Shape
    <2>7. OwnLocks(t) BY <2>1, <2>6 DEF OwnLocks, Counts
    <2>8. QED BY <2>5, <2>7, <1>Thread
  <1> SUFFICES ASSUME Shape, Shape', Counts, [Next]_vars PROVE Counts'
    BY SMTT(20)
  <1>1. CASE UNCHANGED vars
    BY <1>1 DEF vars, Counts, Away, CountMatchesSlots, CallPart
  <1>2. \A t \in Thread : call[t] \in CallType /\ FieldsShape(call[t].pc, call[t].tag, call[t].next, call[t].at)
    BY SMTT(20) DEF Shape, CallShape
  <1>3. ASSUME NEW t \in Thread, BeginLazyWait(t) PROVE Counts'
    <2>1. UNCHANGED <<cnt, slot, active>> /\ UNCHANGED <<weak, strong>>
      BY SMTT(20), <1>3 DEF BeginLazyWait, hintVars, lockVars
    <2>2. OwnCall(t) /\ t \in active /\ {call[t].pc, call'[t].pc} \cap {"decrease", "rollback"} = {}
      BY <1>3, <1>2, BeginLazyWaitEffect, <1>Registers DEF Becomes, To, Pushes, GivesUp, Starts, Idles, Continues, FieldsShape
    <2>3. QED BY SMTT(20), <2>1, <2>2, <1>Quiet DEF Counts
  <1>4. ASSUME NEW t \in Thread, DisableLazyLock(t) PROVE Counts'
    <2>1. UNCHANGED <<cnt, slot, active>> /\ UNCHANGED <<weak, strong>>
      BY <1>4 DEF DisableLazyLock, hintVars, lockVars
    <2>2. OwnCall(t) /\ t \in active /\ {call[t].pc, call'[t].pc} \cap {"decrease", "rollback"} = {}
      BY ZenonT(40), <1>4, <1>2, DisableLazyLockEffect, <1>Registers DEF Becomes, To, Pushes, GivesUp, Starts, Idles, Continues, FieldsShape
    <2>3. QED BY <2>1, <2>2, <1>Quiet DEF Counts
  <1>5. ASSUME NEW t \in Thread, DisableNextThread(t) PROVE Counts'
    <2>1. UNCHANGED <<cnt, slot, active>> /\ UNCHANGED <<weak, strong>>
      BY <1>5 DEF DisableNextThread, hintVars, lockVars
    <2>2. OwnCall(t) /\ t \in active /\ {call[t].pc, call'[t].pc} \cap {"decrease", "rollback"} = {}
      BY Zenon, <1>5, <1>2, DisableNextThreadEffect, <1>Registers DEF Becomes, To, Pushes, GivesUp, Starts, Idles, Continues, FieldsShape
    <2>3. QED BY <2>1, <2>2, <1>Quiet DEF Counts
  <1>6. ASSUME NEW t \in Thread, LazyWaitEnds(t) PROVE Counts'
    <2>1. UNCHANGED <<cnt, slot, active>> /\ UNCHANGED <<weak, strong>>
      BY SMTT(20), <1>6 DEF LazyWaitEnds, hintVars, lockVars
    <2>2. OwnCall(t) /\ t \in active /\ {call[t].pc, call'[t].pc} \cap {"decrease", "rollback"} = {}
      BY <1>6, <1>2, LazyWaitEndsEffect, <1>Registers DEF Becomes, To, Pushes, GivesUp, Starts, Idles, Continues, FieldsShape
    <2>3. QED BY Zenon, <2>1, <2>2, <1>Quiet DEF Counts
  <1>7. ASSUME NEW t \in Thread, LazyWaitFails(t) PROVE Counts'
    <2>1. UNCHANGED <<cnt, slot, active>> /\ UNCHANGED <<weak, strong>>
      BY SMTT(20), <1>7 DEF LazyWaitFails, hintVars, lockVars
    <2>2. OwnCall(t) /\ t \in active /\ {call[t].pc, call'[t].pc} \cap {"decrease", "rollback"} = {}
      BY <1>7, <1>2, LazyWaitFailsEffect, <1>Registers DEF Becomes, To, Pushes, GivesUp, Starts, Idles, Continues, FieldsShape
    <2>3. QED BY Zenon, <2>1, <2>2, <1>Quiet DEF Counts
  <1>8. ASSUME NEW t \in Thread, PollWhileWaiting(t) PROVE Counts'
    <2>1. UNCHANGED <<cnt, slot, active>> /\ UNCHANGED <<weak, strong>>
      BY Zenon, <1>8 DEF PollWhileWaiting, hintVars, lockVars
    <2>2. OwnCall(t) /\ t \in active /\ {call[t].pc, call'[t].pc} \cap {"decrease", "rollback"} = {}
      BY ZenonT(40), <1>8, <1>2, PollWhileWaitingEffect, <1>Registers DEF Becomes, To, Pushes, GivesUp, Starts, Idles, Continues, FieldsShape
    <2>3. QED BY Zenon, <2>1, <2>2, <1>Quiet DEF Counts
  <1>9. ASSUME NEW t \in Thread, EnableLazyLock(t) PROVE Counts'
    <2>1. UNCHANGED <<cnt, slot, active>> /\ UNCHANGED <<weak, strong>>
      BY <1>9 DEF EnableLazyLock, hintVars, lockVars
    <2>2. OwnCall(t) /\ t \in active /\ {call[t].pc, call'[t].pc} \cap {"decrease", "rollback"} = {}
      BY Zenon, <1>9, <1>2, EnableLazyLockEffect, <1>Registers DEF Becomes, To, Pushes, GivesUp, Starts, Idles, Continues, FieldsShape
    <2>3. QED BY Zenon, <2>1, <2>2, <1>Quiet DEF Counts
  <1>10. ASSUME NEW t \in Thread, EnableNextThread(t) PROVE Counts'
    <2>1. UNCHANGED <<cnt, slot, active>> /\ UNCHANGED <<weak, strong>>
      BY <1>10 DEF EnableNextThread, hintVars, lockVars
    <2>2. OwnCall(t) /\ t \in active /\ {call[t].pc, call'[t].pc} \cap {"decrease", "rollback"} = {}
      BY ZenonT(40), <1>10, <1>2, EnableNextThreadEffect, <1>Registers DEF Becomes, To, Pushes, GivesUp, Starts, Idles, Continues, FieldsShape
    <2>3. QED BY Zenon, <2>1, <2>2, <1>Quiet DEF Counts
  <1>11. ASSUME NEW t \in Thread, WakeupAllRequests(t) PROVE Counts'
    <2>1. UNCHANGED <<cnt, slot, active>> /\ UNCHANGED <<weak, strong>>
      BY Zenon, <1>11 DEF WakeupAllRequests, hintVars, lockVars
    <2>2. OwnCall(t) /\ t \in active /\ {call[t].pc, call'[t].pc} \cap {"decrease", "rollback"} = {}
      BY Zenon, <1>11, <1>2, WakeupAllRequestsEffect, <1>Registers DEF Becomes, To, Pushes, GivesUp, Starts, Idles, Continues, FieldsShape
    <2>3. QED BY Zenon, <2>1, <2>2, <1>Quiet DEF Counts
  <1>12. ASSUME NEW t \in Thread, NEW tag \in Tag, LockStrong(t, tag) PROVE Counts'
    <2>1. UNCHANGED <<cnt, slot, active>> /\ UNCHANGED <<weak, strong>>
      BY <1>12 DEF LockStrong, hintVars, lockVars
    <2>2. OwnCall(t) /\ t \in active /\ {call[t].pc, call'[t].pc} \cap {"decrease", "rollback"} = {}
      BY Zenon, <1>12, <1>2, LockStrongEffect, <1>Registers DEF Becomes, To, Pushes, GivesUp, Starts, Idles, Continues, FieldsShape
    <2>3. QED BY Zenon, <2>1, <2>2, <1>Quiet DEF Counts
  <1>13. ASSUME NEW t \in Thread, NEW tag \in Tag, UnlockStrong(t, tag) PROVE Counts'
    <2>1. UNCHANGED <<cnt, slot, active>> /\ UNCHANGED <<weak, strong>>
      BY <1>13 DEF UnlockStrong, hintVars, lockVars
    <2>2. OwnCall(t) /\ t \in active /\ {call[t].pc, call'[t].pc} \cap {"decrease", "rollback"} = {}
      BY Zenon, <1>13, <1>2, UnlockStrongEffect, <1>Registers DEF Becomes, To, Pushes, GivesUp, Starts, Idles, Continues, FieldsShape
    <2>3. QED BY Zenon, <2>1, <2>2, <1>Quiet DEF Counts
  <1>14. ASSUME NEW t \in Thread, WeakLock(t) PROVE Counts'
    <2>1. UNCHANGED <<cnt, slot, active>> /\ UNCHANGED strong
      BY <1>14 DEF WeakLock, hintVars, lockVars
    <2>2. OwnCall(t) /\ t \in active /\ {call[t].pc, call'[t].pc} \cap {"decrease", "rollback"} = {}
      BY Zenon, <1>14, <1>2, WeakLockEffect, <1>Registers DEF Becomes, To, Pushes, GivesUp, Starts, Idles, Continues, FieldsShape
    <2>3. call[t].tag \in Tag BY Zenon, <1>14, <1>2, WeakLockEffect DEF FieldsShape, WithTag
    <2>4. weak' \in [Thread -> [Tag -> Nat]] /\ \A u \in Thread \ {t} : weak'[u] = weak[u]
      <3>1. CASE UNCHANGED weak BY <3>1 DEF Counts
      <3>2. CASE weak' = [weak EXCEPT ![t][call[t].tag] = @ + 1]
        <4>1. weak[t][call[t].tag] + 1 \in Nat BY <2>3 DEF Counts
        <4>2. QED BY Zenon, <2>3, <3>2, <4>1, <1>Weak
      <3>3. QED BY <1>14, <3>1, <3>2 DEF WeakLock
    <2>5. QED BY Zenon, <2>1, <2>2, <2>4, <1>Quiet DEF Counts
  <1>15. ASSUME NEW t \in Thread, ReleaseAllLocks(t) PROVE Counts'
    <2>1. UNCHANGED <<cnt, slot, active>> /\ UNCHANGED strong
      BY Zenon, <1>15 DEF ReleaseAllLocks, hintVars, lockVars
    <2>2. OwnCall(t) /\ t \in active /\ {call[t].pc, call'[t].pc} \cap {"decrease", "rollback"} = {}
      <3>1. OwnCall(t) /\ call[t].pc \in {"idle", "release"} /\ call'[t].pc \in {"release", "enable"}
        BY Zenon, <1>15, ReleaseAllLocksEffect DEF Becomes, To
      <3>2. HoldsInLockManager(t) => \E tag \in Tag : weak[t][tag] # 0 \/ t \in strong[tag]
        BY DEF HoldsInLockManager, Counts
      <3>3. call[t].pc = "idle" => HoldsInLockManager(t) \/ HoldsLazily(t) BY <1>15 DEF ReleaseAllLocks
      <3>4. t \in active BY <3>2, <3>3, <1>Registers DEF HoldsLazily
      <3>5. QED BY <3>1, <3>4
    <2>3. weak' \in [Thread -> [Tag -> Nat]] /\ \A u \in Thread \ {t} : weak'[u] = weak[u]
      <3>1. CASE UNCHANGED weak BY <3>1 DEF Counts
      <3>2. ASSUME NEW tag \in Tag, weak' = [weak EXCEPT ![t][tag] = 0]
            PROVE  weak' \in [Thread -> [Tag -> Nat]] /\ \A u \in Thread \ {t} : weak'[u] = weak[u]
        BY Zenon, <3>2, <1>Weak
      <3>3. QED BY Zenon, <1>15, <3>1, <3>2 DEF ReleaseAllLocks
    <2>4. QED BY Zenon, <2>1, <2>2, <2>3, <1>Quiet DEF Counts
  <1>16. ASSUME NEW t \in Thread, StrongLock(t) PROVE Counts'
    <2>1. UNCHANGED <<cnt, slot, active>> /\ UNCHANGED weak
      BY <1>16 DEF StrongLock, hintVars, lockVars
    <2>2. OwnCall(t) /\ t \in active /\ {call[t].pc, call'[t].pc} \cap {"decrease", "rollback"} = {}
      BY Zenon, <1>16, <1>2, StrongLockEffect, <1>Registers DEF Becomes, To, Pushes, GivesUp, Starts, Idles, Continues, FieldsShape
    <2>3. call[t].tag \in Tag BY Zenon, <1>16, <1>2, StrongLockEffect DEF FieldsShape, WithTag
    <2>4. /\ strong' \in [Tag -> SUBSET Thread]
          /\ \A u \in Thread \ {t}, tag \in Tag : u \in strong'[tag] <=> u \in strong[tag]
      <3>1. CASE UNCHANGED strong BY <3>1 DEF Counts
      <3>2. CASE strong' = [strong EXCEPT ![call[t].tag] = @ \cup {t}] BY Zenon, <2>3, <3>2, SetStrong
      <3>3. QED BY <1>16, <3>1, <3>2 DEF StrongLock
    <2>5. QED BY Zenon, <2>1, <2>2, <2>4, <1>Quiet DEF Counts
  <1>17. ASSUME NEW t \in Thread, UnlockInLockManager(t) PROVE Counts'
    <2>1. UNCHANGED <<cnt, slot, active>> /\ UNCHANGED weak
      BY <1>17 DEF UnlockInLockManager, hintVars, lockVars
    <2>2. OwnCall(t) /\ t \in active /\ {call[t].pc, call'[t].pc} \cap {"decrease", "rollback"} = {}
      BY Zenon, <1>17, <1>2, UnlockInLockManagerEffect, <1>Registers DEF Becomes, To, Pushes, GivesUp, Starts, Idles, Continues, FieldsShape
    <2>3. call[t].tag \in Tag BY Zenon, <1>17, <1>2, UnlockInLockManagerEffect DEF FieldsShape, WithTag
    <2>4. /\ strong' \in [Tag -> SUBSET Thread]
          /\ \A u \in Thread \ {t}, tag \in Tag : u \in strong'[tag] <=> u \in strong[tag]
      BY Zenon, <1>17, <2>3, SetStrong DEF UnlockInLockManager
    <2>5. QED BY Zenon, <2>1, <2>2, <2>4, <1>Quiet DEF Counts
  <1>18. ASSUME NEW t \in Thread, InsertSortArray(t) PROVE Counts'
    <2>1. t \in Thread \ active /\ Away(t) BY Zenon, <1>18 DEF InsertSortArray, Counts
    <2>2. UNCHANGED <<call, slot, weak, strong>> /\ active' = active \cup {t}
      BY <1>18 DEF InsertSortArray, lockVars
    <2>3. cnt' \in [Thread -> [Part -> Nat]] /\ \A u \in Thread \ {t} : cnt'[u] = cnt[u]
      BY ZenonT(40), <1>18 DEF InsertSortArray, Counts
    <2>4. \A p \in Part : cnt'[t][p] = 0 BY SMTT(20), <1>18 DEF InsertSortArray, Counts
    <2>5. CountOf(t)' BY <2>1, <2>2, <2>4 DEF CountOf, Away, FreeSlot
    <2>6. OwnCall(t) BY SMTT(20), <2>2 DEF OwnCall, Shape
    <2>7. OwnLocks(t) BY SMTT(20), <2>2, <2>3 DEF OwnLocks, Counts
    <2>8. QED BY SMTT(20), <2>2, <2>5, <2>6, <2>7, <1>Thread
  <1>19. ASSUME NEW t \in Thread, RemoveSortArray(t) PROVE Counts'
    <2>1. UNCHANGED <<call, slot, weak, strong, cnt>> /\ active' = active \ {t}
      BY <1>19 DEF RemoveSortArray, lockVars, hintVars
    <2>2. Away(t)
      <3>1. call[t].pc = "idle" /\ ~ HoldsInLockManager(t) /\ ~ HoldsLazily(t)
        BY <1>19 DEF RemoveSortArray
      <3>2. \A tag \in Tag : weak[t][tag] \in Nat BY DEF Counts
      <3>3. QED BY <3>1, <3>2 DEF Away, HoldsInLockManager, HoldsLazily
    <2>3. QED BY <2>1, <2>2 DEF Counts, Away, CountMatchesSlots, CallPart
  <1>20. ASSUME NEW t \in Thread, LazyLockRollback(t) PROVE Counts'
    <2>1. call[t].pc = "rollback" /\ To(t, "weak") /\ CallPart(t) \in Part
      BY Zenon, <1>20, <1>2, LazyLockRollbackEffect, LazyAssumption DEF FieldsShape, WithTag, CallPart
    <2>2. UNCHANGED <<slot, active, weak, strong>> /\ cnt' = [cnt EXCEPT ![t][CallPart(t)] = @ - 1]
      BY SMTT(20), <1>20 DEF LazyLockRollback, RolledBack, lockVars
    <2>3. cnt' \in [Thread -> [Part -> Int]] /\ \A u \in Thread \ {t} : cnt'[u] = cnt[u]
      BY <2>1, <2>2 DEF Counts
    <2>4. CountOf(t)'
      <3> SUFFICES ASSUME NEW p \in Part PROVE cnt'[t][p] = slot[t][p].cnt
        BY <2>1, <2>2 DEF CountOf, To, Becomes, Counts
      <3>1. cnt[t][p] = slot[t][p].cnt + 0 + (IF CallPart(t) = p THEN 1 ELSE 0)
        BY Zenon, <2>1 DEF Counts, CountMatchesSlots
      <3>2. cnt'[t][p] = cnt[t][p] - (IF CallPart(t) = p THEN 1 ELSE 0) /\ cnt[t][p] \in Nat
        BY <2>1, <2>2 DEF Counts
      <3>3. QED BY SMTT(20), <3>1, <3>2, SlotCount
    <2>5. QED BY Zenon, <2>1, <2>2, <2>3, <2>4, <1>Thread, <1>Registers DEF OwnLocks, Counts, To, Becomes
  <1>21. ASSUME NEW t \in Thread, DecreaseLazyLockCnt(t) PROVE Counts'
    <2>1. /\ call[t].pc = "decrease" /\ call[t].at \in Part
          /\ Becomes(t, "push", call[t].tag, call[t].next, 0, 0, call[t].found)
      BY Zenon, <1>21, <1>2, DecreaseLazyLockCntEffect DEF FieldsShape
    <2>2. UNCHANGED <<slot, active, weak, strong>> /\ cnt' = [cnt EXCEPT ![t][call[t].at] = @ - call[t].n]
      BY <1>21 DEF DecreaseLazyLockCnt, lockVars
    <2>3. call[t].n \in Nat BY SMTT(20) DEF Shape, CallType
    <2>4. cnt' \in [Thread -> [Part -> Int]] /\ \A u \in Thread \ {t} : cnt'[u] = cnt[u]
      BY <2>1, <2>2, <2>3 DEF Counts
    <2>5. CountOf(t)'
      <3> SUFFICES ASSUME NEW p \in Part PROVE cnt'[t][p] = slot[t][p].cnt + 0 + 0
        BY <2>1, <2>2 DEF CountOf, Becomes
      <3>1. cnt[t][p] = slot[t][p].cnt + (IF call[t].at = p THEN call[t].n ELSE 0) + 0
        BY Zenon, <2>1 DEF Counts, CountMatchesSlots
      <3>2. cnt'[t][p] = cnt[t][p] - (IF call[t].at = p THEN call[t].n ELSE 0) /\ cnt[t][p] \in Nat
        BY SMTT(20), <2>1, <2>2, <2>3 DEF Counts
      <3>3. QED BY SMTT(20), <2>3, <3>1, <3>2, SlotCount
    <2>6. QED BY Zenon, <2>1, <2>2, <2>4, <2>5, <1>Thread, <1>Registers DEF OwnLocks, Counts, Becomes
  <1>22. ASSUME NEW t \in Thread, NEW tag \in Tag, LazyLock(t, tag) PROVE Counts'
    <2> DEFINE p == PartOf[tag]
    <2>1. p \in Part BY LazyAssumption
    <2>2. call[t].pc = "idle" /\ t \in active BY Zenon, <1>22, LazyLockEffect
    <2>3. UNCHANGED <<active, weak, strong>> BY <1>22 DEF LazyLock, lockVars
    <2>4. cnt[t][p] \in Nat /\ slot[t][p] \in Slot BY <2>1 DEF Counts, Shape
    <2> HIDE DEF p
    <2>5. CASE Starts(t, "push", tag, "weak") /\ UNCHANGED <<cnt, slot>>
      BY Zenon, <2>2, <2>3, <2>5, <1>Quiet DEF Starts, Becomes, Counts
    <2>6. CASE /\ cnt' = [cnt EXCEPT ![t][p] = @ + 1]
               /\ slot' = [slot EXCEPT ![t][p] = [tag |-> tag, cnt |-> @.cnt + 1]]
               /\ To(t, "idle")
      <3> DEFINE v == cnt[t][p] + 1
                 s == [tag |-> tag, cnt |-> slot[t][p].cnt + 1]
      <3>1. slot[t][p].cnt \in Nat BY SMTT(20), <2>1, SlotCount
      <3>2. v \in Int /\ s \in Slot /\ v - cnt[t][p] = s.cnt - slot[t][p].cnt BY <2>4, <3>1 DEF Slot
      <3>3. cnt' = [cnt EXCEPT ![t][p] = v] /\ slot' = [slot EXCEPT ![t][p] = s] BY <2>6
      <3>4. OwnCall(t) /\ call'[t].pc = "idle" BY <2>6 DEF To, Becomes
      <3>5. weak' \in [Thread -> [Tag -> Nat]] /\ \A u \in Thread \ {t} : weak'[u] = weak[u]
        BY <2>3 DEF Counts
      <3>6. UNCHANGED <<active, strong>> BY <2>3
      <3> HIDE DEF v, s
      <3>7. QED BY Zenon, <2>1, <2>2, <3>2, <3>3, <3>4, <3>5, <3>6, <1>Together
    <2>7. CASE cnt' = [cnt EXCEPT ![t][p] = @ + 1] /\ Starts(t, "rollback", tag, "idle") /\ UNCHANGED slot
      <3> DEFINE v == cnt[t][p] + 1
      <3>1. v \in Int /\ cnt' = [cnt EXCEPT ![t][p] = v] BY <2>4, <2>7
      <3>2. /\ cnt' \in [Thread -> [Part -> Int]] /\ \A u \in Thread \ {t} : cnt'[u] = cnt[u]
            /\ cnt'[t][p] = cnt[t][p] + 1 /\ \A q \in Part \ {p} : cnt'[t][q] = cnt[t][q]
        BY Zenon, <2>1, <3>1, <1>Cnt
      <3>3. CountOf(t)'
        <4> SUFFICES ASSUME NEW q \in Part
                     PROVE  cnt'[t][q] = slot[t][q].cnt + 0 + (IF p = q THEN 1 ELSE 0)
          BY <2>7 DEF CountOf, CallPart, Starts, Becomes, p
        <4>1. cnt[t][q] = slot[t][q].cnt + 0 + 0 BY Zenon, <2>2 DEF Counts, CountMatchesSlots
        <4>2. cnt[t][q] \in Nat /\ slot[t][q].cnt \in Nat BY SMTT(20), SlotCount DEF Counts
        <4>3. QED BY SMTT(20), <3>2, <4>1, <4>2
      <3>4. QED BY Zenon, <2>2, <2>3, <2>7, <3>2, <3>3, <1>Thread DEF OwnLocks, Counts, Starts, Becomes
    <2>8. QED BY <1>22, <2>5, <2>6, <2>7, LazyLockEffect DEF p
  <1>23. ASSUME NEW t \in Thread, NEW tag \in Tag, UnlockWeak(t, tag) PROVE Counts'
    <2> DEFINE p == PartOf[tag]
    <2>1. p \in Part BY LazyAssumption
    <2>2. call[t].pc = "idle" BY Zenon, <1>23, UnlockWeakEffect
    <2>3. UNCHANGED <<active, strong>> BY <1>23 DEF UnlockWeak
    <2>4. cnt[t][p] \in Nat /\ slot[t][p] \in Slot BY <2>1 DEF Counts, Shape
    <2> HIDE DEF p
    <2>5. CASE /\ slot[t][p].tag = tag
               /\ cnt' = [cnt EXCEPT ![t][p] = @ - 1]
               /\ slot' = [slot EXCEPT ![t][p] =
                             IF @.cnt = 1 THEN FreeSlot ELSE [tag |-> tag, cnt |-> @.cnt - 1]]
               /\ Pushes(t, "idle") \/ To(t, "idle")
               /\ UNCHANGED weak
      <3> DEFINE v == cnt[t][p] - 1
                 s == IF slot[t][p].cnt = 1 THEN FreeSlot ELSE [tag |-> tag, cnt |-> slot[t][p].cnt - 1]
      <3>1. slot[t][p] # FreeSlot BY <2>5, LazyAssumption DEF FreeSlot
      <3>2. slot[t][p] \in [tag : Tag, cnt : Nat \ {0}] BY SMTT(20), <2>4, <3>1 DEF Slot
      <3>3. v \in Int /\ s \in Slot BY <2>4, <3>2 DEF Slot
      <3>4. v - cnt[t][p] = s.cnt - slot[t][p].cnt
        <4>1. slot[t][p].cnt \in Nat BY SMTT(20), <3>2
        <4>2. s.cnt = slot[t][p].cnt - 1 BY <4>1 DEF FreeSlot
        <4> HIDE DEF s
        <4>3. QED BY ONLY <2>4, <4>1, <4>2
      <3>5. cnt' = [cnt EXCEPT ![t][p] = v] /\ slot' = [slot EXCEPT ![t][p] = s] BY Zenon, <2>5
      <3>6. OwnCall(t) /\ call'[t].pc \in {"push", "idle"} BY Zenon, <2>5 DEF To, Pushes, Becomes
      <3>7. weak' \in [Thread -> [Tag -> Nat]] /\ \A u \in Thread \ {t} : weak'[u] = weak[u]
        BY <2>5 DEF Counts
      <3>8. t \in active BY <2>1, <3>1, <1>Registers
      <3> HIDE DEF v, s
      <3>9. QED BY ZenonT(40), <2>1, <2>2, <2>3, <3>3, <3>4, <3>5, <3>6, <3>7, <3>8, <1>Together
    <2>6. CASE /\ weak[t][tag] > 0
               /\ weak' = [weak EXCEPT ![t][tag] = @ - 1]
               /\ To(t, "idle")
               /\ UNCHANGED <<cnt, slot>>
      <3>1. weak[t][tag] - 1 \in Nat /\ weak[t][tag] # 0 BY <2>6 DEF Counts
      <3>2. weak' \in [Thread -> [Tag -> Nat]] /\ \A u \in Thread \ {t} : weak'[u] = weak[u]
        BY Zenon, <2>6, <3>1, <1>Weak
      <3>3. QED BY Zenon, <2>2, <2>3, <2>6, <3>1, <3>2, <1>Quiet, <1>Registers DEF To, Becomes, Counts
    <2>7. QED BY <1>23, <2>5, <2>6, UnlockWeakEffect DEF p
  <1>24. ASSUME NEW t \in Thread, ReleaseAllLazyLocks(t) PROVE Counts'
    <2>1. call[t].pc = "release" BY <1>24, ReleaseAllLazyLocksEffect
    <2>2. UNCHANGED <<active, weak, strong>> BY <1>24 DEF ReleaseAllLazyLocks, lockVars
    <2>3. t \in active BY <2>1, <1>Registers
    <2>4. CASE (Pushes(t, "idle") \/ Idles(t)) /\ UNCHANGED <<cnt, slot>>
      BY Zenon, <2>1, <2>2, <2>3, <2>4, <1>Quiet DEF Pushes, Idles, Starts, Becomes, Counts
    <2>5. ASSUME NEW p \in Part, cnt' = [cnt EXCEPT ![t][p] = @ - slot[t][p].cnt],
                 slot' = [slot EXCEPT ![t][p] = FreeSlot], NEW b \in BOOLEAN,
                 Becomes(t, "release", call[t].tag, call[t].next, call[t].at, call[t].n, b)
          PROVE  Counts'
      <3> DEFINE v == cnt[t][p] - slot[t][p].cnt
      <3>1. slot[t][p].cnt \in Nat /\ cnt[t][p] \in Nat /\ FreeSlot.cnt = 0
        BY Zenon, SlotCount DEF Counts, FreeSlot
      <3>2. v \in Int /\ v - cnt[t][p] = FreeSlot.cnt - slot[t][p].cnt BY <3>1
      <3>3. cnt' = [cnt EXCEPT ![t][p] = v] BY <2>5
      <3>4. OwnCall(t) /\ call'[t].pc = "release" BY <2>5 DEF Becomes
      <3>5. weak' \in [Thread -> [Tag -> Nat]] /\ \A u \in Thread \ {t} : weak'[u] = weak[u]
        BY <2>2 DEF Counts
      <3>6. UNCHANGED <<active, strong>> BY SMTT(20), <2>2
      <3> HIDE DEF v
      <3>7. QED BY ZenonT(40), <2>1, <2>3, <2>5, <3>2, <3>3, <3>4, <3>5, <3>6, FreeSlotType, <1>Together
    <2>6. QED BY <1>24, <2>4, <2>5, ReleaseAllLazyLocksEffect
  <1>25. ASSUME NEW t \in Thread, ActuallyAcquireLazyLocks(t) PROVE Counts'
    <2>1. call[t].pc = "push" BY <1>25, ActuallyAcquireLazyLocksEffect
    <2>2. UNCHANGED <<active, cnt, strong>> BY Zenon, <1>25 DEF ActuallyAcquireLazyLocks, hintVars
    <2>3. t \in active BY <2>1, <1>Registers
    <2>4. CASE (Continues(t) \/ To(t, "wake")) /\ UNCHANGED <<slot, weak>>
      <3>1. call[t].next \notin {"decrease", "rollback"} BY <2>1, <1>2 DEF FieldsShape
      <3>2. QED BY ZenonT(40), <2>1, <2>2, <2>3, <2>4, <3>1, <1>Quiet
              DEF Continues, To, Idles, Starts, Becomes, Counts
    <2>5. ASSUME NEW p \in Part, slot[t][p] # FreeSlot,
                 weak' = [weak EXCEPT ![t][slot[t][p].tag] = @ + slot[t][p].cnt],
                 slot' = [slot EXCEPT ![t][p] = FreeSlot],
                 Becomes(t, "decrease", call[t].tag, call[t].next, p, slot[t][p].cnt, call[t].found)
          PROVE  Counts'
      <3>1. slot[t][p] \in [tag : Tag, cnt : Nat \ {0}] BY <2>5 DEF Shape, Slot
      <3>2. slot[t][p].tag \in Tag /\ slot[t][p].cnt \in Nat BY <3>1
      <3>3. weak' \in [Thread -> [Tag -> Nat]] /\ \A u \in Thread \ {t} : weak'[u] = weak[u]
        <4>1. weak[t][slot[t][p].tag] + slot[t][p].cnt \in Nat BY SMTT(20), <3>2 DEF Counts
        <4>2. QED BY Zenon, <2>5, <3>2, <4>1, <1>Weak
      <3>4. /\ slot'[t][p] = FreeSlot /\ \A u \in Thread \ {t} : slot'[u] = slot[u]
            /\ \A q \in Part \ {p} : slot'[t][q] = slot[t][q]
        BY SMTT(20), <2>5 DEF Shape
      <3>5. CountOf(t)'
        <4> SUFFICES ASSUME NEW q \in Part
                     PROVE  cnt[t][q] = slot'[t][q].cnt + (IF p = q THEN slot[t][p].cnt ELSE 0) + 0
          BY <2>2, <2>5 DEF CountOf, Becomes
        <4>1. cnt[t][q] = slot[t][q].cnt + 0 + 0 BY ZenonT(40), <2>1 DEF Counts, CountMatchesSlots
        <4>2. slot[t][q].cnt \in Nat /\ FreeSlot.cnt = 0 BY Zenon, SlotCount DEF FreeSlot
        <4>3. QED BY SMTT(20), <3>2, <3>4, <4>1, <4>2
      <3>6. OwnLocks(t)
        <4>1. cnt' \in [Thread -> [Part -> Int]] BY SMTT(20), <2>2 DEF Counts
        <4>2. strong' \in [Tag -> SUBSET Thread] BY Zenon, <2>2 DEF Counts
        <4>3. QED BY Zenon, <2>2, <3>3, <3>4, <4>1, <4>2 DEF OwnLocks
      <3>7. OwnCall(t) BY <2>5 DEF Becomes
      <3>8. QED BY SMTT(20), <2>2, <2>3, <3>5, <3>6, <3>7, <1>Thread
    <2>6. QED BY SMTT(20), <1>25, <2>4, <2>5, ActuallyAcquireLazyLocksEffect
  <1>26. QED
    BY SMTT(20), <1>1, <1>3, <1>4, <1>5, <1>6, <1>7, <1>8, <1>9, <1>10, <1>11, <1>12, <1>13, <1>14, <1>15, <1>16,
       <1>17, <1>18, <1>19, <1>20, <1>21, <1>22, <1>23, <1>24, <1>25 DEF Next, CallStep

-----------------------------------------------------------------------------
(* Requests.                                                               *)

(* A walk over partition p has yet to pass the thread at place i. *)
Ahead(pc, i, p) == \E t \in Thread : call[t].pc = pc /\ CallPart(t) = p /\ call[t].at < i

ClosedAt(i, p) ==
  Order[i] \in active =>
    (closed[Order[i]][p] <=> (request[p] # {} /\ ~ Ahead("disabling", i, p)) \/ Ahead("enabling", i, p))

(* ClosedExact, place by place. *)
LEMMA ClosedAtDef == ClosedExact <=> \A i \in DOMAIN Order, p \in Part : ClosedAt(i, p)
  BY Zenon DEF ClosedExact, ClosedAt, Ahead

(* One request comes or goes. *)
LEMMA AddRequest ==
  ASSUME Requests, NEW t \in Thread, call[t].tag \in Tag,
         request' = [request EXCEPT ![CallPart(t)] = @ \cup {Request(t)}]
  PROVE  /\ request' \in [Part -> SUBSET [thr : Thread, tag : Tag]]
         /\ \A p \in Part : \A r \in request'[p] : PartOf[r.tag] = p
         /\ CallPart(t) \in Part
         /\ request'[CallPart(t)] = request[CallPart(t)] \cup {Request(t)}
         /\ \A p \in Part \ {CallPart(t)} : request'[p] = request[p]
  <1>1. CallPart(t) \in Part BY LazyAssumption DEF CallPart
  <1>2. Request(t) \in [thr : Thread, tag : Tag] /\ PartOf[Request(t).tag] = CallPart(t)
    BY DEF Request, CallPart
  <1>3. /\ request'[CallPart(t)] = request[CallPart(t)] \cup {Request(t)}
        /\ \A p \in Part \ {CallPart(t)} : request'[p] = request[p]
    BY <1>1 DEF Requests
  <1>4. request' \in [Part -> SUBSET [thr : Thread, tag : Tag]] BY SMTT(20), <1>1, <1>2 DEF Requests
  <1>5. \A p \in Part : \A r \in request'[p] : PartOf[r.tag] = p BY SMTT(20), <1>2, <1>3 DEF Requests
  <1>6. QED BY <1>1, <1>3, <1>4, <1>5

(* The same of a request that goes. *)
LEMMA DropRequest ==
  ASSUME Requests, NEW t \in Thread, call[t].tag \in Tag,
         request' = [request EXCEPT ![CallPart(t)] = @ \ {Request(t)}]
  PROVE  /\ request' \in [Part -> SUBSET [thr : Thread, tag : Tag]]
         /\ \A p \in Part : \A r \in request'[p] : PartOf[r.tag] = p
         /\ CallPart(t) \in Part
         /\ request'[CallPart(t)] = request[CallPart(t)] \ {Request(t)}
         /\ \A p \in Part \ {CallPart(t)} : request'[p] = request[p]
  <1>1. CallPart(t) \in Part BY LazyAssumption DEF CallPart
  <1>2. /\ request'[CallPart(t)] = request[CallPart(t)] \ {Request(t)}
        /\ \A p \in Part \ {CallPart(t)} : request'[p] = request[p]
    BY <1>1 DEF Requests
  <1>3. request' \in [Part -> SUBSET [thr : Thread, tag : Tag]] BY <1>1 DEF Requests
  <1>4. \A p \in Part : \A r \in request'[p] : PartOf[r.tag] = p BY SMTT(20), <1>2 DEF Requests
  <1>5. QED BY <1>1, <1>2, <1>3, <1>4

\* Every step keeps the requests.
LEMMA RequestsStep == Shape /\ Shape' /\ Counts /\ Counts' /\ Requests /\ [Next]_vars => Requests'
  (* Who walks is told by the hint lock. *)
  <1>None. ASSUME Shape, hintLock = {}, NEW i, NEW p
           PROVE  ~ Ahead("disabling", i, p) /\ ~ Ahead("enabling", i, p)
    BY <1>None DEF Shape, CallShape, Walking, Ahead
  (* The same after a step. *)
  <1>NoneAfter. ASSUME Shape', hintLock' = {}, NEW i, NEW p
                PROVE  ~ Ahead("disabling", i, p)' /\ ~ Ahead("enabling", i, p)'
    BY <1>NoneAfter DEF Shape, CallShape, Walking, Ahead
  (* The thread that holds the hint lock walks, and no other. *)
  <1>One. ASSUME Shape, NEW t \in Thread, hintLock = {t}, NEW i, NEW p, NEW pc \in {"disabling", "enabling"}
          PROVE  Ahead(pc, i, p) <=> call[t].pc = pc /\ CallPart(t) = p /\ call[t].at < i
    <2> USE <1>One
    <2>1. \A u \in Thread : Walking(u) => u = t BY Zenon DEF Shape, CallShape
    <2>2. QED BY <2>1 DEF Ahead, Walking
  (* The same after a step. *)
  <1>OneAfter. ASSUME Shape', NEW t \in Thread, hintLock' = {t}, NEW i, NEW p, NEW pc \in {"disabling", "enabling"}
               PROVE  Ahead(pc, i, p)' <=> call'[t].pc = pc /\ CallPart(t)' = p /\ call'[t].at < i
    <2> USE <1>OneAfter
    <2>1. \A u \in Thread : Walking(u)' => u = t BY Zenon DEF Shape, CallShape
    <2>2. QED BY <2>1 DEF Ahead, Walking
  (* A step of t leaves the other threads' requests alone. *)
  <1>Thread. ASSUME Requests, NEW t \in Thread, OwnCall(t), Listed(t)', ClosedExact',
                    closed' \in [Thread -> [Part -> BOOLEAN]],
                    request' \in [Part -> SUBSET [thr : Thread, tag : Tag]],
                    \A p \in Part : \A r \in request'[p] : PartOf[r.tag] = p,
                    \A u \in Thread \ {t} :
                      /\ \A tag \in Tag : u \in strong'[tag] <=> u \in strong[tag]
                      /\ \A p \in Part, tag \in Tag : [thr |-> u, tag |-> tag] \in request[p]
                                                      => [thr |-> u, tag |-> tag] \in request'[p]
                      /\ Walking(u) => request' = request
                      /\ call[u] \in CallType /\ FieldsShape(call[u].pc, call[u].tag, call[u].next, call[u].at)
             PROVE  Requests'
    <2> USE <1>Thread
    <2>1. \A u \in Thread \ {t} : Listed(u)'
      <3> SUFFICES ASSUME NEW u \in Thread \ {t} PROVE Listed(u)'
        BY Zenon
      <3>1. Listed(u) /\ call'[u] = call[u] BY Zenon DEF Requests, OwnCall
      <3>2. \A tag \in Tag : u \in strong'[tag] <=> u \in strong[tag] BY Zenon
      <3>3. Acquiring(u)' => u \notin strong'[call'[u].tag]
        <4>1. Acquiring(u)' => call[u].tag \in Tag BY Zenon, <3>1 DEF Acquiring, Pushing, FieldsShape, WithTag
        <4>2. QED BY Zenon, <3>1, <3>2, <4>1 DEF Listed, Acquiring, Pushing
      <3>4. At(u, "lazywait")' \/ At(u, "strong")' => Request(u)' \in request'[CallPart(u)']
        <4>1. At(u, "lazywait") \/ At(u, "strong") => call[u].tag \in Tag
          BY Zenon DEF At, FieldsShape, WithTag
        <4>2. At(u, "lazywait")' \/ At(u, "strong")' =>
                /\ At(u, "lazywait") \/ At(u, "strong")
                /\ Request(u)' = Request(u) /\ CallPart(u)' = CallPart(u)
          BY Zenon, <3>1 DEF At, Request, CallPart
        <4>3. call[u].tag \in Tag => CallPart(u) \in Part BY Zenon, LazyAssumption DEF CallPart
        <4>4. At(u, "lazywait") \/ At(u, "strong") => Request(u) \in request[CallPart(u)]
          BY Zenon, <3>1 DEF Listed
        <4>5. At(u, "lazywait") \/ At(u, "strong") => Request(u) \in request'[CallPart(u)]
          BY Zenon, <4>1, <4>3, <4>4 DEF Request
        <4>6. QED BY Zenon, <4>2, <4>5
      <3>5. call'[u].pc = "disabling" => request'[CallPart(u)'] = {Request(u)'}
        BY Zenon, <3>1 DEF Listed, Walking, Request, CallPart
      <3>6. call'[u].pc = "enabling" => request'[CallPart(u)'] = {}
        BY Zenon, <3>1 DEF Listed, Walking, CallPart
      <3>7. \A tag \in Tag :
              u \in strong'[tag] /\ ~ (call'[u].tag = tag /\ call'[u].pc \in {"enabling", "unlock"})
                => [thr |-> u, tag |-> tag] \in request'[PartOf[tag]]
        BY Zenon, <3>1, <3>2, LazyAssumption DEF Listed
      <3>8. QED BY Zenon, <3>3, <3>4, <3>5, <3>6, <3>7 DEF Listed
    <2>2. QED BY Zenon, <2>1 DEF Requests
  (* The steps that neither open nor close a partition. *)
  <1>Quiet. ASSUME Shape, Requests, NEW t \in Thread, OwnCall(t), Listed(t)', UNCHANGED <<request, closed>>,
                   active' \subseteq active,
                   {call[t].pc, call'[t].pc} \cap {"disabling", "enabling"} = {},
                   \A u \in Thread \ {t}, tag \in Tag : u \in strong'[tag] <=> u \in strong[tag]
            PROVE  Requests'
    <2> USE <1>Quiet
    <2>1. \A i, p : /\ Ahead("disabling", i, p)' <=> Ahead("disabling", i, p)
                    /\ Ahead("enabling", i, p)' <=> Ahead("enabling", i, p)
      BY ZenonT(40) DEF Ahead, OwnCall, CallPart
    <2>2. \A i \in DOMAIN Order, p \in Part : ClosedAt(i, p) BY Zenon, ClosedAtDef DEF Requests
    <2>3. \A i \in DOMAIN Order, p \in Part : ClosedAt(i, p)' BY Zenon, <2>1, <2>2 DEF ClosedAt
    <2>4. ClosedExact' BY Zenon, <2>3 DEF ClosedExact, ClosedAt, Ahead
    <2>5. \A u \in Thread : call[u] \in CallType /\ FieldsShape(call[u].pc, call[u].tag, call[u].next, call[u].at)
      BY Zenon DEF Shape, CallShape
    <2>6. QED BY Zenon, <2>4, <2>5, <1>Thread DEF Requests
  <1> SUFFICES ASSUME Shape, Shape', Counts, Counts', Requests, [Next]_vars PROVE Requests'
    OBVIOUS
  <1>1. CASE UNCHANGED vars
    <2>1. UNCHANGED <<active, closed, request, call, strong>> BY <1>1 DEF vars
    <2>2. \A t \in Thread : Listed(t)'
      BY Zenon, <2>1 DEF Requests, Listed, Acquiring, Pushing, At, Request, CallPart
    <2>3. ClosedExact' BY <2>1 DEF Requests, ClosedExact, CallPart
    <2>4. QED BY <2>1, <2>2, <2>3 DEF Requests
  <1>2. \A t \in Thread :
          /\ call[t] \in CallType /\ FieldsShape(call[t].pc, call[t].tag, call[t].next, call[t].at)
          /\ Listed(t)
    BY DEF Shape, CallShape, Requests

  <1>3. ASSUME NEW t \in Thread, LazyLockRollback(t) PROVE Requests'
    <2>1. UNCHANGED <<request, closed>> /\ strong' = strong /\ active' \subseteq active
      BY <1>3 DEF LazyLockRollback, hintVars, listVars, lockVars
    <2>2. Listed(t) /\ FieldsShape(call[t].pc, call[t].tag, call[t].next, call[t].at) BY SMTT(20), <1>2
    <2>3. OwnCall(t) /\ {call[t].pc, call'[t].pc} \cap {"disabling", "enabling"} = {}
      BY <1>3, <2>2, LazyLockRollbackEffect
         DEF Becomes, To, Pushes, GivesUp, Starts, Idles, Continues, FieldsShape
    <2>4. Listed(t)'
      BY Zenon, <1>3, <2>1, <2>2, LazyLockRollbackEffect
         DEF Becomes, To, Pushes, GivesUp, Starts, Idles, Continues, Listed, Acquiring, Pushing, At,
             Request, CallPart, FieldsShape
    <2>5. QED BY <2>1, <2>3, <2>4, <1>Quiet
  <1>4. ASSUME NEW t \in Thread, WeakLock(t) PROVE Requests'
    <2>1. UNCHANGED <<request, closed>> /\ strong' = strong /\ active' \subseteq active
      BY <1>4 DEF WeakLock, hintVars, listVars, lockVars
    <2>2. Listed(t) /\ FieldsShape(call[t].pc, call[t].tag, call[t].next, call[t].at) BY <1>2
    <2>3. OwnCall(t) /\ {call[t].pc, call'[t].pc} \cap {"disabling", "enabling"} = {}
      BY Zenon, <1>4, <2>2, WeakLockEffect
         DEF Becomes, To, Pushes, GivesUp, Starts, Idles, Continues, FieldsShape
    <2>4. Listed(t)'
      BY Zenon, <1>4, <2>1, <2>2, WeakLockEffect
         DEF Becomes, To, Pushes, GivesUp, Starts, Idles, Continues, Listed, Acquiring, Pushing, At,
             Request, CallPart, FieldsShape
    <2>5. QED BY <2>1, <2>3, <2>4, <1>Quiet
  <1>5. ASSUME NEW t \in Thread, BeginLazyWait(t) PROVE Requests'
    <2>1. UNCHANGED <<request, closed>> /\ strong' = strong /\ active' \subseteq active
      BY Zenon, <1>5 DEF BeginLazyWait, hintVars, listVars, lockVars
    <2>2. Listed(t) /\ FieldsShape(call[t].pc, call[t].tag, call[t].next, call[t].at) BY <1>2
    <2>3. OwnCall(t) /\ {call[t].pc, call'[t].pc} \cap {"disabling", "enabling"} = {}
      BY Zenon, <1>5, <2>2, BeginLazyWaitEffect
         DEF Becomes, To, Pushes, GivesUp, Starts, Idles, Continues, FieldsShape
    <2>4. Listed(t)'
      BY ZenonT(40), <1>5, <2>1, <2>2, BeginLazyWaitEffect
         DEF Becomes, To, Pushes, GivesUp, Starts, Idles, Continues, Listed, Acquiring, Pushing, At,
             Request, CallPart, FieldsShape
    <2>5. QED BY Zenon, <2>1, <2>3, <2>4, <1>Quiet
  <1>6. ASSUME NEW t \in Thread, LazyWaitEnds(t) PROVE Requests'
    <2>1. UNCHANGED <<request, closed>> /\ strong' = strong /\ active' \subseteq active
      BY Zenon, <1>6 DEF LazyWaitEnds, hintVars, listVars, lockVars
    <2>2. Listed(t) /\ FieldsShape(call[t].pc, call[t].tag, call[t].next, call[t].at) BY <1>2
    <2>3. OwnCall(t) /\ {call[t].pc, call'[t].pc} \cap {"disabling", "enabling"} = {}
      BY <1>6, <2>2, LazyWaitEndsEffect
         DEF Becomes, To, Pushes, GivesUp, Starts, Idles, Continues, FieldsShape
    <2>4. Listed(t)'
      BY Zenon, <1>6, <2>1, <2>2, LazyWaitEndsEffect
         DEF Becomes, To, Pushes, GivesUp, Starts, Idles, Continues, Listed, Acquiring, Pushing, At,
             Request, CallPart, FieldsShape
    <2>5. QED BY Zenon, <2>1, <2>3, <2>4, <1>Quiet
  <1>7. ASSUME NEW t \in Thread, LazyWaitFails(t) PROVE Requests'
    <2>1. UNCHANGED <<request, closed>> /\ strong' = strong /\ active' \subseteq active
      BY <1>7 DEF LazyWaitFails, hintVars, listVars, lockVars
    <2>2. Listed(t) /\ FieldsShape(call[t].pc, call[t].tag, call[t].next, call[t].at) BY <1>2
    <2>3. OwnCall(t) /\ {call[t].pc, call'[t].pc} \cap {"disabling", "enabling"} = {}
      BY Zenon, <1>7, <2>2, LazyWaitFailsEffect
         DEF Becomes, To, Pushes, GivesUp, Starts, Idles, Continues, FieldsShape
    <2>4. Listed(t)'
      BY Zenon, <1>7, <2>1, <2>2, LazyWaitFailsEffect
         DEF Becomes, To, Pushes, GivesUp, Starts, Idles, Continues, Listed, Acquiring, Pushing, At,
             Request, CallPart, FieldsShape
    <2>5. QED BY Zenon, <2>1, <2>3, <2>4, <1>Quiet
  <1>8. ASSUME NEW t \in Thread, PollWhileWaiting(t) PROVE Requests'
    <2>1. UNCHANGED <<request, closed>> /\ strong' = strong /\ active' \subseteq active
      BY Zenon, <1>8 DEF PollWhileWaiting, hintVars, listVars, lockVars
    <2>2. Listed(t) /\ FieldsShape(call[t].pc, call[t].tag, call[t].next, call[t].at) BY <1>2
    <2>3. OwnCall(t) /\ {call[t].pc, call'[t].pc} \cap {"disabling", "enabling"} = {}
      BY Zenon, <1>8, <2>2, PollWhileWaitingEffect
         DEF Becomes, To, Pushes, GivesUp, Starts, Idles, Continues, FieldsShape
    <2>4. Listed(t)'
      BY ZenonT(40), <1>8, <2>1, <2>2, PollWhileWaitingEffect
         DEF Becomes, To, Pushes, GivesUp, Starts, Idles, Continues, Listed, Acquiring, Pushing, At,
             Request, CallPart, FieldsShape
    <2>5. QED BY Zenon, <2>1, <2>3, <2>4, <1>Quiet
  <1>9. ASSUME NEW t \in Thread, WakeupAllRequests(t) PROVE Requests'
    <2>1. UNCHANGED <<request, closed>> /\ strong' = strong /\ active' \subseteq active
      BY Zenon, <1>9 DEF WakeupAllRequests, hintVars, listVars, lockVars
    <2>2. Listed(t) /\ FieldsShape(call[t].pc, call[t].tag, call[t].next, call[t].at) BY <1>2
    <2>3. OwnCall(t) /\ {call[t].pc, call'[t].pc} \cap {"disabling", "enabling"} = {}
      BY Zenon, <1>9, <2>2, WakeupAllRequestsEffect
         DEF Becomes, To, Pushes, GivesUp, Starts, Idles, Continues, FieldsShape
    <2>4. Listed(t)'
      BY Zenon, <1>9, <2>1, <2>2, WakeupAllRequestsEffect
         DEF Becomes, To, Pushes, GivesUp, Starts, Idles, Continues, Listed, Acquiring, Pushing, At,
             Request, CallPart, FieldsShape
    <2>5. QED BY Zenon, <2>1, <2>3, <2>4, <1>Quiet
  <1>10. ASSUME NEW t \in Thread, DecreaseLazyLockCnt(t) PROVE Requests'
    <2>1. UNCHANGED <<request, closed>> /\ strong' = strong /\ active' \subseteq active
      BY <1>10 DEF DecreaseLazyLockCnt, hintVars, listVars, lockVars
    <2>2. Listed(t) /\ FieldsShape(call[t].pc, call[t].tag, call[t].next, call[t].at) BY <1>2
    <2>3. OwnCall(t) /\ {call[t].pc, call'[t].pc} \cap {"disabling", "enabling"} = {}
      BY Zenon, <1>10, <2>2, DecreaseLazyLockCntEffect
         DEF Becomes, To, Pushes, GivesUp, Starts, Idles, Continues, FieldsShape
    <2>4. Listed(t)'
      BY ZenonT(40), <1>10, <2>1, <2>2, DecreaseLazyLockCntEffect
         DEF Becomes, To, Pushes, GivesUp, Starts, Idles, Continues, Listed, Acquiring, Pushing, At,
             Request, CallPart, FieldsShape
    <2>5. QED BY Zenon, <2>1, <2>3, <2>4, <1>Quiet
  <1>11. ASSUME NEW t \in Thread, RemoveSortArray(t) PROVE Requests'
    <2>1. UNCHANGED <<request, closed>> /\ strong' = strong /\ active' \subseteq active
      BY <1>11 DEF RemoveSortArray, hintVars, listVars, lockVars
    <2>2. Listed(t) /\ FieldsShape(call[t].pc, call[t].tag, call[t].next, call[t].at) BY <1>2
    <2>3. OwnCall(t) /\ {call[t].pc, call'[t].pc} \cap {"disabling", "enabling"} = {}
      BY Zenon, <1>11, <2>2, RemoveSortArrayEffect
         DEF Becomes, To, Pushes, GivesUp, Starts, Idles, Continues, FieldsShape
    <2>4. Listed(t)'
      BY Zenon, <1>11, <2>1, <2>2, RemoveSortArrayEffect
         DEF Becomes, To, Pushes, GivesUp, Starts, Idles, Continues, Listed, Acquiring, Pushing, At,
             Request, CallPart, FieldsShape
    <2>5. QED BY <2>1, <2>3, <2>4, <1>Quiet
  <1>12. ASSUME NEW t \in Thread, ReleaseAllLocks(t) PROVE Requests'
    <2>1. UNCHANGED <<request, closed>> /\ strong' = strong /\ active' \subseteq active
      BY Zenon, <1>12 DEF ReleaseAllLocks, hintVars, listVars, lockVars
    <2>2. Listed(t) /\ FieldsShape(call[t].pc, call[t].tag, call[t].next, call[t].at) BY <1>2
    <2>3. OwnCall(t) /\ {call[t].pc, call'[t].pc} \cap {"disabling", "enabling"} = {}
      BY Zenon, <1>12, <2>2, ReleaseAllLocksEffect
         DEF Becomes, To, Pushes, GivesUp, Starts, Idles, Continues, FieldsShape
    <2>4. Listed(t)'
      BY Zenon, <1>12, <2>1, <2>2, ReleaseAllLocksEffect
         DEF Becomes, To, Pushes, GivesUp, Starts, Idles, Continues, Listed, Acquiring, Pushing, At,
             Request, CallPart, FieldsShape
    <2>5. QED BY <2>1, <2>3, <2>4, <1>Quiet
  <1>13. ASSUME NEW t \in Thread, ReleaseAllLazyLocks(t) PROVE Requests'
    <2>1. UNCHANGED <<request, closed>> /\ strong' = strong /\ active' \subseteq active
      BY <1>13 DEF ReleaseAllLazyLocks, hintVars, listVars, lockVars
    <2>2. Listed(t) /\ FieldsShape(call[t].pc, call[t].tag, call[t].next, call[t].at) BY <1>2
    <2>3. OwnCall(t) /\ {call[t].pc, call'[t].pc} \cap {"disabling", "enabling"} = {}
      BY Zenon, <1>13, <2>2, ReleaseAllLazyLocksEffect
         DEF Becomes, To, Pushes, GivesUp, Starts, Idles, Continues, FieldsShape
    <2>4. Listed(t)'
      BY Zenon, <1>13, <2>1, <2>2, ReleaseAllLazyLocksEffect
         DEF Becomes, To, Pushes, GivesUp, Starts, Idles, Continues, Listed, Acquiring, Pushing, At,
             Request, CallPart, FieldsShape
    <2>5. QED BY Zenon, <2>1, <2>3, <2>4, <1>Quiet
  <1>14. ASSUME NEW t \in Thread, ActuallyAcquireLazyLocks(t) PROVE Requests'
    <2>1. UNCHANGED <<request, closed>> /\ strong' = strong /\ active' \subseteq active
      BY Zenon, <1>14 DEF ActuallyAcquireLazyLocks, hintVars, listVars, lockVars
    <2>2. Listed(t) /\ FieldsShape(call[t].pc, call[t].tag, call[t].next, call[t].at) BY <1>2
    <2>3. OwnCall(t) /\ {call[t].pc, call'[t].pc} \cap {"disabling", "enabling"} = {}
      BY Zenon, <1>14, <2>2, ActuallyAcquireLazyLocksEffect
         DEF Becomes, To, Pushes, GivesUp, Starts, Idles, Continues, FieldsShape
    <2>4. Listed(t)'
      BY Zenon, <1>14, <2>1, <2>2, ActuallyAcquireLazyLocksEffect
         DEF Becomes, To, Pushes, GivesUp, Starts, Idles, Continues, Listed, Acquiring, Pushing, At,
             Request, CallPart, FieldsShape
    <2>5. QED BY Zenon, <2>1, <2>3, <2>4, <1>Quiet
  <1>15. ASSUME NEW t \in Thread, NEW tag \in Tag, LazyLock(t, tag) PROVE Requests'
    <2>1. UNCHANGED <<request, closed>> /\ strong' = strong /\ active' \subseteq active
      BY <1>15 DEF LazyLock, hintVars, listVars, lockVars
    <2>2. Listed(t) /\ FieldsShape(call[t].pc, call[t].tag, call[t].next, call[t].at) BY <1>2
    <2>3. OwnCall(t) /\ {call[t].pc, call'[t].pc} \cap {"disabling", "enabling"} = {}
      BY Zenon, <1>15, <2>2, LazyLockEffect
         DEF Becomes, To, Pushes, GivesUp, Starts, Idles, Continues, FieldsShape
    <2>4. Listed(t)'
      BY ZenonT(40), <1>15, <2>1, <2>2, LazyLockEffect
         DEF Becomes, To, Pushes, GivesUp, Starts, Idles, Continues, Listed, Acquiring, Pushing, At,
             Request, CallPart, FieldsShape
    <2>5. QED BY Zenon, <2>1, <2>3, <2>4, <1>Quiet
  <1>16. ASSUME NEW t \in Thread, NEW tag \in Tag, UnlockWeak(t, tag) PROVE Requests'
    <2>1. UNCHANGED <<request, closed>> /\ strong' = strong /\ active' \subseteq active
      BY <1>16 DEF UnlockWeak, hintVars, listVars, lockVars
    <2>2. Listed(t) /\ FieldsShape(call[t].pc, call[t].tag, call[t].next, call[t].at) BY <1>2
    <2>3. OwnCall(t) /\ {call[t].pc, call'[t].pc} \cap {"disabling", "enabling"} = {}
      BY Zenon, <1>16, <2>2, UnlockWeakEffect
         DEF Becomes, To, Pushes, GivesUp, Starts, Idles, Continues, FieldsShape
    <2>4. Listed(t)'
      BY Zenon, <1>16, <2>1, <2>2, UnlockWeakEffect
         DEF Becomes, To, Pushes, GivesUp, Starts, Idles, Continues, Listed, Acquiring, Pushing, At,
             Request, CallPart, FieldsShape
    <2>5. QED BY Zenon, <2>1, <2>3, <2>4, <1>Quiet
  <1>17. ASSUME NEW t \in Thread, NEW tag \in Tag, LockStrong(t, tag) PROVE Requests'
    <2>1. UNCHANGED <<request, closed>> /\ strong' = strong /\ active' \subseteq active
      BY <1>17 DEF LockStrong, hintVars, listVars, lockVars
    <2>2. Listed(t) /\ FieldsShape(call[t].pc, call[t].tag, call[t].next, call[t].at) BY <1>2
    <2>3. OwnCall(t) /\ {call[t].pc, call'[t].pc} \cap {"disabling", "enabling"} = {}
      BY Zenon, <1>17, <2>2, LockStrongEffect
         DEF Becomes, To, Pushes, GivesUp, Starts, Idles, Continues, FieldsShape
    <2>4. Listed(t)'
      BY Zenon, <1>17, <2>1, <2>2, LockStrongEffect
         DEF Becomes, To, Pushes, GivesUp, Starts, Idles, Continues, Listed, Acquiring, Pushing, At,
             Request, CallPart, FieldsShape
    <2>5. QED BY Zenon, <2>1, <2>3, <2>4, <1>Quiet
  <1>18. ASSUME NEW t \in Thread, NEW tag \in Tag, UnlockStrong(t, tag) PROVE Requests'
    <2>1. UNCHANGED <<request, closed>> /\ strong' = strong /\ active' \subseteq active
      BY <1>18 DEF UnlockStrong, hintVars, listVars, lockVars
    <2>2. Listed(t) /\ FieldsShape(call[t].pc, call[t].tag, call[t].next, call[t].at) BY <1>2
    <2>3. OwnCall(t) /\ {call[t].pc, call'[t].pc} \cap {"disabling", "enabling"} = {}
      BY Zenon, <1>18, <2>2, UnlockStrongEffect
         DEF Becomes, To, Pushes, GivesUp, Starts, Idles, Continues, FieldsShape
    <2>4. Listed(t)'
      BY Zenon, <1>18, <2>1, <2>2, UnlockStrongEffect
         DEF Becomes, To, Pushes, GivesUp, Starts, Idles, Continues, Listed, Acquiring, Pushing, At,
             Request, CallPart, FieldsShape
    <2>5. QED BY Zenon, <2>1, <2>3, <2>4, <1>Quiet
  <1>19. ASSUME NEW t \in Thread, StrongLock(t) PROVE Requests'
    <2>1. UNCHANGED <<request, closed>> /\ active' \subseteq active
      BY <1>19 DEF StrongLock, hintVars, listVars
    <2>2. /\ Listed(t) /\ call[t].pc = "strong" /\ call[t].tag \in Tag
          /\ OwnCall(t) /\ call'[t].pc \in {"idle", "enable"}
      BY Zenon, <1>19, <1>2, StrongLockEffect DEF FieldsShape, WithTag, Idles, Starts, GivesUp, Becomes
    <2>3. CASE strong' = [strong EXCEPT ![call[t].tag] = @ \cup {t}] /\ Return(t)
      <3>1. Idles(t) BY <2>3, ReturnEffect
      <3>2. /\ \A tag \in Tag \ {call[t].tag} : strong'[tag] = strong[tag]
            /\ \A u \in Thread \ {t}, tag \in Tag : u \in strong'[tag] <=> u \in strong[tag]
        BY Zenon, <2>2, <2>3, SetStrong DEF Counts
      <3>3. Listed(t)'
        BY Zenon, <2>1, <2>2, <3>1, <3>2 DEF Listed, Acquiring, Pushing, At, Request, CallPart, Idles, Starts, Becomes
      <3>4. QED BY Zenon, <2>1, <2>2, <3>2, <3>3, <1>Quiet
    <2>4. CASE call' = [call EXCEPT ![t].pc = "enable", ![t].next = "idle"] /\ UNCHANGED strong
      <3>1. GivesUp(t) BY Zenon, <2>4, GiveUpEffect
      <3>2. Listed(t)'
        BY Zenon, <2>1, <2>2, <2>4, <3>1 DEF Listed, Acquiring, Pushing, At, Request, CallPart, GivesUp, Becomes
      <3>3. QED BY <2>1, <2>2, <2>4, <3>2, <1>Quiet
    <2>5. QED BY <1>19, <2>3, <2>4 DEF StrongLock
  <1>20. ASSUME NEW t \in Thread, UnlockInLockManager(t) PROVE Requests'
    <2>1. UNCHANGED <<request, closed>> /\ active' \subseteq active
      BY <1>20 DEF UnlockInLockManager, hintVars, listVars
    <2>2. /\ Listed(t) /\ call[t].pc = "unlock" /\ call[t].tag \in Tag /\ OwnCall(t)
          /\ call'[t].pc \in {"idle", "release"} /\ call'[t].tag = NoTag
      BY Zenon, <1>20, <1>2, UnlockInLockManagerEffect DEF FieldsShape, WithTag, Idles, Starts, Becomes
    <2>3. strong' = [strong EXCEPT ![call[t].tag] = @ \ {t}] BY <1>20 DEF UnlockInLockManager
    <2>4. /\ \A tag \in Tag \ {call[t].tag} : strong'[tag] = strong[tag]
          /\ t \notin strong'[call[t].tag]
          /\ \A u \in Thread \ {t}, tag \in Tag : u \in strong'[tag] <=> u \in strong[tag]
      BY Zenon, <2>2, <2>3, SetStrong DEF Counts
    <2>5. Listed(t)'
      BY Zenon, <2>1, <2>2, <2>4 DEF Listed, Acquiring, Pushing, At
    <2>6. QED BY Zenon, <2>1, <2>2, <2>4, <2>5, <1>Quiet
  <1>21. ASSUME NEW t \in Thread, InsertSortArray(t) PROVE Requests'
    <2>1. hintLock = {} /\ hintLock' = {} /\ UNCHANGED <<request, call, strong>>
      BY Zenon, <1>21 DEF InsertSortArray, listVars, lockVars
    <2>2. active' = active \cup {t} /\ closed' = [closed EXCEPT ![t] = [p \in Part |-> request[p] # {}]]
      BY <1>21 DEF InsertSortArray
    <2>3. closed' \in [Thread -> [Part -> BOOLEAN]]
      <3>1. [p \in Part |-> request[p] # {}] \in [Part -> BOOLEAN] BY SMTT(20)
      <3>2. QED BY <2>2, <3>1 DEF Requests
    <2>4. \A i \in DOMAIN Order, p \in Part : ClosedAt(i, p)'
      <3> SUFFICES ASSUME NEW i \in DOMAIN Order, NEW p \in Part, Order[i] \in active'
                   PROVE  closed'[Order[i]][p] <=> request[p] # {}
        BY <2>1, <1>NoneAfter DEF ClosedAt
      <3>1. Order[i] \in Thread BY DEF Thread
      <3>2. CASE Order[i] = t BY Zenon, <2>2, <3>1, <3>2 DEF Requests
      <3>3. CASE Order[i] # t
        <4>1. ClosedAt(i, p) /\ ~ Ahead("disabling", i, p) /\ ~ Ahead("enabling", i, p)
          BY <2>1, <1>None, ClosedAtDef DEF Requests
        <4>2. closed'[Order[i]] = closed[Order[i]] BY <2>2, <3>1, <3>3 DEF Requests
        <4>3. Order[i] \in active BY <2>2, <3>3
        <4>4. QED BY Zenon, <4>1, <4>2, <4>3 DEF ClosedAt
      <3>4. QED BY SMTT(20), <3>2, <3>3
    <2>5. ClosedExact' BY Zenon, <2>4 DEF ClosedExact, ClosedAt, Ahead
    <2>6. \A u \in Thread : Listed(u)'
      BY Zenon, <1>2, <2>1 DEF Listed, Acquiring, Pushing, At, Request, CallPart
    <2>7. QED BY <2>1, <2>3, <2>5, <2>6 DEF Requests
  <1>22. ASSUME NEW t \in Thread, DisableLazyLock(t) PROVE Requests'
    <2>1. call[t].pc = "disable" /\ hintLock = {} /\ call[t].tag \in Tag /\ Listed(t)
      BY Zenon, <1>22, <1>2, DisableLazyLockEffect DEF FieldsShape, WithTag
    <2>2. UNCHANGED <<closed, active>> /\ strong' = strong
      BY <1>22 DEF DisableLazyLock, hintVars, lockVars
    <2>3. \A u \in Thread : ~ Walking(u) BY SMTT(20), <2>1 DEF Shape, CallShape
    <2>4. \A i \in DOMAIN Order, p \in Part :
            ClosedAt(i, p) /\ ~ Ahead("disabling", i, p) /\ ~ Ahead("enabling", i, p)
      BY SMTT(20), <2>1, <1>None, ClosedAtDef DEF Requests
    <2>5. CASE GivesUp(t) /\ UNCHANGED <<request, hintLock>>
      <3>1. OwnCall(t) /\ call'[t].pc = "enable" BY <2>5 DEF GivesUp, Becomes
      <3>2. Listed(t)'
        BY Zenon, <2>1, <2>2, <2>5 DEF GivesUp, Becomes, Listed, Acquiring, Pushing, At
      <3>3. QED BY SMTT(20), <2>1, <2>2, <2>5, <3>1, <3>2, <1>Quiet
    <2>6. CASE /\ request' = [request EXCEPT ![CallPart(t)] = @ \cup {Request(t)}]
               /\ \/ request[CallPart(t)] = {} /\ hintLock' = {t} /\ To(t, "disabling")
                  \/ /\ request[CallPart(t)] # {} /\ hintLock' = hintLock
                     /\ IF waitFlag[CallPart(t)] THEN To(t, "lazywait") ELSE To(t, "strong")
      <3>1. /\ request' \in [Part -> SUBSET [thr : Thread, tag : Tag]]
            /\ \A p \in Part : \A r \in request'[p] : PartOf[r.tag] = p
            /\ CallPart(t) \in Part
            /\ request'[CallPart(t)] = request[CallPart(t)] \cup {Request(t)}
            /\ \A p \in Part \ {CallPart(t)} : request'[p] = request[p]
        BY Zenon, <2>1, <2>6, AddRequest
      <3>2. \A p \in Part : request[p] \subseteq request'[p] BY Zenon, <3>1
      <3>3. CASE request[CallPart(t)] = {} /\ hintLock' = {t} /\ To(t, "disabling")
        <4>1. OwnCall(t) /\ call'[t].pc = "disabling" /\ call'[t].tag = call[t].tag /\ call'[t].at = 0
          BY Zenon, <1>2, <2>1, <3>3 DEF To, Becomes, FieldsShape
        <4>2. Listed(t)'
          <5>1. request'[CallPart(t)] = {Request(t)} BY Zenon, <3>1, <3>3
          <5>2. CallPart(t)' = CallPart(t) /\ Request(t)' = Request(t) BY <4>1 DEF CallPart, Request
          <5>3. t \notin strong[call[t].tag] BY Zenon, <2>1 DEF Listed, Acquiring
          <5>4. \A tag \in Tag : PartOf[tag] \in Part BY LazyAssumption
          <5>5. ASSUME NEW tag \in Tag, t \in strong[tag]
                PROVE  [thr |-> t, tag |-> tag] \in request[PartOf[tag]]
            BY Zenon, <2>1, <5>5 DEF Listed
          <5>6. \A tag \in Tag : t \in strong[tag] => [thr |-> t, tag |-> tag] \in request'[PartOf[tag]]
            BY Zenon, <3>2, <5>4, <5>5
          <5>7. QED BY Zenon, <2>2, <4>1, <5>1, <5>2, <5>3, <5>6 DEF Listed, Acquiring, Pushing, At
        <4>3. \A i \in DOMAIN Order, p \in Part : ClosedAt(i, p)'
          <5> SUFFICES ASSUME NEW i \in DOMAIN Order, NEW p \in Part PROVE ClosedAt(i, p)'
            OBVIOUS
          <5>1. i \in Nat /\ 0 < i BY OrderAssumption
          <5>2. /\ Ahead("disabling", i, p)' <=> CallPart(t) = p
                /\ ~ Ahead("enabling", i, p)'
            BY ZenonT(40), <3>3, <4>1, <5>1, <1>OneAfter DEF CallPart
          <5>3. ClosedAt(i, p) /\ ~ Ahead("disabling", i, p) /\ ~ Ahead("enabling", i, p) BY <2>4
          <5>4. CASE p = CallPart(t) BY Zenon, <2>2, <3>3, <5>2, <5>3, <5>4 DEF ClosedAt
          <5>5. CASE p # CallPart(t) BY ZenonT(40), <2>2, <3>1, <5>2, <5>3, <5>5 DEF ClosedAt
          <5>6. QED BY <5>4, <5>5
        <4>4. ClosedExact' BY <4>3 DEF ClosedExact, ClosedAt, Ahead
        <4>5. QED BY Zenon, <1>2, <2>2, <2>3, <3>1, <3>2, <4>1, <4>2, <4>4, <1>Thread DEF Requests
      <3>4. CASE /\ request[CallPart(t)] # {} /\ hintLock' = hintLock
                 /\ IF waitFlag[CallPart(t)] THEN To(t, "lazywait") ELSE To(t, "strong")
        <4>1. OwnCall(t) /\ call'[t].pc \in {"lazywait", "strong"} /\ call'[t].tag = call[t].tag
          BY Zenon, <3>4 DEF To, Becomes
        <4>2. Listed(t)'
          BY Zenon, <2>1, <2>2, <3>1, <3>2, <4>1, LazyAssumption
             DEF Listed, Acquiring, Pushing, At, Request, CallPart
        <4>3. \A i \in DOMAIN Order, p \in Part : ClosedAt(i, p)'
          <5> SUFFICES ASSUME NEW i \in DOMAIN Order, NEW p \in Part PROVE ClosedAt(i, p)'
            OBVIOUS
          <5>1. ~ Ahead("disabling", i, p)' /\ ~ Ahead("enabling", i, p)'
            BY Zenon, <2>1, <3>4, <1>NoneAfter
          <5>2. request'[p] # {} <=> request[p] # {} BY Zenon, <3>1, <3>4
          <5>3. ClosedAt(i, p) /\ ~ Ahead("disabling", i, p) /\ ~ Ahead("enabling", i, p) BY <2>4
          <5>4. QED BY Zenon, <2>2, <5>1, <5>2, <5>3 DEF ClosedAt
        <4>4. ClosedExact' BY Zenon, <4>3 DEF ClosedExact, ClosedAt, Ahead
        <4>5. QED BY Zenon, <1>2, <2>2, <2>3, <3>1, <3>2, <4>1, <4>2, <4>4, <1>Thread DEF Requests
      <3>5. QED BY Zenon, <2>6, <3>3, <3>4
    <2>7. QED BY Zenon, <1>22, <2>5, <2>6, DisableLazyLockEffect
  <1>23. ASSUME NEW t \in Thread, DisableNextThread(t) PROVE Requests'
    <2>1. call[t].pc = "disabling" /\ call[t].tag \in Tag /\ Listed(t) /\ CallPart(t) \in Part
      BY Zenon, <1>23, <1>2, DisableNextThreadEffect, LazyAssumption DEF FieldsShape, WithTag, CallPart
    <2>2. hintLock = {t} /\ \A u \in Thread \ {t} : ~ Walking(u)
      <3>1. \A u \in Thread : Walking(u) <=> hintLock = {u} BY DEF Shape, CallShape
      <3>2. Walking(t) BY Zenon, <2>1 DEF Walking
      <3>3. QED BY <3>1, <3>2
    <2>3. UNCHANGED <<request, active>> /\ strong' = strong
      BY Zenon, <1>23 DEF DisableNextThread, lockVars
    <2>4. request[CallPart(t)] # {} BY Zenon, <2>1 DEF Listed
    <2>5. \A i \in DOMAIN Order, p \in Part :
            /\ ClosedAt(i, p) /\ ~ Ahead("enabling", i, p)
            /\ Ahead("disabling", i, p) <=> CallPart(t) = p /\ call[t].at < i
      BY Zenon, <2>1, <2>2, <1>One, ClosedAtDef DEF Requests
    <2>6. CASE /\ call[t].at < Len(Order)
               /\ closed' = [closed EXCEPT ![Order[call[t].at + 1]][CallPart(t)] =
                                @ \/ Order[call[t].at + 1] \in active]
               /\ Becomes(t, "disabling", call[t].tag, call[t].next, call[t].at + 1, call[t].n,
                          NeedWait(t, Order[call[t].at + 1]))
               /\ UNCHANGED <<waitFlag, hintLock>>
      <3> DEFINE k == call[t].at + 1
                 v == closed[Order[k]][CallPart(t)] \/ Order[k] \in active
      <3>1. /\ k \in DOMAIN Order /\ k \in Nat /\ call[t].at \in Nat
            /\ \A i \in DOMAIN Order \ {k} : k < i <=> call[t].at < i
        <4>1. call[t].at \in Nat BY SMTT(20) DEF Shape, CallType
        <4>2. DOMAIN Order = 1..Len(Order) /\ Len(Order) \in Nat /\ call[t].at < Len(Order)
          BY SMTT(20), <2>6, OrderAssumption
        <4>3. QED BY ONLY <4>1, <4>2
      <3>2. Order[k] \in Thread BY <3>1 DEF Thread
      <3>3. OwnCall(t) /\ call'[t].pc = "disabling" /\ call'[t].tag = call[t].tag /\ call'[t].at = k
        BY Zenon, <2>6 DEF Becomes
      <3>4. /\ closed' \in [Thread -> [Part -> BOOLEAN]]
            /\ closed'[Order[k]][CallPart(t)] = v
            /\ \A u \in Thread, p \in Part : u # Order[k] \/ p # CallPart(t) => closed'[u][p] = closed[u][p]
        <4>1. v \in BOOLEAN OBVIOUS
        <4>2. closed' = [closed EXCEPT ![Order[k]][CallPart(t)] = v] BY Zenon, <2>6
        <4> HIDE DEF v, k
        <4>3. QED BY Zenon, <2>1, <3>2, <4>1, <4>2 DEF Requests
      <3>5. Listed(t)'
        BY Zenon, <2>1, <2>3, <3>3 DEF Listed, Acquiring, Pushing, At, Request, CallPart
      <3> HIDE DEF k
      <3>6. \A i \in DOMAIN Order, p \in Part : ClosedAt(i, p)'
        <4> SUFFICES ASSUME NEW i \in DOMAIN Order, NEW p \in Part PROVE ClosedAt(i, p)'
          OBVIOUS
        <4>1. Order[i] \in Thread /\ (Order[i] = Order[k] => i = k) BY <3>1, OrderAssumption DEF Thread
        <4>2. /\ Ahead("disabling", i, p)' <=> CallPart(t) = p /\ k < i
              /\ ~ Ahead("enabling", i, p)'
          BY Zenon, <2>2, <2>6, <3>3, <1>OneAfter DEF CallPart
        <4>3. /\ ClosedAt(i, p) /\ ~ Ahead("enabling", i, p)
              /\ Ahead("disabling", i, p) <=> CallPart(t) = p /\ call[t].at < i
          BY Zenon, <2>5
        <4>4. CASE p = CallPart(t) /\ i = k
          <5>1. ~ (k < k) BY <3>1
          <5>2. Order[k] \in active' => closed'[Order[k]][p] BY Zenon, <2>3, <3>4, <4>4
          <5>3. QED BY Zenon, <2>3, <2>4, <4>2, <4>4, <5>1, <5>2 DEF ClosedAt
        <4>5. CASE p # CallPart(t) \/ i # k
          <5>1. closed'[Order[i]][p] = closed[Order[i]][p] BY SMTT(20), <3>4, <4>1, <4>5
          <5>2. Ahead("disabling", i, p)' <=> Ahead("disabling", i, p) BY SMTT(20), <3>1, <4>2, <4>3, <4>5
          <5>3. QED BY Zenon, <2>3, <4>2, <4>3, <5>1, <5>2 DEF ClosedAt
        <4>6. QED BY <4>4, <4>5
      <3>7. ClosedExact' BY Zenon, <3>6 DEF ClosedExact, ClosedAt, Ahead
      <3>8. QED BY Zenon, <1>2, <2>3, <3>3, <3>4, <3>5, <3>7, <1>Thread DEF Requests
    <2>7. CASE /\ call[t].at = Len(Order)
               /\ hintLock' = {}
               /\ Becomes(t, IF call[t].found THEN "lazywait" ELSE "strong", call[t].tag,
                          call[t].next, 0, call[t].n, FALSE)
               /\ UNCHANGED closed
      <3>1. OwnCall(t) /\ call'[t].pc \in {"lazywait", "strong"} /\ call'[t].tag = call[t].tag
        BY Zenon, <2>7 DEF Becomes
      <3>2. Listed(t)'
        BY Zenon, <2>1, <2>3, <3>1 DEF Listed, Acquiring, Pushing, At, Request, CallPart
      <3>3. \A i \in DOMAIN Order, p \in Part : ClosedAt(i, p)'
        <4> SUFFICES ASSUME NEW i \in DOMAIN Order, NEW p \in Part PROVE ClosedAt(i, p)'
          OBVIOUS
        <4>1. ~ Ahead("disabling", i, p)' /\ ~ Ahead("enabling", i, p)' BY SMTT(20), <2>7, <1>NoneAfter
        <4>2. ~ (call[t].at < i)
          <5>1. DOMAIN Order = 1..Len(Order) /\ Len(Order) \in Nat BY OrderAssumption
          <5>2. call[t].at = Len(Order) BY SMTT(20), <2>7
          <5>3. QED BY ONLY <5>1, <5>2, i \in DOMAIN Order
        <4>3. QED BY ZenonT(40), <2>3, <2>5, <2>7, <4>1, <4>2 DEF ClosedAt
      <3>4. ClosedExact' BY Zenon, <3>3 DEF ClosedExact, ClosedAt, Ahead
      <3>5. closed' \in [Thread -> [Part -> BOOLEAN]] BY <2>7 DEF Requests
      <3>6. QED BY Zenon, <1>2, <2>3, <3>1, <3>2, <3>4, <3>5, <1>Thread DEF Requests
    <2>8. QED BY Zenon, <1>23, <2>6, <2>7, DisableNextThreadEffect
  <1>24. ASSUME NEW t \in Thread, EnableLazyLock(t) PROVE Requests'
    <2>1. /\ call[t].pc = "enable" /\ hintLock = {} /\ call[t].tag \in Tag /\ Listed(t)
          /\ call[t].next \in {"idle", "unlock"} /\ call[t].at = 0
      BY Zenon, <1>24, <1>2, EnableLazyLockEffect DEF FieldsShape, WithTag
    <2>2. UNCHANGED <<closed, active>> /\ strong' = strong
      BY Zenon, <1>24 DEF EnableLazyLock, hintVars, lockVars
    <2>3. \A u \in Thread : ~ Walking(u) BY <2>1 DEF Shape, CallShape
    <2>4. \A i \in DOMAIN Order, p \in Part :
            ClosedAt(i, p) /\ ~ Ahead("disabling", i, p) /\ ~ Ahead("enabling", i, p)
      BY Zenon, <2>1, <1>None, ClosedAtDef DEF Requests
    <2>5. request' = [request EXCEPT ![CallPart(t)] = @ \ {Request(t)}] BY Zenon, <1>24, EnableLazyLockEffect
    <2>6. /\ request' \in [Part -> SUBSET [thr : Thread, tag : Tag]]
          /\ \A p \in Part : \A r \in request'[p] : PartOf[r.tag] = p
          /\ CallPart(t) \in Part
          /\ request'[CallPart(t)] = request[CallPart(t)] \ {Request(t)}
          /\ \A p \in Part \ {CallPart(t)} : request'[p] = request[p]
      BY Zenon, <2>1, <2>5, DropRequest
    <2>7. \A p \in Part, u \in Thread, tag \in Tag :
            [thr |-> u, tag |-> tag] \in request[p] /\ ~ (u = t /\ tag = call[t].tag)
              => [thr |-> u, tag |-> tag] \in request'[p]
      BY Zenon, <2>6 DEF Request
    <2>8. CASE request[CallPart(t)] = {Request(t)} /\ hintLock' = {t} /\ To(t, "enabling")
      <3>1. /\ OwnCall(t) /\ call'[t].pc = "enabling" /\ call'[t].tag = call[t].tag /\ call'[t].at = 0
            /\ call'[t].next = call[t].next
        BY Zenon, <2>1, <2>8 DEF To, Becomes
      <3>2. request'[CallPart(t)] = {} BY Zenon, <2>6, <2>8
      <3>3. Listed(t)'
        BY Zenon, <2>1, <2>2, <2>7, <3>1, <3>2, LazyAssumption
           DEF Listed, Acquiring, Pushing, At, Request, CallPart
      <3>4. \A i \in DOMAIN Order, p \in Part : ClosedAt(i, p)'
        <4> SUFFICES ASSUME NEW i \in DOMAIN Order, NEW p \in Part PROVE ClosedAt(i, p)'
          OBVIOUS
        <4>1. i \in Nat /\ 0 < i BY OrderAssumption
        <4>2. /\ Ahead("enabling", i, p)' <=> CallPart(t) = p
              /\ ~ Ahead("disabling", i, p)'
          <5>1. Ahead("enabling", i, p)' <=> CallPart(t)' = p /\ call'[t].at < i
            BY Zenon, <2>8, <3>1, <1>OneAfter
          <5>2. ~ Ahead("disabling", i, p)' BY Zenon, <2>8, <3>1, <1>OneAfter
          <5>3. CallPart(t)' = CallPart(t) BY Zenon, <3>1 DEF CallPart
          <5>4. call'[t].at < i BY <3>1, <4>1
          <5>5. QED BY Zenon, <5>1, <5>2, <5>3, <5>4
        <4>3. ClosedAt(i, p) /\ ~ Ahead("disabling", i, p) /\ ~ Ahead("enabling", i, p) BY <2>4
        <4>4. CASE p = CallPart(t) BY Zenon, <2>2, <2>8, <4>2, <4>3, <4>4 DEF ClosedAt
        <4>5. CASE p # CallPart(t) BY Zenon, <2>2, <2>6, <4>2, <4>3, <4>5 DEF ClosedAt
        <4>6. QED BY <4>4, <4>5
      <3>5. ClosedExact' BY Zenon, <3>4 DEF ClosedExact, ClosedAt, Ahead
      <3>6. QED BY Zenon, <1>2, <2>2, <2>3, <2>6, <2>7, <3>1, <3>3, <3>5, <1>Thread DEF Requests
    <2>9. CASE request[CallPart(t)] # {Request(t)} /\ hintLock' = hintLock /\ Continues(t)
      <3>1. /\ OwnCall(t)
            /\ \/ call'[t].pc = "idle" /\ call'[t].tag = NoTag /\ call[t].next = "idle"
               \/ call'[t].pc = "unlock" /\ call'[t].tag = call[t].tag
        BY Zenon, <2>1, <2>9 DEF Continues, Idles, Starts, To, Becomes
      <3>2. Listed(t)'
        BY Zenon, <2>1, <2>2, <2>7, <3>1, LazyAssumption
           DEF Listed, Acquiring, Pushing, At, Request, CallPart
      <3>3. \A i \in DOMAIN Order, p \in Part : ClosedAt(i, p)'
        <4> SUFFICES ASSUME NEW i \in DOMAIN Order, NEW p \in Part PROVE ClosedAt(i, p)'
          OBVIOUS
        <4>1. ~ Ahead("disabling", i, p)' /\ ~ Ahead("enabling", i, p)'
          BY ZenonT(40), <2>1, <2>9, <1>NoneAfter
        <4>2. request'[p] # {} <=> request[p] # {}
          <5>1. \A A, r : A # {r} => (A \ {r} # {} <=> A # {}) BY ONLY SMTT(30)
          <5>2. request[CallPart(t)] # {Request(t)} BY Zenon, <2>9
          <5>3. request[CallPart(t)] \ {Request(t)} # {} <=> request[CallPart(t)] # {}
            BY Zenon, <5>1, <5>2
          <5>4. request'[CallPart(t)] # {} <=> request[CallPart(t)] # {} BY Zenon, <2>6, <5>3
          <5>5. QED BY Zenon, <2>6, <5>4
        <4>3. ClosedAt(i, p) /\ ~ Ahead("disabling", i, p) /\ ~ Ahead("enabling", i, p) BY <2>4
        <4>4. QED BY Zenon, <2>2, <4>1, <4>2, <4>3 DEF ClosedAt
      <3>4. ClosedExact' BY <3>3 DEF ClosedExact, ClosedAt, Ahead
      <3>5. QED BY Zenon, <1>2, <2>2, <2>3, <2>6, <2>7, <3>1, <3>2, <3>4, <1>Thread DEF Requests
    <2>10. QED BY Zenon, <1>24, <2>8, <2>9, EnableLazyLockEffect
  <1>25. ASSUME NEW t \in Thread, EnableNextThread(t) PROVE Requests'
    <2>1. /\ call[t].pc = "enabling" /\ call[t].tag \in Tag /\ Listed(t) /\ CallPart(t) \in Part
          /\ call[t].next \in {"idle", "unlock"}
      BY Zenon, <1>25, <1>2, EnableNextThreadEffect, LazyAssumption DEF FieldsShape, WithTag, CallPart
    <2>2. hintLock = {t} /\ \A u \in Thread \ {t} : ~ Walking(u)
      <3>1. \A u \in Thread : Walking(u) <=> hintLock = {u} BY DEF Shape, CallShape
      <3>2. Walking(t) BY <2>1 DEF Walking
      <3>3. QED BY <3>1, <3>2
    <2>3. UNCHANGED <<request, active>> /\ strong' = strong
      BY <1>25 DEF EnableNextThread, lockVars
    <2>4. request[CallPart(t)] = {} BY Zenon, <2>1 DEF Listed
    <2>5. \A i \in DOMAIN Order, p \in Part :
            /\ ClosedAt(i, p) /\ ~ Ahead("disabling", i, p)
            /\ Ahead("enabling", i, p) <=> CallPart(t) = p /\ call[t].at < i
      BY Zenon, <2>1, <2>2, <1>One, ClosedAtDef DEF Requests
    <2>6. CASE /\ call[t].at < Len(Order)
               /\ closed' = [closed EXCEPT ![Order[call[t].at + 1]][CallPart(t)] = FALSE]
               /\ Becomes(t, "enabling", call[t].tag, call[t].next, call[t].at + 1, call[t].n,
                          call[t].found)
               /\ UNCHANGED hintLock
      <3> DEFINE k == call[t].at + 1
      <3>1. /\ k \in DOMAIN Order /\ k \in Nat /\ call[t].at \in Nat
            /\ \A i \in DOMAIN Order \ {k} : k < i <=> call[t].at < i
        <4>1. call[t].at \in Nat BY DEF Shape, CallType
        <4>2. DOMAIN Order = 1..Len(Order) /\ Len(Order) \in Nat /\ call[t].at < Len(Order)
          BY SMTT(20), <2>6, OrderAssumption
        <4>3. QED BY ONLY <4>1, <4>2
      <3>2. Order[k] \in Thread BY <3>1 DEF Thread
      <3>3. /\ OwnCall(t) /\ call'[t].pc = "enabling" /\ call'[t].tag = call[t].tag /\ call'[t].at = k
            /\ call'[t].next = call[t].next
        BY <2>6 DEF Becomes
      <3>4. /\ closed' \in [Thread -> [Part -> BOOLEAN]]
            /\ closed'[Order[k]][CallPart(t)] = FALSE
            /\ \A u \in Thread, p \in Part : u # Order[k] \/ p # CallPart(t) => closed'[u][p] = closed[u][p]
        <4>1. closed' = [closed EXCEPT ![Order[k]][CallPart(t)] = FALSE] BY <2>6
        <4> HIDE DEF k
        <4>2. QED BY Zenon, <2>1, <3>2, <4>1 DEF Requests
      <3>5. Listed(t)'
        BY Zenon, <2>1, <2>3, <3>3 DEF Listed, Acquiring, Pushing, At, Request, CallPart
      <3> HIDE DEF k
      <3>6. \A i \in DOMAIN Order, p \in Part : ClosedAt(i, p)'
        <4> SUFFICES ASSUME NEW i \in DOMAIN Order, NEW p \in Part PROVE ClosedAt(i, p)'
          OBVIOUS
        <4>1. Order[i] \in Thread /\ (Order[i] = Order[k] => i = k) BY <3>1, OrderAssumption DEF Thread
        <4>2. /\ Ahead("enabling", i, p)' <=> CallPart(t) = p /\ k < i
              /\ ~ Ahead("disabling", i, p)'
          <5>1. hintLock' = {t} BY SMTT(20), <2>2, <2>6
          <5>2. CallPart(t)' = CallPart(t) BY <3>3 DEF CallPart
          <5>3. Ahead("enabling", i, p)' <=> call'[t].pc = "enabling" /\ CallPart(t)' = p /\ call'[t].at < i
            BY Zenon, <5>1, <1>OneAfter
          <5>4. Ahead("disabling", i, p)' => call'[t].pc = "disabling" BY ZenonT(40), <5>1, <1>OneAfter
          <5>5. QED BY Zenon, <3>3, <5>2, <5>3, <5>4
        <4>3. /\ ClosedAt(i, p) /\ ~ Ahead("disabling", i, p)
              /\ Ahead("enabling", i, p) <=> CallPart(t) = p /\ call[t].at < i
          BY <2>5
        <4>4. CASE p = CallPart(t) /\ i = k
          <5>1. ~ (k < k) BY <3>1
          <5>2. ~ closed'[Order[k]][p] BY <3>4, <4>4
          <5>3. QED BY ZenonT(40), <2>3, <2>4, <4>2, <4>4, <5>1, <5>2 DEF ClosedAt
        <4>5. CASE p # CallPart(t) \/ i # k
          <5>1. closed'[Order[i]][p] = closed[Order[i]][p] BY <3>4, <4>1, <4>5
          <5>2. Ahead("enabling", i, p)' <=> Ahead("enabling", i, p) BY Zenon, <3>1, <4>2, <4>3, <4>5
          <5>3. QED BY ZenonT(40), <2>3, <4>2, <4>3, <5>1, <5>2 DEF ClosedAt
        <4>6. QED BY <4>4, <4>5
      <3>7. ClosedExact' BY Zenon, <3>6 DEF ClosedExact, ClosedAt, Ahead
      <3>8. QED BY Zenon, <1>2, <2>3, <3>3, <3>4, <3>5, <3>7, <1>Thread DEF Requests
    <2>7. CASE /\ call[t].at = Len(Order)
               /\ hintLock' = {}
               /\ IF call[t].next = "idle" THEN Idles(t)
                  ELSE Becomes(t, call[t].next, call[t].tag, call[t].next, 0, call[t].n, call[t].found)
               /\ UNCHANGED closed
      <3>1. /\ OwnCall(t)
            /\ \/ call'[t].pc = "idle" /\ call'[t].tag = NoTag /\ call[t].next = "idle"
               \/ call'[t].pc = "unlock" /\ call'[t].tag = call[t].tag
        BY Zenon, <2>1, <2>7 DEF Idles, Starts, Becomes
      <3>2. Listed(t)'
        BY Zenon, <2>1, <2>3, <3>1 DEF Listed, Acquiring, Pushing, At, Request, CallPart
      <3>3. \A i \in DOMAIN Order, p \in Part : ClosedAt(i, p)'
        <4> SUFFICES ASSUME NEW i \in DOMAIN Order, NEW p \in Part PROVE ClosedAt(i, p)'
          OBVIOUS
        <4>1. ~ Ahead("disabling", i, p)' /\ ~ Ahead("enabling", i, p)' BY SMTT(20), <2>7, <1>NoneAfter
        <4>2. ~ (call[t].at < i)
          <5>1. DOMAIN Order = 1..Len(Order) /\ Len(Order) \in Nat BY OrderAssumption
          <5>2. call[t].at = Len(Order) BY <2>7
          <5>3. QED BY ONLY <5>1, <5>2, i \in DOMAIN Order
        <4>3. QED BY ZenonT(40), <2>3, <2>5, <2>7, <4>1, <4>2 DEF ClosedAt
      <3>4. ClosedExact' BY <3>3 DEF ClosedExact, ClosedAt, Ahead
      <3>5. closed' \in [Thread -> [Part -> BOOLEAN]] BY Zenon, <2>7 DEF Requests
      <3>6. QED BY Zenon, <1>2, <2>3, <3>1, <3>2, <3>4, <3>5, <1>Thread DEF Requests
    <2>8. QED BY Zenon, <1>25, <2>6, <2>7, EnableNextThreadEffect
  <1>26. QED
    BY SMTT(20), <1>1, <1>3, <1>4, <1>5, <1>6, <1>7, <1>8, <1>9, <1>10, <1>11, <1>12, <1>13, <1>14, <1>15, <1>16,
       <1>17, <1>18, <1>19, <1>20, <1>21, <1>22, <1>23, <1>24, <1>25 DEF Next, CallStep

-----------------------------------------------------------------------------
(* Flags.                                                                  *)

FlagOf(t) ==
  /\ call[t].pc \in {"disable", "disabling"} => isWaiting[t]
  /\ At(t, "lazywait") => (isWaiting[t] <=> waitFlag[CallPart(t)])

Flagged(t) ==
  \A p \in Part, tag \in Tag :
    [thr |-> t, tag |-> tag] \in request[p] /\ waitFlag[p]
      => call[t].tag = tag /\ (At(t, "lazywait") \/ call[t].pc \in {"disabling", "enable"})

(* Flags, thread by thread, *)
LEMMA FlagsOf ==
  ASSUME Flags
  PROVE  \A t \in Thread : FlagOf(t) /\ Flagged(t)
  <1> SUFFICES ASSUME NEW t \in Thread PROVE FlagOf(t) /\ Flagged(t)
    OBVIOUS
  <1>1. FlagOf(t) BY SMTT(20) DEF Flags, FlagOf
  <1>2. Flagged(t)
    <2> SUFFICES ASSUME NEW p \in Part, NEW tag \in Tag, [thr |-> t, tag |-> tag] \in request[p], waitFlag[p]
                 PROVE  call[t].tag = tag /\ (At(t, "lazywait") \/ call[t].pc \in {"disabling", "enable"})
      BY Zenon DEF Flagged
    <2> DEFINE r == [thr |-> t, tag |-> tag]
    <2>1. r.thr = t /\ r.tag = tag OBVIOUS
    <2>2. call[r.thr].tag = r.tag /\ (At(r.thr, "lazywait") \/ call[r.thr].pc \in {"disabling", "enable"})
      BY Zenon DEF Flags, WaitFlagExact
    <2> HIDE DEF r
    <2>3. QED BY <2>1, <2>2
  <1>3. QED BY <1>1, <1>2

(* and back, after a step. *)
LEMMA FlagsMake ==
  ASSUME request' \in [Part -> SUBSET [thr : Thread, tag : Tag]],
         waitFlag' \in [Part -> BOOLEAN], isWaiting' \in [Thread -> BOOLEAN],
         \A t \in Thread : FlagOf(t)' /\ Flagged(t)'
  PROVE  Flags'
  <1>1. \A p \in Part : \A r \in request'[p] :
          waitFlag'[p] => call'[r.thr].tag = r.tag
                          /\ (At(r.thr, "lazywait")' \/ call'[r.thr].pc \in {"disabling", "enable"})
    <2> SUFFICES ASSUME NEW p \in Part, NEW r \in request'[p], waitFlag'[p]
                 PROVE  call'[r.thr].tag = r.tag
                        /\ (At(r.thr, "lazywait")' \/ call'[r.thr].pc \in {"disabling", "enable"})
      BY Zenon
    <2>1. r.thr \in Thread /\ r.tag \in Tag /\ r = [thr |-> r.thr, tag |-> r.tag] OBVIOUS
    <2>2. Flagged(r.thr)' BY <2>1
    <2>3. [thr |-> r.thr, tag |-> r.tag] \in request'[p] BY SMTT(20), <2>1
    <2> DEFINE u == r.thr
               g == r.tag
    <2>4. u \in Thread /\ g \in Tag /\ [thr |-> u, tag |-> g] \in request'[p] /\ Flagged(u)'
      BY <2>1, <2>2, <2>3
    <2> HIDE DEF u, g
    <2>5. call'[u].tag = g /\ (At(u, "lazywait")' \/ call'[u].pc \in {"disabling", "enable"})
      BY Zenon, <2>4 DEF Flagged
    <2>6. QED BY <2>5 DEF u, g
  <1>2. \A t \in Thread : At(t, "lazywait")' /\ isWaiting'[t] => waitFlag'[CallPart(t)']
    BY Zenon DEF FlagOf
  <1>3. WaitFlagExact' BY Zenon, <1>1, <1>2 DEF WaitFlagExact
  <1>4. QED BY Zenon, <1>3 DEF Flags, FlagOf

(* A step of t that leaves the flags alone. *)
LEMMA FlagsThread ==
  ASSUME Flags, NEW t \in Thread, OwnCall(t), UNCHANGED waitFlag, FlagOf(t)', Flagged(t)',
         isWaiting' \in [Thread -> BOOLEAN], \A u \in Thread \ {t} : isWaiting'[u] = isWaiting[u],
         request' \in [Part -> SUBSET [thr : Thread, tag : Tag]],
         \A u \in Thread \ {t}, p \in Part, tag \in Tag :
           [thr |-> u, tag |-> tag] \in request'[p] => [thr |-> u, tag |-> tag] \in request[p]
  PROVE  Flags'
  <1>1. \A u \in Thread \ {t} : FlagOf(u)' /\ Flagged(u)'
    <2> SUFFICES ASSUME NEW u \in Thread \ {t} PROVE FlagOf(u)' /\ Flagged(u)'
      BY Zenon
    <2>1. call'[u] = call[u] /\ isWaiting'[u] = isWaiting[u] /\ waitFlag' = waitFlag BY DEF OwnCall
    <2>2. FlagOf(u) /\ Flagged(u) BY Zenon, FlagsOf
    <2>3. FlagOf(u)' BY Zenon, <2>1, <2>2 DEF FlagOf, At, CallPart
    <2>4. Flagged(u)' BY ZenonT(40), <2>1, <2>2 DEF Flagged, At
    <2>5. QED BY <2>3, <2>4
  <1>2. waitFlag' \in [Part -> BOOLEAN] BY Zenon DEF Flags
  <1>3. \A u \in Thread : FlagOf(u)' /\ Flagged(u)' BY Zenon, <1>1
  <1>4. QED BY ZenonT(40), <1>2, <1>3, FlagsMake

\* Every step keeps the flags.
LEMMA FlagsStep ==
  Shape /\ Shape' /\ Counts /\ Requests /\ Requests' /\ Flags /\ WalkRight /\ [Next]_vars => Flags'
  (* The steps that neither begin nor end a lazy wait. *)
  <1>Quiet. ASSUME Requests, Flags, NEW t \in Thread, OwnCall(t), UNCHANGED <<waitFlag, isWaiting, request>>,
                   call[t].pc \notin {"disabling", "enable"}, call'[t].pc \notin {"disable", "disabling"},
                   At(t, "lazywait") => /\ call'[t].tag = call[t].tag
                                        /\ At(t, "lazywait")' \/ call'[t].pc = "enable",
                   At(t, "lazywait")' => At(t, "lazywait")
            PROVE  Flags'
    <2> USE <1>Quiet
    <2>1. FlagOf(t) /\ Flagged(t) BY Zenon, FlagsOf
    <2>2. waitFlag' = waitFlag /\ isWaiting' = isWaiting /\ request' = request BY ZenonT(40)
    <2>3. At(t, "lazywait")' => CallPart(t)' = CallPart(t) BY Zenon DEF CallPart
    <2>4. FlagOf(t)' BY Zenon, <2>1, <2>2, <2>3 DEF FlagOf
    <2>5. Flagged(t)' BY Zenon, <2>1, <2>2 DEF Flagged
    <2>6. QED BY Zenon, <2>2, <2>4, <2>5, FlagsThread DEF Flags, Requests
  <1> SUFFICES ASSUME Shape, Shape', Counts, Requests, Requests', Flags, WalkRight, [Next]_vars
               PROVE  Flags'
    OBVIOUS
  <1>1. CASE UNCHANGED vars
    <2>1. UNCHANGED <<waitFlag, isWaiting, request, call>> BY <1>1 DEF vars
    <2>2. \A t \in Thread : FlagOf(t)' /\ Flagged(t)'
      BY Zenon, <2>1, FlagsOf DEF FlagOf, Flagged, At, CallPart
    <2>3. QED BY Zenon, <2>1, <2>2, FlagsMake DEF Flags, Requests
  <1>2. \A t \in Thread :
          /\ call[t] \in CallType /\ FieldsShape(call[t].pc, call[t].tag, call[t].next, call[t].at)
          /\ Listed(t) /\ FlagOf(t) /\ Flagged(t)
    BY SMTT(20), FlagsOf DEF Shape, CallShape, Requests
  <1>3. ASSUME NEW t \in Thread, LazyLockRollback(t) PROVE Flags'
    <2>1. UNCHANGED <<waitFlag, isWaiting, request>>
      BY <1>3 DEF LazyLockRollback, listVars
    <2>2. FieldsShape(call[t].pc, call[t].tag, call[t].next, call[t].at) BY <1>2
    <2>3. /\ OwnCall(t) /\ call[t].pc \notin {"disabling", "enable"}
          /\ call'[t].pc \notin {"disable", "disabling"}
          /\ At(t, "lazywait") => /\ call'[t].tag = call[t].tag
                                  /\ At(t, "lazywait")' \/ call'[t].pc = "enable"
          /\ At(t, "lazywait")' => At(t, "lazywait")
      BY Zenon, <1>3, <2>2, LazyLockRollbackEffect
         DEF At, Becomes, To, Pushes, GivesUp, Starts, Idles, Continues, FieldsShape
    <2>4. QED BY <2>1, <2>3, <1>Quiet
  <1>4. ASSUME NEW t \in Thread, WeakLock(t) PROVE Flags'
    <2>1. UNCHANGED <<waitFlag, isWaiting, request>>
      BY <1>4 DEF WeakLock, listVars
    <2>2. FieldsShape(call[t].pc, call[t].tag, call[t].next, call[t].at) BY <1>2
    <2>3. /\ OwnCall(t) /\ call[t].pc \notin {"disabling", "enable"}
          /\ call'[t].pc \notin {"disable", "disabling"}
          /\ At(t, "lazywait") => /\ call'[t].tag = call[t].tag
                                  /\ At(t, "lazywait")' \/ call'[t].pc = "enable"
          /\ At(t, "lazywait")' => At(t, "lazywait")
      BY Zenon, <1>4, <2>2, WeakLockEffect
         DEF At, Becomes, To, Pushes, GivesUp, Starts, Idles, Continues, FieldsShape
    <2>4. QED BY Zenon, <2>1, <2>3, <1>Quiet
  <1>5. ASSUME NEW t \in Thread, LazyWaitFails(t) PROVE Flags'
    <2>1. UNCHANGED <<waitFlag, isWaiting, request>>
      BY <1>5 DEF LazyWaitFails, listVars
    <2>2. FieldsShape(call[t].pc, call[t].tag, call[t].next, call[t].at) BY <1>2
    <2>3. /\ OwnCall(t) /\ call[t].pc \notin {"disabling", "enable"}
          /\ call'[t].pc \notin {"disable", "disabling"}
          /\ At(t, "lazywait") => /\ call'[t].tag = call[t].tag
                                  /\ At(t, "lazywait")' \/ call'[t].pc = "enable"
          /\ At(t, "lazywait")' => At(t, "lazywait")
      BY Zenon, <1>5, <2>2, LazyWaitFailsEffect
         DEF At, Becomes, To, Pushes, GivesUp, Starts, Idles, Continues, FieldsShape
    <2>4. QED BY Zenon, <2>1, <2>3, <1>Quiet
  <1>6. ASSUME NEW t \in Thread, PollWhileWaiting(t) PROVE Flags'
    <2>1. UNCHANGED <<waitFlag, isWaiting, request>>
      BY Zenon, <1>6 DEF PollWhileWaiting, listVars
    <2>2. FieldsShape(call[t].pc, call[t].tag, call[t].next, call[t].at) BY <1>2
    <2>3. /\ OwnCall(t) /\ call[t].pc \notin {"disabling", "enable"}
          /\ call'[t].pc \notin {"disable", "disabling"}
          /\ At(t, "lazywait") => /\ call'[t].tag = call[t].tag
                                  /\ At(t, "lazywait")' \/ call'[t].pc = "enable"
          /\ At(t, "lazywait")' => At(t, "lazywait")
      BY Zenon, <1>6, <2>2, PollWhileWaitingEffect
         DEF At, Becomes, To, Pushes, GivesUp, Starts, Idles, Continues, FieldsShape
    <2>4. QED BY Zenon, <2>1, <2>3, <1>Quiet
  <1>7. ASSUME NEW t \in Thread, DecreaseLazyLockCnt(t) PROVE Flags'
    <2>1. UNCHANGED <<waitFlag, isWaiting, request>>
      BY <1>7 DEF DecreaseLazyLockCnt, listVars
    <2>2. FieldsShape(call[t].pc, call[t].tag, call[t].next, call[t].at) BY <1>2
    <2>3. /\ OwnCall(t) /\ call[t].pc \notin {"disabling", "enable"}
          /\ call'[t].pc \notin {"disable", "disabling"}
          /\ At(t, "lazywait") => /\ call'[t].tag = call[t].tag
                                  /\ At(t, "lazywait")' \/ call'[t].pc = "enable"
          /\ At(t, "lazywait")' => At(t, "lazywait")
      BY ZenonT(40), <1>7, <2>2, DecreaseLazyLockCntEffect
         DEF At, Becomes, To, Pushes, GivesUp, Starts, Idles, Continues, FieldsShape
    <2>4. QED BY Zenon, <2>1, <2>3, <1>Quiet
  <1>8. ASSUME NEW t \in Thread, InsertSortArray(t) PROVE Flags'
    <2>1. UNCHANGED <<waitFlag, isWaiting, request>>
      BY <1>8 DEF InsertSortArray, listVars
    <2>2. FieldsShape(call[t].pc, call[t].tag, call[t].next, call[t].at) BY <1>2
    <2>3. /\ OwnCall(t) /\ call[t].pc \notin {"disabling", "enable"}
          /\ call'[t].pc \notin {"disable", "disabling"}
          /\ At(t, "lazywait") => /\ call'[t].tag = call[t].tag
                                  /\ At(t, "lazywait")' \/ call'[t].pc = "enable"
          /\ At(t, "lazywait")' => At(t, "lazywait")
      <3>1. call[t].pc = "idle" BY ZenonT(40), <1>8 DEF InsertSortArray, Counts, Away
      <3>2. QED BY Zenon, <1>8, <3>1, InsertSortArrayEffect DEF At, Becomes, To
    <2>4. QED BY Zenon, <2>1, <2>3, <1>Quiet
  <1>9. ASSUME NEW t \in Thread, RemoveSortArray(t) PROVE Flags'
    <2>1. UNCHANGED <<waitFlag, isWaiting, request>>
      BY <1>9 DEF RemoveSortArray, listVars
    <2>2. FieldsShape(call[t].pc, call[t].tag, call[t].next, call[t].at) BY <1>2
    <2>3. /\ OwnCall(t) /\ call[t].pc \notin {"disabling", "enable"}
          /\ call'[t].pc \notin {"disable", "disabling"}
          /\ At(t, "lazywait") => /\ call'[t].tag = call[t].tag
                                  /\ At(t, "lazywait")' \/ call'[t].pc = "enable"
          /\ At(t, "lazywait")' => At(t, "lazywait")
      BY Zenon, <1>9, <2>2, RemoveSortArrayEffect
         DEF At, Becomes, To, Pushes, GivesUp, Starts, Idles, Continues, FieldsShape
    <2>4. QED BY <2>1, <2>3, <1>Quiet
  <1>10. ASSUME NEW t \in Thread, StrongLock(t) PROVE Flags'
    <2>1. UNCHANGED <<waitFlag, isWaiting, request>>
      BY <1>10 DEF StrongLock, listVars
    <2>2. FieldsShape(call[t].pc, call[t].tag, call[t].next, call[t].at) BY <1>2
    <2>3. /\ OwnCall(t) /\ call[t].pc \notin {"disabling", "enable"}
          /\ call'[t].pc \notin {"disable", "disabling"}
          /\ At(t, "lazywait") => /\ call'[t].tag = call[t].tag
                                  /\ At(t, "lazywait")' \/ call'[t].pc = "enable"
          /\ At(t, "lazywait")' => At(t, "lazywait")
      BY Zenon, <1>10, <2>2, StrongLockEffect
         DEF At, Becomes, To, Pushes, GivesUp, Starts, Idles, Continues, FieldsShape
    <2>4. QED BY <2>1, <2>3, <1>Quiet
  <1>11. ASSUME NEW t \in Thread, UnlockInLockManager(t) PROVE Flags'
    <2>1. UNCHANGED <<waitFlag, isWaiting, request>>
      BY <1>11 DEF UnlockInLockManager, listVars
    <2>2. FieldsShape(call[t].pc, call[t].tag, call[t].next, call[t].at) BY <1>2
    <2>3. /\ OwnCall(t) /\ call[t].pc \notin {"disabling", "enable"}
          /\ call'[t].pc \notin {"disable", "disabling"}
          /\ At(t, "lazywait") => /\ call'[t].tag = call[t].tag
                                  /\ At(t, "lazywait")' \/ call'[t].pc = "enable"
          /\ At(t, "lazywait")' => At(t, "lazywait")
      BY Zenon, <1>11, <2>2, UnlockInLockManagerEffect
         DEF At, Becomes, To, Pushes, GivesUp, Starts, Idles, Continues, FieldsShape
    <2>4. QED BY Zenon, <2>1, <2>3, <1>Quiet
  <1>12. ASSUME NEW t \in Thread, ReleaseAllLocks(t) PROVE Flags'
    <2>1. UNCHANGED <<waitFlag, isWaiting, request>>
      BY Zenon, <1>12 DEF ReleaseAllLocks, listVars
    <2>2. FieldsShape(call[t].pc, call[t].tag, call[t].next, call[t].at) BY <1>2
    <2>3. /\ OwnCall(t) /\ call[t].pc \notin {"disabling", "enable"}
          /\ call'[t].pc \notin {"disable", "disabling"}
          /\ At(t, "lazywait") => /\ call'[t].tag = call[t].tag
                                  /\ At(t, "lazywait")' \/ call'[t].pc = "enable"
          /\ At(t, "lazywait")' => At(t, "lazywait")
      BY Zenon, <1>12, <2>2, ReleaseAllLocksEffect
         DEF At, Becomes, To, Pushes, GivesUp, Starts, Idles, Continues, FieldsShape
    <2>4. QED BY Zenon, <2>1, <2>3, <1>Quiet
  <1>13. ASSUME NEW t \in Thread, ReleaseAllLazyLocks(t) PROVE Flags'
    <2>1. UNCHANGED <<waitFlag, isWaiting, request>>
      BY <1>13 DEF ReleaseAllLazyLocks, listVars
    <2>2. FieldsShape(call[t].pc, call[t].tag, call[t].next, call[t].at) BY <1>2
    <2>3. /\ OwnCall(t) /\ call[t].pc \notin {"disabling", "enable"}
          /\ call'[t].pc \notin {"disable", "disabling"}
          /\ At(t, "lazywait") => /\ call'[t].tag = call[t].tag
                                  /\ At(t, "lazywait")' \/ call'[t].pc = "enable"
          /\ At(t, "lazywait")' => At(t, "lazywait")
      BY Zenon, <1>13, <2>2, ReleaseAllLazyLocksEffect
         DEF At, Becomes, To, Pushes, GivesUp, Starts, Idles, Continues, FieldsShape
    <2>4. QED BY Zenon, <2>1, <2>3, <1>Quiet
  <1>14. ASSUME NEW t \in Thread, ActuallyAcquireLazyLocks(t) PROVE Flags'
    <2>1. UNCHANGED <<waitFlag, isWaiting, request>>
      BY Zenon, <1>14 DEF ActuallyAcquireLazyLocks, listVars
    <2>2. FieldsShape(call[t].pc, call[t].tag, call[t].next, call[t].at) BY <1>2
    <2>3. /\ OwnCall(t) /\ call[t].pc \notin {"disabling", "enable"}
          /\ call'[t].pc \notin {"disable", "disabling"}
          /\ At(t, "lazywait") => /\ call'[t].tag = call[t].tag
                                  /\ At(t, "lazywait")' \/ call'[t].pc = "enable"
          /\ At(t, "lazywait")' => At(t, "lazywait")
      BY Zenon, <1>14, <2>2, ActuallyAcquireLazyLocksEffect
         DEF At, Becomes, To, Pushes, GivesUp, Starts, Idles, Continues, FieldsShape
    <2>4. QED BY Zenon, <2>1, <2>3, <1>Quiet
  <1>15. ASSUME NEW t \in Thread, NEW tag \in Tag, LazyLock(t, tag) PROVE Flags'
    <2>1. UNCHANGED <<waitFlag, isWaiting, request>>
      BY <1>15 DEF LazyLock, listVars
    <2>2. FieldsShape(call[t].pc, call[t].tag, call[t].next, call[t].at) BY <1>2
    <2>3. /\ OwnCall(t) /\ call[t].pc \notin {"disabling", "enable"}
          /\ call'[t].pc \notin {"disable", "disabling"}
          /\ At(t, "lazywait") => /\ call'[t].tag = call[t].tag
                                  /\ At(t, "lazywait")' \/ call'[t].pc = "enable"
          /\ At(t, "lazywait")' => At(t, "lazywait")
      BY ZenonT(40), <1>15, <2>2, LazyLockEffect
         DEF At, Becomes, To, Pushes, GivesUp, Starts, Idles, Continues, FieldsShape
    <2>4. QED BY Zenon, <2>1, <2>3, <1>Quiet
  <1>16. ASSUME NEW t \in Thread, NEW tag \in Tag, UnlockWeak(t, tag) PROVE Flags'
    <2>1. UNCHANGED <<waitFlag, isWaiting, request>>
      BY <1>16 DEF UnlockWeak, listVars
    <2>2. FieldsShape(call[t].pc, call[t].tag, call[t].next, call[t].at) BY <1>2
    <2>3. /\ OwnCall(t) /\ call[t].pc \notin {"disabling", "enable"}
          /\ call'[t].pc \notin {"disable", "disabling"}
          /\ At(t, "lazywait") => /\ call'[t].tag = call[t].tag
                                  /\ At(t, "lazywait")' \/ call'[t].pc = "enable"
          /\ At(t, "lazywait")' => At(t, "lazywait")
      BY Zenon, <1>16, <2>2, UnlockWeakEffect
         DEF At, Becomes, To, Pushes, GivesUp, Starts, Idles, Continues, FieldsShape
    <2>4. QED BY Zenon, <2>1, <2>3, <1>Quiet
  <1>17. ASSUME NEW t \in Thread, NEW tag \in Tag, LockStrong(t, tag) PROVE Flags'
    <2>1. UNCHANGED <<waitFlag, isWaiting, request>>
      BY <1>17 DEF LockStrong, listVars
    <2>2. FieldsShape(call[t].pc, call[t].tag, call[t].next, call[t].at) BY <1>2
    <2>3. /\ OwnCall(t) /\ call[t].pc \notin {"disabling", "enable"}
          /\ call'[t].pc \notin {"disable", "disabling"}
          /\ At(t, "lazywait") => /\ call'[t].tag = call[t].tag
                                  /\ At(t, "lazywait")' \/ call'[t].pc = "enable"
          /\ At(t, "lazywait")' => At(t, "lazywait")
      BY Zenon, <1>17, <2>2, LockStrongEffect
         DEF At, Becomes, To, Pushes, GivesUp, Starts, Idles, Continues, FieldsShape
    <2>4. QED BY Zenon, <2>1, <2>3, <1>Quiet
  <1>18. ASSUME NEW t \in Thread, NEW tag \in Tag, UnlockStrong(t, tag) PROVE Flags'
    <2>1. UNCHANGED <<waitFlag, isWaiting, request>>
      BY <1>18 DEF UnlockStrong, listVars
    <2>2. FieldsShape(call[t].pc, call[t].tag, call[t].next, call[t].at) BY <1>2
    <2>3. /\ OwnCall(t) /\ call[t].pc \notin {"disabling", "enable"}
          /\ call'[t].pc \notin {"disable", "disabling"}
          /\ At(t, "lazywait") => /\ call'[t].tag = call[t].tag
                                  /\ At(t, "lazywait")' \/ call'[t].pc = "enable"
          /\ At(t, "lazywait")' => At(t, "lazywait")
      BY Zenon, <1>18, <2>2, UnlockStrongEffect
         DEF At, Becomes, To, Pushes, GivesUp, Starts, Idles, Continues, FieldsShape
    <2>4. QED BY Zenon, <2>1, <2>3, <1>Quiet
  <1>19. ASSUME NEW t \in Thread, LazyWaitEnds(t) PROVE Flags'
    <2>1. UNCHANGED <<waitFlag, isWaiting, request>> /\ ~ isWaiting[t]
      BY <1>19 DEF LazyWaitEnds, listVars
    <2>2. /\ call[t].pc = "lazywait" /\ OwnCall(t) /\ call'[t].pc = "strong"
          /\ FlagOf(t) /\ Flagged(t) /\ call[t].tag \in Tag
      BY Zenon, <1>19, <1>2, LazyWaitEndsEffect DEF To, Becomes, FieldsShape, WithTag
    <2>3. ~ waitFlag[CallPart(t)] BY Zenon, <2>1, <2>2 DEF FlagOf, At
    <2>4. \A p \in Part, tag \in Tag : [thr |-> t, tag |-> tag] \in request[p] => PartOf[tag] = p
      BY DEF Requests
    <2>5. \A p \in Part, tag \in Tag : ~ ([thr |-> t, tag |-> tag] \in request[p] /\ waitFlag[p])
      <3> SUFFICES ASSUME NEW p \in Part, NEW tag \in Tag, [thr |-> t, tag |-> tag] \in request[p], waitFlag[p]
                   PROVE  FALSE
        BY Zenon
      <3>1. call[t].tag = tag BY Zenon, <2>2 DEF Flagged
      <3>2. CallPart(t) = p BY Zenon, <2>4, <3>1 DEF CallPart
      <3>3. QED BY Zenon, <2>3, <3>2
    <2>6. FlagOf(t)' BY SMTT(20), <2>2 DEF FlagOf, At
    <2>7. Flagged(t)' BY <2>1, <2>5 DEF Flagged
    <2>8. QED BY Zenon, <2>1, <2>2, <2>6, <2>7, FlagsThread DEF Flags, Requests
  <1>20. ASSUME NEW t \in Thread, BeginLazyWait(t) PROVE Flags'
    <2>1. UNCHANGED <<waitFlag, request>> /\ isWaiting' = [isWaiting EXCEPT ![t] = TRUE]
      BY <1>20 DEF BeginLazyWait, listVars
    <2>2. call[t].pc = "wait" /\ OwnCall(t) /\ call'[t].pc = "disable" /\ Flagged(t)
      BY Zenon, <1>20, <1>2, BeginLazyWaitEffect DEF To, Becomes
    <2>3. /\ isWaiting' \in [Thread -> BOOLEAN] /\ isWaiting'[t] = TRUE
          /\ \A u \in Thread \ {t} : isWaiting'[u] = isWaiting[u]
      BY <2>1 DEF Flags
    <2>4. FlagOf(t)' BY Zenon, <2>2, <2>3 DEF FlagOf, At
    <2>5. Flagged(t)' BY Zenon, <2>1, <2>2 DEF Flagged, At
    <2>6. QED BY Zenon, <2>1, <2>2, <2>3, <2>4, <2>5, FlagsThread DEF Requests
  <1>21. ASSUME NEW t \in Thread, EnableLazyLock(t) PROVE Flags'
    <2>1. /\ call[t].pc = "enable" /\ call[t].tag \in Tag /\ FlagOf(t) /\ Flagged(t)
          /\ OwnCall(t) /\ call'[t].pc \in {"enabling", "unlock", "idle"}
      BY Zenon, <1>21, <1>2, EnableLazyLockEffect
         DEF FieldsShape, WithTag, Continues, Idles, Starts, To, Becomes
    <2>2. UNCHANGED <<waitFlag, isWaiting>> BY ZenonT(40), <1>21 DEF EnableLazyLock
    <2>3. request' = [request EXCEPT ![CallPart(t)] = @ \ {Request(t)}] BY Zenon, <1>21, EnableLazyLockEffect
    <2>4. /\ CallPart(t) \in Part
          /\ request'[CallPart(t)] = request[CallPart(t)] \ {Request(t)}
          /\ \A p \in Part \ {CallPart(t)} : request'[p] = request[p]
      BY Zenon, <2>1, <2>3, DropRequest
    <2>5. \A p \in Part : request'[p] \subseteq request[p] BY SMTT(20), <2>4
    <2>6. \A p \in Part, tag \in Tag : ~ ([thr |-> t, tag |-> tag] \in request'[p] /\ waitFlag[p])
      <3> SUFFICES ASSUME NEW p \in Part, NEW tag \in Tag, [thr |-> t, tag |-> tag] \in request'[p], waitFlag[p]
                   PROVE  FALSE
        BY Zenon
      <3>1. [thr |-> t, tag |-> tag] \in request[p] BY <2>5
      <3>2. call[t].tag = tag BY Zenon, <2>1, <3>1 DEF Flagged
      <3>3. PartOf[tag] = p BY Zenon, <3>1 DEF Requests
      <3>4. QED BY <2>4, <3>2, <3>3 DEF CallPart, Request
    <2>7. FlagOf(t)' BY Zenon, <2>1 DEF FlagOf, At
    <2>8. Flagged(t)' BY <2>2, <2>6 DEF Flagged
    <2>9. QED BY Zenon, <2>1, <2>2, <2>5, <2>7, <2>8, FlagsThread DEF Flags, Requests
  <1>22. ASSUME NEW t \in Thread, EnableNextThread(t) PROVE Flags'
    <2>1. /\ call[t].pc = "enabling" /\ FlagOf(t) /\ Flagged(t)
          /\ OwnCall(t) /\ call'[t].pc \in {"enabling", "unlock", "idle"}
      BY Zenon, <1>22, <1>2, EnableNextThreadEffect DEF FieldsShape, Idles, Starts, Becomes
    <2>2. UNCHANGED <<waitFlag, isWaiting, request>> BY <1>22 DEF EnableNextThread
    <2>3. FlagOf(t)' BY Zenon, <2>1 DEF FlagOf, At
    <2>4. Flagged(t)' BY Zenon, <2>1, <2>2 DEF Flagged, At
    <2>5. QED BY Zenon, <2>1, <2>2, <2>3, <2>4, FlagsThread DEF Flags, Requests
  <1>23. ASSUME NEW t \in Thread, DisableLazyLock(t) PROVE Flags'
    <2>1. call[t].pc = "disable" /\ call[t].tag \in Tag /\ FlagOf(t) /\ Flagged(t) /\ isWaiting[t]
      BY Zenon, <1>23, <1>2, DisableLazyLockEffect DEF FieldsShape, WithTag, FlagOf
    <2>2. UNCHANGED <<waitFlag, isWaiting>> BY <1>23 DEF DisableLazyLock
    <2>3. CASE GivesUp(t) /\ UNCHANGED <<request, hintLock>>
      BY Zenon, <2>1, <2>2, <2>3, <1>Quiet DEF GivesUp, Becomes, At
    <2>4. CASE /\ request' = [request EXCEPT ![CallPart(t)] = @ \cup {Request(t)}]
               /\ \/ request[CallPart(t)] = {} /\ hintLock' = {t} /\ To(t, "disabling")
                  \/ /\ request[CallPart(t)] # {} /\ hintLock' = hintLock
                     /\ IF waitFlag[CallPart(t)] THEN To(t, "lazywait") ELSE To(t, "strong")
      <3>1. /\ CallPart(t) \in Part
            /\ request'[CallPart(t)] = request[CallPart(t)] \cup {Request(t)}
            /\ \A p \in Part \ {CallPart(t)} : request'[p] = request[p]
        BY Zenon, <2>1, <2>4, AddRequest
      <3>2. /\ OwnCall(t) /\ call'[t].tag = call[t].tag
            /\ call'[t].pc \in {"disabling", "lazywait", "strong"}
            /\ call'[t].pc = "lazywait" => waitFlag[CallPart(t)]
            /\ call'[t].pc = "strong" => ~ waitFlag[CallPart(t)]
        BY Zenon, <2>4 DEF To, Becomes
      <3>3. \A u \in Thread \ {t}, p \in Part, tag \in Tag :
              [thr |-> u, tag |-> tag] \in request'[p] => [thr |-> u, tag |-> tag] \in request[p]
        <4>1. \A u \in Thread \ {t}, tag \in Tag : [thr |-> u, tag |-> tag] # Request(t)
          BY DEF Request
        <4>2. \A p \in Part : request'[p] \subseteq request[p] \cup {Request(t)} BY Zenon, <3>1
        <4>3. QED BY Zenon, <4>1, <4>2
      <3>4. FlagOf(t)' BY Zenon, <2>1, <2>2, <3>2 DEF FlagOf, At, CallPart
      <3>5. Flagged(t)'
        <4> SUFFICES ASSUME NEW p \in Part, NEW tag \in Tag, [thr |-> t, tag |-> tag] \in request'[p], waitFlag[p]
                     PROVE  call'[t].tag = tag /\ call'[t].pc \in {"lazywait", "disabling"}
          BY Zenon, <2>2 DEF Flagged, At
        <4>1. [thr |-> t, tag |-> tag] \notin request[p] BY ZenonT(40), <2>1 DEF Flagged, At
        <4>2. p = CallPart(t) /\ [thr |-> t, tag |-> tag] = Request(t) BY Zenon, <3>1, <4>1
        <4>3. tag = call[t].tag BY <4>2 DEF Request
        <4>4. QED BY Zenon, <3>2, <4>2, <4>3
      <3>6. QED BY Zenon, <2>2, <3>2, <3>3, <3>4, <3>5, FlagsThread DEF Flags, Requests
    <2>5. QED BY Zenon, <1>23, <2>3, <2>4, DisableLazyLockEffect
  <1>24. ASSUME NEW t \in Thread, DisableNextThread(t) PROVE Flags'
    <2>1. /\ call[t].pc = "disabling" /\ call[t].tag \in Tag /\ CallPart(t) \in Part
          /\ FlagOf(t) /\ Flagged(t) /\ Listed(t) /\ isWaiting[t]
      BY Zenon, <1>24, <1>2, DisableNextThreadEffect, LazyAssumption DEF FieldsShape, WithTag, FlagOf, CallPart
    <2>2. UNCHANGED <<request, isWaiting>> BY <1>24 DEF DisableNextThread
    <2>3. request[CallPart(t)] = {Request(t)} BY Zenon, <2>1 DEF Listed
    <2>4. ASSUME NEW at, NEW found, UNCHANGED waitFlag,
                 Becomes(t, "disabling", call[t].tag, call[t].next, at, call[t].n, found)
          PROVE  Flags'
      <3>1. OwnCall(t) /\ call'[t].pc = "disabling" /\ call'[t].tag = call[t].tag BY <2>4 DEF Becomes
      <3>2. FlagOf(t)' BY Zenon, <2>1, <2>2, <3>1 DEF FlagOf, At
      <3>3. Flagged(t)' BY Zenon, <2>1, <2>2, <2>4, <3>1 DEF Flagged, At
      <3>4. QED BY Zenon, <2>2, <2>4, <3>1, <3>2, <3>3, FlagsThread DEF Flags, Requests
    <2>5. CASE /\ waitFlag' = [waitFlag EXCEPT ![CallPart(t)] = call[t].found]
               /\ Becomes(t, IF call[t].found THEN "lazywait" ELSE "strong", call[t].tag,
                          call[t].next, 0, call[t].n, FALSE)
      <3>1. /\ OwnCall(t) /\ call'[t].tag = call[t].tag /\ CallPart(t)' = CallPart(t)
            /\ call'[t].pc = IF call[t].found THEN "lazywait" ELSE "strong"
        BY <2>5 DEF Becomes, CallPart
      <3>2. /\ waitFlag' \in [Part -> BOOLEAN] /\ waitFlag'[CallPart(t)] = call[t].found
            /\ \A p \in Part \ {CallPart(t)} : waitFlag'[p] = waitFlag[p]
        <4>1. call[t].found \in BOOLEAN BY <1>2 DEF CallType
        <4>2. QED BY Zenon, <2>1, <2>5, <4>1 DEF Flags
      <3>3. FlagOf(t)' BY Zenon, <2>1, <2>2, <3>1, <3>2 DEF FlagOf, At
      <3>4. Flagged(t)'
        <4> SUFFICES ASSUME NEW p \in Part, NEW tag \in Tag, [thr |-> t, tag |-> tag] \in request[p], waitFlag'[p]
                     PROVE  call'[t].tag = tag /\ call'[t].pc = "lazywait"
          BY <2>2 DEF Flagged, At
        <4>1. PartOf[tag] = p BY Zenon DEF Requests
        <4>2. CASE p = CallPart(t)
          <5>1. tag = call[t].tag BY SMTT(20), <2>3, <4>2 DEF Request
          <5>2. QED BY Zenon, <3>1, <3>2, <4>2, <5>1
        <4>3. CASE p # CallPart(t)
          <5>1. waitFlag[p] BY Zenon, <3>2, <4>3
          <5>2. call[t].tag = tag BY Zenon, <2>1, <5>1 DEF Flagged
          <5>3. QED BY <4>1, <4>3, <5>2 DEF CallPart
        <4>4. QED BY Zenon, <4>2, <4>3
      <3>5. \A u \in Thread \ {t} : FlagOf(u)' /\ Flagged(u)'
        <4> SUFFICES ASSUME NEW u \in Thread \ {t} PROVE FlagOf(u)' /\ Flagged(u)'
          OBVIOUS
        <4>1. /\ call'[u] = call[u] /\ FlagOf(u) /\ Flagged(u) /\ Listed(u)
              /\ isWaiting' = isWaiting /\ request' = request
          BY Zenon, <1>2, <2>2, <3>1 DEF OwnCall
        <4>2. \A tag \in Tag : [thr |-> u, tag |-> tag] \notin request[CallPart(t)] BY SMTT(20), <2>3 DEF Request
        <4>3. At(u, "lazywait") => CallPart(u) \in Part /\ CallPart(u) # CallPart(t)
          <5>1. At(u, "lazywait") => call[u].tag \in Tag BY <1>2 DEF At, FieldsShape, WithTag
          <5>2. At(u, "lazywait") => Request(u) \in request[CallPart(u)] BY Zenon, <4>1 DEF Listed
          <5>3. QED BY SMTT(20), <4>2, <5>1, <5>2, LazyAssumption DEF Request, CallPart
        <4>4. At(u, "lazywait") => waitFlag'[CallPart(u)] = waitFlag[CallPart(u)] BY <3>2, <4>3
        <4>5. FlagOf(u)' BY Zenon, <4>1, <4>4 DEF FlagOf, At, CallPart
        <4>6. Flagged(u)'
          <5> SUFFICES ASSUME NEW p \in Part, NEW tag \in Tag, [thr |-> u, tag |-> tag] \in request[p], waitFlag'[p]
                       PROVE  call[u].tag = tag
                              /\ (At(u, "lazywait") \/ call[u].pc \in {"disabling", "enable"})
            BY ZenonT(40), <4>1 DEF Flagged, At
          <5>1. waitFlag[p] BY Zenon, <3>2, <4>2
          <5>2. QED BY Zenon, <4>1, <5>1 DEF Flagged
        <4>7. QED BY <4>5, <4>6
      <3>6. QED BY ZenonT(40), <2>2, <3>2, <3>3, <3>4, <3>5, FlagsMake DEF Flags, Requests
    <2>6. QED BY Zenon, <1>24, <2>4, <2>5, DisableNextThreadEffect
  <1>25. ASSUME NEW t \in Thread, WakeupAllRequests(t) PROVE Flags'
    <2> DEFINE free == Walk[PartCnt].free
    <2>1. call[t].pc = "wake" /\ hintLock = {} /\ request' = request
      BY Zenon, <1>25 DEF WakeupAllRequests
    <2>2. /\ waitFlag' = [p \in Part |-> waitFlag[p] /\ p \notin free]
          /\ isWaiting' = [u \in Thread |->
                             isWaiting[u] /\ ~ \E p \in free : \E r \in request[p] : r.thr = u]
      BY <1>25 DEF WakeupAllRequests
    <2>3. free \subseteq Part /\ \A p \in free : waitFlag[p] BY DEF WalkRight, WalkOK
    <2> HIDE DEF free
    <2>4. /\ OwnCall(t) /\ call'[t].pc \notin {"disable", "disabling"}
          /\ At(t, "lazywait")' <=> At(t, "lazywait")
          /\ At(t, "lazywait") => call'[t].tag = call[t].tag
      BY Zenon, <1>25, <1>2, WakeupAllRequestsEffect DEF Continues, Idles, Starts, To, Becomes, At, FieldsShape
    <2>5. \A u \in Thread :
            /\ call'[u].pc # "disabling" /\ call[u].pc # "disabling"
            /\ call'[u].pc = "disable" => call[u].pc = "disable"
            /\ call[u].pc = "enable" => call'[u] = call[u]
            /\ At(u, "lazywait")' <=> At(u, "lazywait")
            /\ At(u, "lazywait") => call'[u].tag = call[u].tag
      <3>1. \A u \in Thread : call[u].pc # "disabling" BY SMTT(20), <2>1 DEF Shape, CallShape, Walking
      <3>2. \A u \in Thread \ {t} : call'[u] = call[u] BY SMTT(20), <2>4 DEF OwnCall
      <3>3. QED BY Zenon, <2>1, <2>4, <3>1, <3>2 DEF At
    <2>6. \A u \in Thread, p \in free : (\E r \in request[p] : r.thr = u)
             => CallPart(u) = p /\ (At(u, "lazywait") \/ call[u].pc = "enable")
      <3> SUFFICES ASSUME NEW u \in Thread, NEW p \in free, NEW r \in request[p], r.thr = u
                   PROVE  CallPart(u) = p /\ (At(u, "lazywait") \/ call[u].pc = "enable")
        OBVIOUS
      <3>1. p \in Part /\ waitFlag[p] BY Zenon, <2>3
      <3>2. r.tag \in Tag /\ r = [thr |-> u, tag |-> r.tag] /\ PartOf[r.tag] = p BY <3>1 DEF Requests
      <3>3. [thr |-> u, tag |-> r.tag] \in request[p] BY SMTT(20), <3>2
      <3>4. Flagged(u) BY SMTT(20), <1>2
      <3>5. call[u].tag = r.tag /\ (At(u, "lazywait") \/ call[u].pc \in {"disabling", "enable"})
        <4> DEFINE g == r.tag
        <4>1. g \in Tag /\ [thr |-> u, tag |-> g] \in request[p] BY <3>2, <3>3
        <4> HIDE DEF g
        <4>2. call[u].tag = g /\ (At(u, "lazywait") \/ call[u].pc \in {"disabling", "enable"})
          BY Zenon, <3>1, <3>4, <4>1 DEF Flagged
        <4>3. QED BY <4>2 DEF g
      <3>6. QED BY SMTT(20), <2>5, <3>2, <3>5 DEF CallPart
    <2>7. \A u \in Thread : FlagOf(u)'
      <3> SUFFICES ASSUME NEW u \in Thread PROVE FlagOf(u)'
        OBVIOUS
      <3>1. FlagOf(u) /\ Listed(u) BY <1>2
      <3>2. isWaiting'[u] <=> isWaiting[u] /\ ~ \E p \in free : \E r \in request[p] : r.thr = u
        BY Zenon, <2>2
      <3>3. CASE call'[u].pc = "disable"
        <4>1. call[u].pc = "disable" /\ ~ At(u, "lazywait") BY <2>5, <3>3 DEF At
        <4>2. ~ \E p \in free : \E r \in request[p] : r.thr = u BY <2>6, <4>1
        <4>3. isWaiting'[u] BY Zenon, <3>1, <3>2, <4>1, <4>2 DEF FlagOf
        <4>4. QED BY SMTT(20), <3>3, <4>3 DEF FlagOf, At
      <3>4. CASE At(u, "lazywait")'
        <4>1. At(u, "lazywait") /\ call'[u].tag = call[u].tag BY SMTT(20), <2>5, <3>4
        <4>2. CallPart(u)' = CallPart(u) BY <4>1 DEF CallPart
        <4>3. Request(u) \in request[CallPart(u)] /\ Request(u).thr = u
          BY Zenon, <3>1, <4>1 DEF Listed, Request
        <4>4. call[u].tag \in Tag /\ CallPart(u) \in Part
          BY Zenon, <1>2, <4>1, LazyAssumption DEF At, FieldsShape, WithTag, CallPart
        <4>5. (\E p \in free : \E r \in request[p] : r.thr = u) <=> CallPart(u) \in free
          BY Zenon, <2>6, <4>3
        <4>6. waitFlag'[CallPart(u)] <=> waitFlag[CallPart(u)] /\ CallPart(u) \notin free
          BY Zenon, <2>2, <4>4
        <4>7. isWaiting[u] <=> waitFlag[CallPart(u)] BY Zenon, <3>1, <4>1 DEF FlagOf
        <4>8. isWaiting'[u] <=> waitFlag'[CallPart(u)'] BY Zenon, <3>2, <4>2, <4>5, <4>6, <4>7
        <4>9. call'[u].pc \notin {"disable", "disabling"} BY <3>4 DEF At
        <4>10. QED BY ZenonT(40), <4>8, <4>9 DEF FlagOf
      <3>5. QED BY Zenon, <2>5, <3>3, <3>4 DEF FlagOf
    <2>8. \A u \in Thread : Flagged(u)'
      <3> SUFFICES ASSUME NEW u \in Thread, NEW p \in Part, NEW tag \in Tag,
                          [thr |-> u, tag |-> tag] \in request[p], waitFlag'[p]
                   PROVE  call'[u].tag = tag
                          /\ (At(u, "lazywait")' \/ call'[u].pc \in {"disabling", "enable"})
        BY <2>1 DEF Flagged
      <3>1. waitFlag[p] BY Zenon, <2>2
      <3>2. call[u].tag = tag /\ (At(u, "lazywait") \/ call[u].pc \in {"disabling", "enable"})
        BY Zenon, <1>2, <3>1 DEF Flagged
      <3>3. QED BY Zenon, <2>5, <3>2
    <2>9. waitFlag' \in [Part -> BOOLEAN] /\ isWaiting' \in [Thread -> BOOLEAN]
      BY <2>2 DEF Flags
    <2>10. QED BY <2>1, <2>7, <2>8, <2>9, FlagsMake DEF Requests
  <1>26. QED
    BY <1>1, <1>3, <1>4, <1>5, <1>6, <1>7, <1>8, <1>9, <1>10, <1>11, <1>12, <1>13, <1>14, <1>15, <1>16,
       <1>17, <1>18, <1>19, <1>20, <1>21, <1>22, <1>23, <1>24, <1>25 DEF Next, CallStep

=============================================================================
