---------------------------- MODULE LWLockProofs ----------------------------
(***************************************************************************)
(* For any number of threads and any choice of entry points, the low half  *)
(* of the state word of a light-weight lock tells the truth about who      *)
(* holds it, an exclusive holder is alone, a thread is linked at most once *)
(* in the lists, DISALLOW_PREEMPT has one owner, and no wakeup is lost.    *)
(***************************************************************************)
EXTENDS LWLockListProofs, FiniteSetTheorems

\* The threads are finitely many, so SHARE_COUNT counts a finite set.
LEMMA CountedFinite == IsFiniteSet(Counted) /\ Cardinality(Counted) \in Nat
  <1>1. IsFiniteSet(Holder)
    BY ThreadAssumption, FS_AddElement DEF Holder
  <1>2. Counted \subseteq Holder
    BY DEF Counted
  <1> QED
    BY <1>1, <1>2, FS_Subset, FS_CardinalityType

\* The lock is free at first.
LEMMA InitIInv == Init => IInv
  <1> SUFFICES ASSUME Init PROVE IInv
    OBVIOUS
  <1> USE DEF Init
  <1>1. WordTypeOK
    BY DEF WordTypeOK, Low32, High32, Free, PCs, Holder
  <1>2. ControlInv
    BY DEF ControlInv, Dequeueing
  <1>3. \A h \in Holder : ~SOwner(h) /\ ~XOwner(h)
    BY DEF SOwner, XOwner, Holder, Dequeueing, None, S, X
  <1>4. Counted = {}
    BY <1>3 DEF Counted
  <1>5. StateWordCounts
    BY <1>3, <1>4, FS_EmptySet DEF StateWordCounts, Free
  <1> QED
    BY <1>1, <1>2, <1>3, <1>5 DEF IInv, MutualExclusion

\* A step that moves no owner and leaves SHARE_COUNT, SHARED and EXCLUSIVE alone.
LEMMA NeutralStep ==
  ASSUME IInv, WordTypeOK', ControlInv',
         low'.cnt = low.cnt, low'.shared = low.shared, low'.excl = low.excl,
         Counted' = Counted,
         \A h \in Holder : (SOwner(h)' <=> SOwner(h)) /\ (XOwner(h)' <=> XOwner(h))
  PROVE  IInv'
  BY DEF IInv, StateWordCounts, MutualExclusion


\* What the control-flow operators do to the types of the locals.
LocalsTypeOK ==
    /\ pc \in [Thread -> PCs]
    /\ op \in [Thread -> AllOps \cup {None, "LWLockRelease"}]
    /\ mode \in [Thread -> {None, S, X}]
    /\ need \in [Thread -> BOOLEAN]
    /\ waked \in [Thread -> BOOLEAN]
    /\ queued \in [Thread -> BOOLEAN]

LEMMA ReturnTypes ==
  ASSUME WordTypeOK, NEW t \in Thread, Return(t)
  PROVE  LocalsTypeOK'
  BY DEF WordTypeOK, LocalsTypeOK, Return, Goto, PCs

LEMMA GotoTypes ==
  ASSUME WordTypeOK, NEW t \in Thread, NEW l \in PCs, Goto(t, l), UNCHANGED locals
  PROVE  LocalsTypeOK'
  BY DEF WordTypeOK, LocalsTypeOK, Goto, locals

LEMMA AcquiredTypes ==
  ASSUME WordTypeOK, NEW t \in Thread, Acquired(t)
  PROVE  LocalsTypeOK' /\ held' \in [Holder -> {None, S, X}]
  <1>1. CASE queued[t]
    BY <1>1, GotoTypes DEF Acquired, PCs, WordTypeOK
  <1>2. CASE ~queued[t]
    BY <1>2, ReturnTypes DEF Acquired, ReturnHolding, WordTypeOK
  <1> QED
    BY <1>1, <1>2

LEMMA MustWaitTypes ==
  ASSUME WordTypeOK, NEW t \in Thread, MustWait(t)
  PROVE  LocalsTypeOK' /\ held' \in [Holder -> {None, S, X}]
  <1>1. CASE op[t] = "LWLockConditionalAcquire"
    BY <1>1, ReturnTypes DEF MustWait, WordTypeOK
  <1>2. CASE op[t] # "LWLockConditionalAcquire"
    BY <1>2, GotoTypes DEF MustWait, PCs, WordTypeOK
  <1> QED
    BY <1>1, <1>2

LEMMA WakeupDoneTypes ==
  ASSUME WordTypeOK, NEW t \in Thread, WakeupDone(t)
  PROVE  LocalsTypeOK' /\ held' \in [Holder -> {None, S, X}]
  BY ReturnTypes, MustWaitTypes DEF WakeupDone, WordTypeOK

LEMMA WakedTypes ==
  ASSUME WordTypeOK, NEW t \in Thread, WakedFromQueue(t)
  PROVE  LocalsTypeOK' /\ high' \in High32
  <1>1. LocalsTypeOK'
    BY DEF WordTypeOK, LocalsTypeOK, WakedFromQueue, Goto, PCs
  <1>2. high' \in High32
    BY ZenonT(60) DEF WordTypeOK, WakedFromQueue, High32
  <1> QED
    BY <1>1, <1>2

LEMMA StartStep ==
  ASSUME IInv, NEW t \in Thread, NEW o \in AllOps, NEW m \in {None, S, X}, Start(t, o, m)
  PROVE  IInv'
  <1> USE DEF IInv, Start, Goto, Return, locals
  <1>1. WordTypeOK'
    BY DEF WordTypeOK, Low32, High32, PCs, AllOps
  <1>2. ControlInv'
    BY DEF WordTypeOK, ControlInv, Dequeueing, None
  <1>3. \A h \in Holder : (SOwner(h)' <=> SOwner(h)) /\ (XOwner(h)' <=> XOwner(h))
    BY ThreadAssumption DEF WordTypeOK, ControlInv, SOwner, XOwner, Dequeueing, Holder, None, S, X
  <1>4. Counted' = Counted
    BY <1>3, ThreadAssumption DEF WordTypeOK, Counted, Holder
  <1>5. low'.cnt = low.cnt /\ low'.shared = low.shared /\ low'.excl = low.excl
    BY DEF WordTypeOK, Low32
  <1> QED
    BY <1>1, <1>2, <1>3, <1>4, <1>5, NeutralStep

LEMMA TryWakeupStep ==
  ASSUME IInv, NEW t \in Thread, LWLockTryWakeupWhenAttemptLock(t)
  PROVE  IInv'
  <1>1. WordTypeOK'
    <2> USE DEF IInv, LWLockTryWakeupWhenAttemptLock
    <2>1. CASE CheckWaiters(low, high)
      BY <2>1, GotoTypes DEF WordTypeOK, LocalsTypeOK, PCs
    <2>2. CASE ~CheckWaiters(low, high)
      BY <2>2, MustWaitTypes DEF WordTypeOK, LocalsTypeOK
    <2> QED
      BY SMTT(60), <2>1, <2>2
  <1> USE DEF IInv, LWLockTryWakeupWhenAttemptLock, MustWait, Goto, Return, locals
  <1>2. ControlInv'
    BY SMTT(60) DEF WordTypeOK, ControlInv, Dequeueing, None
  <1>3. \A h \in Holder : (SOwner(h)' <=> SOwner(h)) /\ (XOwner(h)' <=> XOwner(h))
    BY ThreadAssumption DEF WordTypeOK, ControlInv, SOwner, XOwner, Dequeueing, Holder, None, S, X
  <1>4. Counted' = Counted
    BY SMTT(20), <1>3, ThreadAssumption DEF WordTypeOK, Counted, Holder
  <1>5. low'.cnt = low.cnt /\ low'.shared = low.shared /\ low'.excl = low.excl
    BY DEF WordTypeOK, Low32
  <1> QED
    BY <1>1, <1>2, <1>3, <1>4, <1>5, NeutralStep

LEMMA QueueSelfMarkStep ==
  ASSUME IInv, NEW t \in Thread, QueueSelfMark(t)
  PROVE  IInv'
  <1> USE DEF IInv, QueueSelfMark, Goto, Return, locals
  <1>1. WordTypeOK'
    BY ZenonT(60) DEF WordTypeOK, Low32, High32, PCs, AllOps
  <1>2. ControlInv'
    BY DEF WordTypeOK, ControlInv, Dequeueing, None
  <1>3. \A h \in Holder : (SOwner(h)' <=> SOwner(h)) /\ (XOwner(h)' <=> XOwner(h))
    BY ThreadAssumption DEF WordTypeOK, ControlInv, SOwner, XOwner, Dequeueing, Holder, None, S, X
  <1>4. Counted' = Counted
    BY <1>3, ThreadAssumption DEF WordTypeOK, Counted, Holder
  <1>5. low'.cnt = low.cnt /\ low'.shared = low.shared /\ low'.excl = low.excl
    BY DEF WordTypeOK, Low32
  <1> QED
    BY <1>1, <1>2, <1>3, <1>4, <1>5, NeutralStep

LEMMA QueueSelfPushStep ==
  ASSUME IInv, NEW t \in Thread, QueueSelfPush(t)
  PROVE  IInv'
  <1> USE DEF IInv, QueueSelfPush, Goto, Return, locals
  <1>1. WordTypeOK'
    BY ZenonT(60) DEF WordTypeOK, Low32, High32, PCs, AllOps
  <1>2. ControlInv'
    BY DEF WordTypeOK, ControlInv, Dequeueing, None
  <1>3. \A h \in Holder : (SOwner(h)' <=> SOwner(h)) /\ (XOwner(h)' <=> XOwner(h))
    BY SMTT(60), ThreadAssumption DEF WordTypeOK, ControlInv, SOwner, XOwner, Dequeueing, Holder, None, S, X
  <1>4. Counted' = Counted
    BY <1>3, ThreadAssumption DEF WordTypeOK, Counted, Holder
  <1>5. low'.cnt = low.cnt /\ low'.shared = low.shared /\ low'.excl = low.excl
    BY DEF WordTypeOK, Low32
  <1> QED
    BY <1>1, <1>2, <1>3, <1>4, <1>5, NeutralStep

LEMMA SleepPostedStep ==
  ASSUME IInv, NEW t \in Thread, SleepPosted(t)
  PROVE  IInv'
  <1>1. WordTypeOK'
    <2> USE DEF IInv, SleepPosted
    <2>1. CASE waiting[t] /\ UNCHANGED <<pc, locals, high>>
      BY SMTT(60), <2>1 DEF WordTypeOK, locals
    <2>2. CASE WakedFromQueue(t)
      BY SMTT(60), <2>2, WakedTypes DEF WordTypeOK, LocalsTypeOK
    <2>3. CASE Return(t) /\ UNCHANGED high
      BY <2>3, ReturnTypes DEF WordTypeOK, LocalsTypeOK
    <2> QED
      BY SMTT(60), <2>1, <2>2, <2>3
  <1> USE DEF IInv, SleepPosted, WakedFromQueue, Goto, Return, locals
  <1>2. ControlInv'
    BY DEF WordTypeOK, ControlInv, Dequeueing, None
  <1>3. \A h \in Holder : (SOwner(h)' <=> SOwner(h)) /\ (XOwner(h)' <=> XOwner(h))
    BY ThreadAssumption DEF WordTypeOK, ControlInv, SOwner, XOwner, Dequeueing, Holder, None, S, X
  <1>4. Counted' = Counted
    BY <1>3, ThreadAssumption DEF WordTypeOK, Counted, Holder
  <1>5. low'.cnt = low.cnt /\ low'.shared = low.shared /\ low'.excl = low.excl
    BY DEF WordTypeOK, Low32
  <1> QED
    BY <1>1, <1>2, <1>3, <1>4, <1>5, NeutralStep

LEMMA SleepTimeoutStep ==
  ASSUME IInv, NEW t \in Thread, SleepTimeout(t)
  PROVE  IInv'
  <1>1. WordTypeOK'
    <2> USE DEF IInv, SleepTimeout
    <2>1. CASE waiting[t]
      <3>1. low' \in Low32
        BY ZenonT(60), <2>1 DEF WordTypeOK, Low32, WakedFromQueue
      <3>2. CASE low' = [low EXCEPT !.disallow = TRUE] /\ need' = [need EXCEPT ![t] = @ \/ ~low.disallow]
                 /\ UNCHANGED <<pc, op, mode, waked, queued, high>>
        <4>1. (need[t] \/ ~low.disallow) \in BOOLEAN
          OBVIOUS
        <4>2. need' \in [Thread -> BOOLEAN]
          BY <3>2, <4>1 DEF WordTypeOK
        <4> QED
          BY <3>1, <3>2, <4>2 DEF WordTypeOK
      <3> QED
        BY <2>1, <3>2
    <2>2. CASE ~waiting[t]
      BY SMTT(20), <2>2, WakedTypes DEF WordTypeOK, LocalsTypeOK
    <2> QED
      BY <2>1, <2>2
  <1> USE DEF IInv, SleepTimeout, WakedFromQueue, Goto, Return, locals
  <1>2. ControlInv'
    BY DEF WordTypeOK, ControlInv, Dequeueing, None
  <1>3. \A h \in Holder : (SOwner(h)' <=> SOwner(h)) /\ (XOwner(h)' <=> XOwner(h))
    BY SMTT(60), ThreadAssumption DEF WordTypeOK, ControlInv, SOwner, XOwner, Dequeueing, Holder, None, S, X
  <1>4. Counted' = Counted
    BY <1>3, ThreadAssumption DEF WordTypeOK, Counted, Holder
  <1>5. low'.cnt = low.cnt /\ low'.shared = low.shared /\ low'.excl = low.excl
    BY DEF WordTypeOK, Low32
  <1> QED
    BY <1>1, <1>2, <1>3, <1>4, <1>5, NeutralStep

LEMMA UnrelatedPostStep ==
  ASSUME IInv, NEW t \in Thread, UnrelatedPost(t)
  PROVE  IInv'
  <1> USE DEF IInv, UnrelatedPost, Goto, Return, locals
  <1>1. WordTypeOK'
    BY SMTT(60) DEF WordTypeOK, Low32, High32, PCs, AllOps
  <1>2. ControlInv'
    BY SMTT(60) DEF WordTypeOK, ControlInv, Dequeueing, None
  <1>3. \A h \in Holder : (SOwner(h)' <=> SOwner(h)) /\ (XOwner(h)' <=> XOwner(h))
    BY ThreadAssumption DEF WordTypeOK, ControlInv, SOwner, XOwner, Dequeueing, Holder, None, S, X
  <1>4. Counted' = Counted
    BY <1>3, ThreadAssumption DEF WordTypeOK, Counted, Holder
  <1>5. low'.cnt = low.cnt /\ low'.shared = low.shared /\ low'.excl = low.excl
    BY DEF WordTypeOK, Low32
  <1> QED
    BY SMTT(60), <1>1, <1>2, <1>3, <1>4, <1>5, NeutralStep

LEMMA DequeueSelfLockStep ==
  ASSUME IInv, NEW t \in Thread, DequeueSelfLock(t)
  PROVE  IInv'
  <1> USE DEF IInv, DequeueSelfLock, Goto, Return, locals
  <1>1. WordTypeOK'
    BY ZenonT(60) DEF WordTypeOK, Low32, High32, PCs, AllOps
  <1>2. ControlInv'
    BY DEF WordTypeOK, ControlInv, Dequeueing, None
  <1>3. \A h \in Holder : (SOwner(h)' <=> SOwner(h)) /\ (XOwner(h)' <=> XOwner(h))
    BY ThreadAssumption DEF WordTypeOK, ControlInv, SOwner, XOwner, Dequeueing, Holder, None, S, X
  <1>4. Counted' = Counted
    BY <1>3, ThreadAssumption DEF WordTypeOK, Counted, Holder
  <1>5. low'.cnt = low.cnt /\ low'.shared = low.shared /\ low'.excl = low.excl
    BY DEF WordTypeOK, Low32
  <1> QED
    BY SMTT(20), <1>1, <1>2, <1>3, <1>4, <1>5, NeutralStep

LEMMA DequeueSelfUnlockStep ==
  ASSUME IInv, NEW t \in Thread, DequeueSelfUnlock(t)
  PROVE  IInv'
  <1>1. WordTypeOK'
    <2> USE DEF IInv, DequeueSelfUnlock
    <2>1. high' \in High32
      BY ZenonT(60) DEF WordTypeOK, High32
    <2>2. CASE pc[t] = "dqFound"
      BY SMTT(60), <2>1, <2>2, ReturnTypes DEF WordTypeOK, LocalsTypeOK, ReturnHolding
    <2>3. CASE pc[t] # "dqFound"
      BY SMTT(20), <2>1, <2>3, GotoTypes DEF WordTypeOK, LocalsTypeOK, PCs
    <2> QED
      BY <2>2, <2>3
  <1> USE DEF IInv, DequeueSelfUnlock, ReturnHolding, Goto, Return, locals
  <1>2. ControlInv'
    BY DEF WordTypeOK, ControlInv, Dequeueing, Holder, None
  <1>3. \A h \in Holder : (SOwner(h)' <=> SOwner(h)) /\ (XOwner(h)' <=> XOwner(h))
    BY ThreadAssumption DEF WordTypeOK, ControlInv, SOwner, XOwner, Dequeueing, Holder, None, S, X
  <1>4. Counted' = Counted
    BY <1>3, ThreadAssumption DEF WordTypeOK, Counted, Holder
  <1>5. low'.cnt = low.cnt /\ low'.shared = low.shared /\ low'.excl = low.excl
    BY DEF WordTypeOK, Low32
  <1> QED
    BY <1>1, <1>2, <1>3, <1>4, <1>5, NeutralStep

LEMMA DequeueSelfReleaseOkStep ==
  ASSUME IInv, NEW t \in Thread, DequeueSelfReleaseOk(t)
  PROVE  IInv'
  <1> USE DEF IInv, DequeueSelfReleaseOk, Goto, Return, locals
  <1>1. WordTypeOK'
    BY ZenonT(60) DEF WordTypeOK, Low32, High32, PCs, AllOps
  <1>2. ControlInv'
    BY SMTT(60) DEF WordTypeOK, ControlInv, Dequeueing, None
  <1>3. \A h \in Holder : (SOwner(h)' <=> SOwner(h)) /\ (XOwner(h)' <=> XOwner(h))
    BY ThreadAssumption DEF WordTypeOK, ControlInv, SOwner, XOwner, Dequeueing, Holder, None, S, X
  <1>4. Counted' = Counted
    BY SMTT(20), <1>3, ThreadAssumption DEF WordTypeOK, Counted, Holder
  <1>5. low'.cnt = low.cnt /\ low'.shared = low.shared /\ low'.excl = low.excl
    BY DEF WordTypeOK, Low32
  <1> QED
    BY SMTT(60), <1>1, <1>2, <1>3, <1>4, <1>5, NeutralStep

LEMMA DequeueSelfSleepStep ==
  ASSUME IInv, NEW t \in Thread, DequeueSelfSleep(t)
  PROVE  IInv'
  <1>1. WordTypeOK'
    <2> USE DEF IInv, DequeueSelfSleep
    <2>1. CASE waiting[t]
      BY SMTT(60), <2>1 DEF WordTypeOK, locals
    <2>2. CASE ~waiting[t]
      BY SMTT(60), <2>2, ReturnTypes DEF WordTypeOK, LocalsTypeOK, ReturnHolding
    <2> QED
      BY SMTT(60), <2>1, <2>2
  <1> USE DEF IInv, DequeueSelfSleep, ReturnHolding, Goto, Return, locals
  <1>2. ControlInv'
    BY SMTT(60) DEF WordTypeOK, ControlInv, Dequeueing, Holder, None
  <1>3. \A h \in Holder : (SOwner(h)' <=> SOwner(h)) /\ (XOwner(h)' <=> XOwner(h))
    BY SMTT(60), ThreadAssumption DEF WordTypeOK, ControlInv, SOwner, XOwner, Dequeueing, Holder, None, S, X
  <1>4. Counted' = Counted
    BY SMTT(60), <1>3, ThreadAssumption DEF WordTypeOK, Counted, Holder
  <1>5. low'.cnt = low.cnt /\ low'.shared = low.shared /\ low'.excl = low.excl
    BY DEF WordTypeOK, Low32
  <1> QED
    BY SMTT(60), <1>1, <1>2, <1>3, <1>4, <1>5, NeutralStep

LEMMA ReleaseShareReadStep ==
  ASSUME IInv, NEW t \in Thread, ReleaseShareRead(t)
  PROVE  IInv'
  <1>1. WordTypeOK'
    <2> USE DEF IInv, ReleaseShareRead
    <2>1. CASE CheckWaiters(low, high)
      BY SMTT(60), <2>1, GotoTypes DEF WordTypeOK, LocalsTypeOK, PCs
    <2>2. CASE ~CheckWaiters(low, high)
      BY SMTT(60), <2>2, ReturnTypes DEF WordTypeOK, LocalsTypeOK
    <2> QED
      BY SMTT(60), <2>1, <2>2
  <1> USE DEF IInv, ReleaseShareRead, Goto, Return, locals
  <1>2. ControlInv'
    BY SMTT(60) DEF WordTypeOK, ControlInv, Dequeueing, None
  <1>3. \A h \in Holder : (SOwner(h)' <=> SOwner(h)) /\ (XOwner(h)' <=> XOwner(h))
    BY SMTT(60), ThreadAssumption DEF WordTypeOK, ControlInv, SOwner, XOwner, Dequeueing, Holder, None, S, X
  <1>4. Counted' = Counted
    BY SMTT(60), <1>3, ThreadAssumption DEF WordTypeOK, Counted, Holder
  <1>5. low'.cnt = low.cnt /\ low'.shared = low.shared /\ low'.excl = low.excl
    BY DEF WordTypeOK, Low32
  <1> QED
    BY <1>1, <1>2, <1>3, <1>4, <1>5, NeutralStep

LEMMA WakeupCollectStep ==
  ASSUME IInv, NEW t \in Thread, WakeupCollect(t)
  PROVE  IInv'
  <1> USE DEF IInv, WakeupCollect, Goto, Return, locals
  <1>1. WordTypeOK'
    BY ZenonT(60) DEF WordTypeOK, Low32, High32, PCs, AllOps
  <1>2. ControlInv'
    BY SMTT(60) DEF WordTypeOK, ControlInv, Dequeueing, None
  <1>3. \A h \in Holder : (SOwner(h)' <=> SOwner(h)) /\ (XOwner(h)' <=> XOwner(h))
    BY SMTT(60), ThreadAssumption DEF WordTypeOK, ControlInv, SOwner, XOwner, Dequeueing, Holder, None, S, X
  <1>4. Counted' = Counted
    BY <1>3, ThreadAssumption DEF WordTypeOK, Counted, Holder
  <1>5. low'.cnt = low.cnt /\ low'.shared = low.shared /\ low'.excl = low.excl
    BY DEF WordTypeOK, Low32
  <1> QED
    BY SMTT(20), <1>1, <1>2, <1>3, <1>4, <1>5, NeutralStep

LEMMA WakeupFlagsStep ==
  ASSUME IInv, NEW t \in Thread, WakeupFlags(t)
  PROVE  IInv'
  <1>1. WordTypeOK'
    <2> USE DEF IInv, WakeupFlags
    <2>1. high' \in High32
      BY SMTT(60) DEF WordTypeOK, High32
    <2>2. CASE wakeup[t] = <<>>
      BY SMTT(60), <2>1, <2>2, WakeupDoneTypes DEF WordTypeOK, LocalsTypeOK
    <2>3. CASE wakeup[t] # <<>>
      BY SMTT(60), <2>1, <2>3, GotoTypes DEF WordTypeOK, LocalsTypeOK, PCs
    <2> QED
      BY SMTT(60), <2>2, <2>3
  <1> USE DEF IInv, WakeupFlags, WakeupDone, MustWait, Goto, Return, locals
  <1>2. ControlInv'
    BY SMTT(60) DEF WordTypeOK, ControlInv, Dequeueing, None
  <1>3. \A h \in Holder : (SOwner(h)' <=> SOwner(h)) /\ (XOwner(h)' <=> XOwner(h))
    BY SMTT(60), ThreadAssumption DEF WordTypeOK, ControlInv, SOwner, XOwner, Dequeueing, Holder, None, S, X
  <1>4. Counted' = Counted
    BY SMTT(60), <1>3, ThreadAssumption DEF WordTypeOK, Counted, Holder
  <1>5. low'.cnt = low.cnt /\ low'.shared = low.shared /\ low'.excl = low.excl
    BY SMTT(60) DEF WordTypeOK, Low32
  <1> QED
    BY SMTT(20), <1>1, <1>2, <1>3, <1>4, <1>5, NeutralStep

LEMMA WakeupStopStep ==
  ASSUME IInv, NEW t \in Thread, WakeupStop(t)
  PROVE  IInv'
  <1> USE DEF IInv, WakeupStop, Goto, Return, locals
  <1>1. WordTypeOK'
    BY SMTT(60) DEF WordTypeOK, Low32, High32, PCs, AllOps
  <1>2. ControlInv'
    BY SMTT(60) DEF WordTypeOK, ControlInv, Dequeueing, None
  <1>3. \A h \in Holder : (SOwner(h)' <=> SOwner(h)) /\ (XOwner(h)' <=> XOwner(h))
    BY SMTT(60), ThreadAssumption DEF WordTypeOK, ControlInv, SOwner, XOwner, Dequeueing, Holder, None, S, X
  <1>4. Counted' = Counted
    BY SMTT(60), <1>3, ThreadAssumption DEF WordTypeOK, Counted, Holder
  <1>5. low'.cnt = low.cnt /\ low'.shared = low.shared /\ low'.excl = low.excl
    BY SMTT(60) DEF WordTypeOK, Low32
  <1> QED
    BY SMTT(60), <1>1, <1>2, <1>3, <1>4, <1>5, NeutralStep

LEMMA WakeupPostStep ==
  ASSUME IInv, NEW t \in Thread, WakeupPost(t)
  PROVE  IInv'
  <1>1. WordTypeOK'
    <2> USE DEF IInv, WakeupPost
    <2>1. CASE Len(wakeup[t]) = 1
      BY SMTT(60), <2>1, WakeupDoneTypes DEF WordTypeOK, LocalsTypeOK
    <2>2. CASE Len(wakeup[t]) # 1
      BY SMTT(60), <2>2, GotoTypes DEF WordTypeOK, LocalsTypeOK, PCs
    <2> QED
      BY SMTT(60), <2>1, <2>2
  <1> USE DEF IInv, WakeupPost, WakeupDone, MustWait, Goto, Return, locals
  <1>2. ControlInv'
    BY SMTT(60) DEF WordTypeOK, ControlInv, Dequeueing, None
  <1>3. \A h \in Holder : (SOwner(h)' <=> SOwner(h)) /\ (XOwner(h)' <=> XOwner(h))
    BY SMTT(60), ThreadAssumption DEF WordTypeOK, ControlInv, SOwner, XOwner, Dequeueing, Holder, None, S, X
  <1>4. Counted' = Counted
    BY SMTT(60), <1>3, ThreadAssumption DEF WordTypeOK, Counted, Holder
  <1>5. low'.cnt = low.cnt /\ low'.shared = low.shared /\ low'.excl = low.excl
    BY SMTT(60) DEF WordTypeOK, Low32
  <1> QED
    BY SMTT(20), <1>1, <1>2, <1>3, <1>4, <1>5, NeutralStep

\* One more thread, or one thread less, behind SHARE_COUNT.
LEMMA CountUp ==
  ASSUME NEW t, t \notin Counted, Counted' = Counted \cup {t}
  PROVE  Cardinality(Counted') = Cardinality(Counted) + 1
  BY CountedFinite, FS_AddElement

LEMMA CountDown ==
  ASSUME NEW t, t \in Counted, Counted' = Counted \ {t}
  PROVE  Cardinality(Counted') = Cardinality(Counted) - 1
  BY CountedFinite, FS_RemoveElement

\* A count of one leaves room for one thread, a count of zero for none.
LEMMA CountedOne ==
  /\ \A t : t \in Counted /\ Cardinality(Counted) = 1 => Counted = {t}
  /\ Cardinality(Counted) = 0 => Counted = {}
  /\ \A t : t \in Counted => Cardinality(Counted) > 0
  <1>1. \A t : t \in Counted /\ Cardinality(Counted) = 1 => Counted = {t}
    BY SMTT(60), CountedFinite, FS_Singleton
  <1> QED
    BY <1>1, CountedFinite, FS_EmptySet

\* What is left to show of a step once the word and the owners are known.
LEMMA OwnerStep ==
  ASSUME WordTypeOK', ControlInv',
         low'.cnt = Cardinality(Counted'),
         low'.excl <=> \E h \in Holder : XOwner(h)',
         \A g, h \in Holder : XOwner(g)' /\ XOwner(h)' => g = h,
         \A h \in Holder : SOwner(h)' => low'.shared,
         ~(low'.shared /\ low'.excl)
  PROVE  IInv'
  <1>1. StateWordCounts'
    BY DEF StateWordCounts
  <1>2. MutualExclusion'
    BY SMTT(60) DEF MutualExclusion
  <1> QED
    BY SMTT(60), <1>1, <1>2 DEF IInv

\* An exclusive attempt finds the word free, or changes nothing.
LEMMA AttemptExclusiveStep ==
  ASSUME IInv, NEW t \in Thread, AttemptExclusive(t)
  PROVE  IInv'
  <1> USE DEF IInv, AttemptExclusive, Goto, Return, locals
  <1>a. CASE ExclusiveFree(low, need[t], waked[t])
    <2> USE <1>a DEF Acquired, ReturnHolding
    <2>1. low' = [low EXCEPT !.excl = TRUE, !.disallow = @ /\ ~need[t]]
      BY SMTT(60) DEF LWLockGetDesiredStateExclusive
    <2>2. low'.cnt = low.cnt /\ ~low.shared /\ ~low'.shared /\ ~low.excl /\ low'.excl
      BY SMTT(60), <2>1 DEF WordTypeOK, Low32, ExclusiveFree, Locked
    <2>3. WordTypeOK'
      <3>1. low' \in Low32
        BY ZenonT(60), <2>1 DEF WordTypeOK, Low32
      <3>2. CASE queued[t]
        BY SMTT(60), <3>1, <3>2 DEF WordTypeOK, PCs
      <3>3. CASE ~queued[t]
        BY ZenonT(60), <3>1, <3>3 DEF WordTypeOK, PCs, Holder
      <3> QED
        BY SMTT(60), <3>2, <3>3
    <2>4. ControlInv'
      BY DEF WordTypeOK, ControlInv, Dequeueing, Holder, None
    <2>5. \A h \in Holder : ~SOwner(h) /\ ~XOwner(h)
      BY SMTT(60), <2>2 DEF StateWordCounts
    <2>6. \A h \in Holder : ~SOwner(h)' /\ (XOwner(h)' <=> h = t)
      BY SMTT(60), <2>5, ThreadAssumption DEF WordTypeOK, ControlInv, SOwner, XOwner, Dequeueing, Holder, None, S, X
    <2>7. Counted' = Counted
      <3>1. pc[t] = "attempt" /\ pc'[t] \in {"idle", "dqLock"} /\ \A u \in Thread : u # t => pc'[u] = pc[u]
        BY SMTT(60) DEF WordTypeOK
      <3> QED
        BY SMTT(60), <3>1, <2>5, <2>6, ThreadAssumption DEF Counted, Holder
    <2> QED
      BY ZenonT(60), <2>2, <2>3, <2>4, <2>6, <2>7, OwnerStep DEF StateWordCounts, Holder
  <1>b. CASE ~ExclusiveFree(low, need[t], waked[t])
    <2> USE <1>b DEF MustWait
    <2>1. low' = low
      BY SMTT(60) DEF LWLockGetDesiredStateExclusive
    <2>2. WordTypeOK'
      BY ZenonT(60), <2>1 DEF WordTypeOK, PCs, AllOps
    <2>3. ControlInv'
      BY DEF WordTypeOK, ControlInv, Dequeueing, None
    <2>4. \A h \in Holder : (SOwner(h)' <=> SOwner(h)) /\ (XOwner(h)' <=> XOwner(h))
      BY SMTT(20), ThreadAssumption DEF WordTypeOK, ControlInv, SOwner, XOwner, Dequeueing, Holder, None, S, X
    <2>5. Counted' = Counted
      BY <2>4, ThreadAssumption DEF WordTypeOK, Counted, Holder
    <2> QED
      BY SMTT(20), <2>1, <2>2, <2>3, <2>4, <2>5, NeutralStep
  <1> QED
    BY <1>a, <1>b

\* The increment of a shared attempt: it owns the lock at once only under SHARED.
LEMMA AttemptShareAddStep ==
  ASSUME IInv, NEW t \in Thread, AttemptShareAdd(t)
  PROVE  IInv'
  <1> USE DEF IInv, AttemptShareAdd, Acquired, ReturnHolding, Goto, Return, locals
  <1>1. WordTypeOK'
    <2>1. low' \in Low32
      BY SMTT(60) DEF WordTypeOK, Low32
    <2>2. CASE DirectShare(low, waked[t]) /\ ~queued[t]
      BY ZenonT(60), <2>1, <2>2 DEF WordTypeOK, PCs, Holder
    <2>3. CASE ~(DirectShare(low, waked[t]) /\ ~queued[t])
      BY SMTT(60), <2>1, <2>3 DEF WordTypeOK, PCs
    <2> QED
      BY SMTT(60), <2>2, <2>3
  <1>2. ControlInv'
    BY DEF WordTypeOK, ControlInv, Dequeueing, Holder, None
  <1>3. low'.cnt = low.cnt + 1 /\ low'.shared = low.shared /\ low'.excl = low.excl
    BY SMTT(60) DEF WordTypeOK, Low32
  <1>4. \A h \in Holder : (XOwner(h)' <=> XOwner(h)) /\ (h # t => (SOwner(h)' <=> SOwner(h)))
    BY SMTT(60), ThreadAssumption DEF WordTypeOK, ControlInv, SOwner, XOwner, Dequeueing, Holder, None, S, X
  <1>5. SOwner(t)' => low.shared
    BY SMTT(60) DEF WordTypeOK, ControlInv, SOwner, Dequeueing, Holder, DirectShare, None, S
  <1>6. t \notin Counted /\ Counted' = Counted \cup {t}
    <2>1. pc[t] = "attempt" /\ \A u \in Thread : u # t => pc'[u] = pc[u]
      BY SMTT(60) DEF WordTypeOK
    <2>2. SOwner(t)' \/ pc'[t] = "cas"
      BY SMTT(60) DEF WordTypeOK, SOwner, Dequeueing, Holder
    <2>3. ~SOwner(t)
      BY <2>1 DEF ControlInv, SOwner, Dequeueing, None, S
    <2> QED
      BY SMTT(60), <1>4, <2>1, <2>2, <2>3, ThreadAssumption DEF Counted, Holder
  <1>7. low'.cnt = Cardinality(Counted')
    BY <1>3, <1>6, CountUp DEF StateWordCounts
  <1> QED
    BY SMTT(60), <1>1, <1>2, <1>3, <1>4, <1>5, <1>7, OwnerStep DEF StateWordCounts, MutualExclusion

\* A thread that turns its increment into a shared hold while SHARED is, or comes, up.
LEMMA ShareGranted ==
  ASSUME IInv, NEW t \in Thread, pc[t] = "cas", Acquired(t), UNCHANGED old,
         high' = high, low' \in Low32, ~low.excl, ~low'.excl, low'.shared, low'.cnt = low.cnt
  PROVE  IInv'
  <1>1. WordTypeOK'
    BY SMTT(60), AcquiredTypes DEF IInv, WordTypeOK, LocalsTypeOK
  <1> USE DEF IInv, Acquired, ReturnHolding, Goto, Return, locals
  <1>2. ControlInv'
    BY SMTT(60) DEF WordTypeOK, ControlInv, Dequeueing, Holder, None
  <1>3. SOwner(t)' /\ \A h \in Holder : (XOwner(h)' <=> XOwner(h)) /\ (h # t => (SOwner(h)' <=> SOwner(h)))
    BY SMTT(60), ThreadAssumption DEF WordTypeOK, ControlInv, SOwner, XOwner, Dequeueing, Holder, None, S, X
  <1>4. Counted' = Counted
    <2>1. \A u \in Thread : u # t => pc'[u] = pc[u]
      BY SMTT(60) DEF WordTypeOK
    <2> QED
      BY SMTT(60), <1>3, <2>1, ThreadAssumption DEF Counted, Holder
  <1> QED
    BY ZenonT(60), <1>1, <1>2, <1>3, <1>4, OwnerStep DEF StateWordCounts, MutualExclusion

\* A thread that takes its increment back; SHARED may go only if it was the last.
LEMMA IncrementTakenBack ==
  ASSUME IInv, NEW t \in Thread, pc[t] \in {"cas", "anyCas"}, held' = held,
         pc' \in [Thread -> PCs], pc'[t] \notin {"cas", "anyCas", "anySub"}, ~Dequeueing(t)',
         mode'[t] \in {None, mode[t]},
         \A u \in Thread : u # t => pc'[u] = pc[u] /\ mode'[u] = mode[u],
         WordTypeOK', ControlInv',
         low'.cnt = low.cnt - 1, low'.excl = low.excl,
         low'.shared => low.shared,
         low.shared /\ ~low'.shared => low.cnt = 1
  PROVE  IInv'
  <1> USE DEF IInv
  <1>1. \A h \in Holder : (XOwner(h)' <=> XOwner(h)) /\ (SOwner(h)' <=> SOwner(h))
    BY SMTT(60), ThreadAssumption DEF WordTypeOK, ControlInv, SOwner, XOwner, Dequeueing, Holder, None, S, X
  <1>2. t \in Counted /\ Counted' = Counted \ {t} /\ ~SOwner(t)
    <2>1. ~SOwner(t) /\ ~SOwner(t)'
      BY <1>1 DEF WordTypeOK, ControlInv, SOwner, XOwner, Dequeueing, Holder, None, S, X
    <2> QED
      BY SMTT(60), <1>1, <2>1, ThreadAssumption DEF Counted, Holder
  <1>3. low'.cnt = Cardinality(Counted')
    BY ZenonT(60), <1>2, CountDown DEF StateWordCounts
  <1>4. \A h \in Holder : SOwner(h)' => low'.shared
    BY ZenonT(60), <1>1, <1>2, CountedOne DEF StateWordCounts, Counted
  <1> QED
    BY SMTT(60), <1>1, <1>3, <1>4, OwnerStep DEF StateWordCounts, MutualExclusion

\* The compare-and-swap of a shared attempt.
LEMMA AttemptShareCasStep ==
  ASSUME IInv, NEW t \in Thread, AttemptShareCas(t)
  PROVE  IInv'
  <1> USE DEF IInv, AttemptShareCas
  <1>0. low \in Low32 /\ ~(low.shared /\ low.excl) /\ t \in Counted
    BY SMTT(60) DEF WordTypeOK, StateWordCounts, Counted, Holder
  <1>a. CASE DirectShare(low, waked[t])
    BY <1>0, <1>a, ShareGranted DEF DirectShare
  <1>b. CASE ~DirectShare(low, waked[t]) /\ ShareFree(low, waked[t])
    <2>1. low' = [low EXCEPT !.shared = TRUE]
      BY <1>b DEF LWLockGetDesiredStateShare
    <2> QED
      BY ZenonT(60), <1>0, <1>b, <2>1, ShareGranted DEF ShareFree, Low32
  <1>c. CASE ~DirectShare(low, waked[t]) /\ ~ShareFree(low, waked[t])
    <2>1. low' = [low EXCEPT !.cnt = @ - 1, !.shared = @ /\ ~(low.disallow /\ low.cnt = 1)]
      BY <1>c DEF LWLockGetDesiredStateShare
    <2>2. low.cnt > 0
      BY ZenonT(60), <1>0, CountedOne DEF StateWordCounts
    <2>3. /\ low' \in Low32 /\ low'.cnt = low.cnt - 1 /\ low'.excl = low.excl
          /\ low'.shared => low.shared
          /\ low.shared /\ ~low'.shared => low.cnt = 1
      <3> DEFINE sh == low.shared /\ ~(low.disallow /\ low.cnt = 1)
      <3>1. sh \in BOOLEAN /\ (sh => low.shared) /\ (low.shared /\ ~sh => low.cnt = 1)
        BY ZenonT(60), <1>0 DEF Low32
      <3>2. low' = [low EXCEPT !.cnt = low.cnt - 1, !.shared = sh]
        BY SMTT(60), <1>0, <2>1 DEF Low32
      <3> HIDE DEF sh
      <3>3. low.cnt - 1 \in Nat
        BY <1>0, <2>2 DEF Low32
      <3>4. low' \in Low32 /\ low'.cnt = low.cnt - 1 /\ low'.excl = low.excl /\ low'.shared = sh
        BY ZenonT(60), <1>0, <3>1, <3>2, <3>3 DEF Low32
      <3> QED
        BY ZenonT(60), <3>1, <3>4
    <2>4. WordTypeOK'
      <3>0. low' \in Low32 /\ high' = high /\ old' = old
        BY ZenonT(60), <2>3
      <3>1. CASE low.shared
        <4>1. Goto(t, "tryWake") /\ held' = held /\ UNCHANGED locals
          BY ZenonT(60), <1>c, <3>1
        <4>2. "tryWake" \in PCs
          BY DEF PCs
        <4>3. LocalsTypeOK'
          BY ZenonT(60), <4>1, <4>2, GotoTypes
        <4> QED
          BY ZenonT(60), <3>0, <4>1, <4>3 DEF WordTypeOK, LocalsTypeOK
      <3>2. CASE ~low.shared
        <4>1. MustWait(t)
          BY ZenonT(60), <1>c, <3>2
        <4>2. LocalsTypeOK' /\ held' \in [Holder -> {None, S, X}]
          BY ZenonT(60), <4>1, MustWaitTypes
        <4> QED
          BY ZenonT(60), <3>0, <4>2 DEF WordTypeOK, LocalsTypeOK
      <3> QED
        BY SMTT(60), <3>1, <3>2
    <2> USE DEF MustWait, Goto, Return, locals
    <2>5. ControlInv'
      BY SMTT(60), <1>c DEF WordTypeOK, ControlInv, Dequeueing, None
    <2>6. /\ pc'[t] \notin {"cas", "anyCas", "anySub"} /\ ~Dequeueing(t)' /\ held' = held
          /\ mode'[t] \in {None, mode[t]}
          /\ \A u \in Thread : u # t => pc'[u] = pc[u] /\ mode'[u] = mode[u]
      BY SMTT(60), <1>c DEF WordTypeOK, Dequeueing
    <2> QED
      BY ZenonT(60), <2>3, <2>4, <2>5, <2>6, IncrementTakenBack DEF WordTypeOK
  <1> QED
    BY ZenonT(60), <1>a, <1>b, <1>c

\* LWLockConditionalAcquireAnyMode: the increment ...
LEMMA AnyModeAddStep ==
  ASSUME IInv, NEW t \in Thread, AnyModeAdd(t)
  PROVE  IInv'
  <1> USE DEF IInv, AnyModeAdd, ReturnHolding
  <1>1. low' \in Low32 /\ low'.cnt = low.cnt + 1 /\ low'.shared = low.shared /\ low'.excl = low.excl
    BY SMTT(60) DEF WordTypeOK, Low32
  <1>2. WordTypeOK'
    <2>1. CASE low.shared
      BY SMTT(60), <1>1, <2>1, ReturnTypes DEF WordTypeOK, LocalsTypeOK, Holder
    <2>2. CASE ~low.shared
      BY SMTT(60), <1>1, <2>2, GotoTypes DEF WordTypeOK, LocalsTypeOK, PCs
    <2> QED
      BY SMTT(60), <2>1, <2>2
  <1> USE DEF Goto, Return, locals
  <1>3. ControlInv'
    BY SMTT(60) DEF WordTypeOK, ControlInv, Dequeueing, Holder, None
  <1>4. \A h \in Holder : (XOwner(h)' <=> XOwner(h)) /\ (h # t => (SOwner(h)' <=> SOwner(h)))
    BY SMTT(60), ThreadAssumption DEF WordTypeOK, ControlInv, SOwner, XOwner, Dequeueing, Holder, None, S, X
  <1>5. ~SOwner(t) /\ (SOwner(t)' => low.shared) /\ (SOwner(t)' \/ pc'[t] = "anyCas")
    BY DEF WordTypeOK, ControlInv, SOwner, XOwner, Dequeueing, Holder, None, S, X
  <1>6. t \notin Counted /\ Counted' = Counted \cup {t}
    <2>1. pc[t] = "attempt" /\ \A u \in Thread : u # t => pc'[u] = pc[u]
      BY DEF WordTypeOK
    <2> QED
      BY SMTT(60), <1>4, <1>5, <2>1, ThreadAssumption DEF Counted, Holder
  <1>7. low'.cnt = Cardinality(Counted')
    BY SMTT(60), <1>1, <1>6, CountUp DEF StateWordCounts
  <1> QED
    BY SMTT(60), <1>1, <1>2, <1>3, <1>4, <1>5, <1>7, OwnerStep DEF StateWordCounts, MutualExclusion

\* ... the compare-and-swap: shared, refused or exclusive ...
LEMMA AnyModeCasStep ==
  ASSUME IInv, NEW t \in Thread, AnyModeCas(t)
  PROVE  IInv'
  <1> USE DEF IInv, AnyModeCas
  <1>0. low \in Low32 /\ ~(low.shared /\ low.excl) /\ t \in Counted /\ pc[t] = "anyCas"
    BY DEF WordTypeOK, StateWordCounts, Counted, Holder
  <1>a. CASE low.shared /\ ReturnHolding(t, S) /\ UNCHANGED low
    <2>1. WordTypeOK'
      BY SMTT(60), <1>a, ReturnTypes DEF WordTypeOK, LocalsTypeOK, ReturnHolding, Holder
    <2> USE DEF ReturnHolding, Goto, Return
    <2>2. ControlInv'
      BY SMTT(60), <1>a DEF WordTypeOK, ControlInv, Dequeueing, Holder, None
    <2>3. SOwner(t)' /\ \A h \in Holder : (XOwner(h)' <=> XOwner(h)) /\ (h # t => (SOwner(h)' <=> SOwner(h)))
      BY SMTT(60), <1>0, <1>a, ThreadAssumption DEF WordTypeOK, ControlInv, SOwner, XOwner, Dequeueing, Holder, None, S, X
    <2>4. Counted' = Counted
      <3>1. \A u \in Thread : u # t => pc'[u] = pc[u]
        BY SMTT(60), <1>a DEF WordTypeOK
      <3> QED
        BY SMTT(60), <1>0, <2>3, <3>1, ThreadAssumption DEF Counted, Holder
    <2> QED
      BY SMTT(60), <1>a, <2>1, <2>2, <2>3, <2>4, OwnerStep DEF StateWordCounts, MutualExclusion
  <1>b. CASE low.excl /\ ~low.shared /\ low' = [low EXCEPT !.cnt = @ - 1] /\ Return(t) /\ UNCHANGED held
    <2>1. low.cnt - 1 \in Nat
      BY <1>0, CountedOne DEF StateWordCounts, Low32
    <2>2. low' \in Low32 /\ low'.cnt = low.cnt - 1 /\ low'.excl = low.excl /\ low'.shared = low.shared
      BY ZenonT(60), <1>0, <1>b, <2>1 DEF Low32
    <2>3. WordTypeOK'
      BY SMTT(60), <1>b, <2>2, ReturnTypes DEF WordTypeOK, LocalsTypeOK
    <2> USE DEF Goto, Return
    <2>4. ControlInv'
      BY SMTT(20), <1>b DEF WordTypeOK, ControlInv, Dequeueing, None
    <2>5. /\ pc'[t] \notin {"cas", "anyCas", "anySub"} /\ ~Dequeueing(t)'
          /\ mode'[t] \in {None, mode[t]}
          /\ \A u \in Thread : u # t => pc'[u] = pc[u] /\ mode'[u] = mode[u]
      BY SMTT(60), <1>b DEF WordTypeOK, Dequeueing
    <2> QED
      BY ZenonT(60), <1>0, <1>b, <2>2, <2>3, <2>4, <2>5, IncrementTakenBack DEF WordTypeOK
  <1>c. CASE ~Locked(low) /\ low' = [low EXCEPT !.excl = TRUE] /\ Goto(t, "anySub") /\ UNCHANGED <<held, locals>>
    <2>1. low' \in Low32 /\ low'.cnt = low.cnt /\ ~low'.shared /\ low'.excl /\ ~low.shared /\ ~low.excl
      BY ZenonT(60), <1>0, <1>c DEF Low32, Locked
    <2>2. WordTypeOK'
      BY SMTT(60), <1>c, <2>1, GotoTypes DEF WordTypeOK, LocalsTypeOK, PCs
    <2> USE DEF Goto, locals
    <2>3. ControlInv'
      BY SMTT(60), <1>0, <1>c DEF WordTypeOK, ControlInv, Dequeueing, None
    <2>4. \A h \in Holder : ~SOwner(h) /\ ~XOwner(h)
      BY SMTT(60), <2>1 DEF StateWordCounts
    <2>5. \A h \in Holder : ~SOwner(h)' /\ (XOwner(h)' <=> h = t)
      BY SMTT(60), <1>0, <1>c, <2>4, ThreadAssumption DEF WordTypeOK, ControlInv, SOwner, XOwner, Dequeueing, Holder, None, S, X
    <2>6. Counted' = Counted
      <3>1. pc'[t] = "anySub" /\ \A u \in Thread : u # t => pc'[u] = pc[u]
        BY SMTT(60), <1>c DEF WordTypeOK
      <3> QED
        BY SMTT(60), <1>0, <2>4, <2>5, <3>1, ThreadAssumption DEF Counted, Holder
    <2> QED
      BY SMTT(60), <2>1, <2>2, <2>3, <2>5, <2>6, OwnerStep DEF StateWordCounts, Holder
  <1> QED
    BY SMTT(20), <1>a, <1>b, <1>c

\* ... and the increment taken back under the exclusive lock.
LEMMA AnyModeSubStep ==
  ASSUME IInv, NEW t \in Thread, AnyModeSub(t)
  PROVE  IInv'
  <1> USE DEF IInv, AnyModeSub
  <1>0. low \in Low32 /\ t \in Counted /\ pc[t] = "anySub"
    BY SMTT(60) DEF WordTypeOK, Counted, Holder
  <1>1. low.cnt - 1 \in Nat
    BY <1>0, CountedOne DEF StateWordCounts, Low32
  <1>2. low' \in Low32 /\ low'.cnt = low.cnt - 1 /\ low'.excl = low.excl /\ low'.shared = low.shared
    BY SMTT(60), <1>0, <1>1 DEF Low32
  <1>3. WordTypeOK'
    BY SMTT(60), <1>2, ReturnTypes DEF WordTypeOK, LocalsTypeOK, ReturnHolding, Holder
  <1> USE DEF ReturnHolding, Goto, Return
  <1>4. ControlInv'
    BY SMTT(60) DEF WordTypeOK, ControlInv, Dequeueing, Holder, None
  <1>5. ~SOwner(t)' /\ \A h \in Holder : (XOwner(h)' <=> XOwner(h)) /\ (SOwner(h)' <=> SOwner(h))
    BY SMTT(20), <1>0, ThreadAssumption DEF WordTypeOK, ControlInv, SOwner, XOwner, Dequeueing, Holder, None, S, X
  <1>6. Counted' = Counted \ {t}
    <2>1. pc'[t] = "idle" /\ \A u \in Thread : u # t => pc'[u] = pc[u]
      BY DEF WordTypeOK
    <2> QED
      BY SMTT(60), <1>5, <2>1, ThreadAssumption DEF Counted, Holder
  <1>7. low'.cnt = Cardinality(Counted')
    BY ZenonT(60), <1>0, <1>2, <1>6, CountDown DEF StateWordCounts
  <1> QED
    BY SMTT(60), <1>2, <1>3, <1>4, <1>5, <1>7, OwnerStep DEF StateWordCounts, MutualExclusion

LEMMA LowWords ==
  /\ Free \in Low32
  /\ \A l \in Low32 : [l EXCEPT !.shared = FALSE] \in Low32
  <1>1. Free \in Low32
    BY DEF Free, Low32
  <1>2. \A l \in Low32 : [l EXCEPT !.shared = FALSE] \in Low32
    BY ZenonT(60) DEF Low32
  <1> QED
    BY <1>1, <1>2

\* Releasing an exclusive lock.
LEMMA ReleaseExclusiveStep ==
  ASSUME IInv, NEW t \in Thread, ReleaseExclusive(t)
  PROVE  IInv'
  <1> USE DEF IInv, ReleaseExclusive, BeginRelease, Goto
  <1>0. low \in Low32 /\ XOwner(t) /\ pc[t] = "idle" /\ t \in Holder
    BY DEF WordTypeOK, XOwner, Holder
  <1>1. low' \in Low32 /\ low'.cnt = low.cnt /\ low'.shared = low.shared /\ ~low'.excl /\ ~low.shared
    BY ZenonT(60), <1>0 DEF Low32, StateWordCounts
  <1>2. WordTypeOK'
    BY ZenonT(60), <1>1 DEF WordTypeOK, PCs
  <1>3. ControlInv'
    BY DEF WordTypeOK, ControlInv, Dequeueing, Holder, None
  <1>4. \A h \in Holder : ~SOwner(h) /\ (XOwner(h) => h = t)
    BY SMTT(60), <1>0, <1>1 DEF StateWordCounts, MutualExclusion
  <1>5. \A h \in Holder : ~SOwner(h)' /\ ~XOwner(h)'
    BY SMTT(60), <1>0, <1>4, ThreadAssumption DEF WordTypeOK, ControlInv, SOwner, XOwner, Dequeueing, Holder, None, S, X
  <1>6. Counted' = Counted
    <2>1. pc'[t] \in {"idle", "wkLock"} /\ \A u \in Thread : u # t => pc'[u] = pc[u]
      BY SMTT(60) DEF WordTypeOK
    <2> QED
      BY SMTT(60), <1>0, <1>4, <1>5, <2>1, ThreadAssumption DEF Counted, Holder
  <1> QED
    BY SMTT(60), <1>1, <1>2, <1>3, <1>5, <1>6, OwnerStep DEF StateWordCounts

\* Releasing a shared lock: the decrement.
LEMMA ReleaseShareStep ==
  ASSUME IInv, NEW t \in Thread, ReleaseShare(t)
  PROVE  IInv'
  <1> USE DEF IInv, ReleaseShare, BeginRelease, Goto
  <1>0. low \in Low32 /\ SOwner(t) /\ pc[t] = "idle" /\ t \in Holder /\ t \in Counted
    BY SMTT(60) DEF WordTypeOK, SOwner, Counted, Holder
  <1>1. low.cnt - 1 \in Nat /\ low.shared /\ ~low.excl
    BY <1>0, CountedOne DEF StateWordCounts, Low32
  <1>2. low' \in Low32 /\ low'.cnt = low.cnt - 1 /\ low'.shared /\ ~low'.excl
    BY <1>0, <1>1 DEF Low32
  <1>3. WordTypeOK'
    <2>1. CASE low'.cnt = 0
      BY SMTT(60), <1>1, <1>2, <2>1 DEF WordTypeOK, PCs
    <2>2. CASE low'.cnt # 0
      BY SMTT(60), <1>1, <1>2, <2>2 DEF WordTypeOK, PCs
    <2> QED
      BY SMTT(60), <2>1, <2>2
  <1>4. ControlInv'
    <2>1. pc'[t] = "relCas" => old'[t] = low' /\ low'.cnt = 0
      BY SMTT(60), <1>1, <1>2 DEF WordTypeOK, PCs
    <2>2. pc'[t] \in {"idle", "relCas"} /\ held'[t] = None
      BY SMTT(60) DEF WordTypeOK, Holder
    <2>3. mode' = mode /\ \A u \in Thread : u # t => pc'[u] = pc[u] /\ held'[u] = held[u] /\ old'[u] = old[u]
      BY DEF WordTypeOK, Holder
    <2>4. ControlInv
      BY SMTT(60)
    <2> QED
      BY ONLY SMTT(60), <1>2, <2>1, <2>2, <2>3, <2>4 DEF ControlInv, Dequeueing
  <1>5. ~SOwner(t)' /\ \A h \in Holder : (XOwner(h)' <=> XOwner(h)) /\ (h # t => (SOwner(h)' <=> SOwner(h)))
    BY SMTT(60), <1>0, ThreadAssumption DEF WordTypeOK, ControlInv, SOwner, XOwner, Dequeueing, Holder, None, S, X
  <1>6. Counted' = Counted \ {t}
    <2>1. pc'[t] \in {"idle", "relCas"} /\ \A u \in Thread : u # t => pc'[u] = pc[u]
      BY SMTT(60) DEF WordTypeOK
    <2> QED
      BY SMTT(60), <1>0, <1>5, <2>1, ThreadAssumption DEF Counted, Holder
  <1>7. Cardinality(Counted') = Cardinality(Counted) - 1 /\ low.cnt = Cardinality(Counted)
    BY ZenonT(60), <1>0, <1>6, CountDown DEF StateWordCounts
  <1> QED
    BY SMTT(60), <1>1, <1>2, <1>3, <1>4, <1>5, <1>7, OwnerStep DEF StateWordCounts, MutualExclusion

\* A release that is past its decrement clears SHARED only when the word still says
\* that nobody is counted.
LEMMA SharedCleared ==
  ASSUME IInv, NEW t \in Thread, pc[t] \in {"relCas", "relRetry"}, UNCHANGED <<held, high>>,
         WordTypeOK', ControlInv', pc'[t] \notin {"cas", "anyCas", "anySub"}, ~Dequeueing(t)',
         mode'[t] \in {None, mode[t]},
         \A u \in Thread : u # t => pc'[u] = pc[u] /\ mode'[u] = mode[u],
         low' = low \/ (low = old[t] /\ low' = [low EXCEPT !.shared = FALSE])
  PROVE  IInv'
  <1> USE DEF IInv
  <1>1. \A h \in Holder : (XOwner(h)' <=> XOwner(h)) /\ (SOwner(h)' <=> SOwner(h))
    BY ThreadAssumption DEF WordTypeOK, ControlInv, SOwner, XOwner, Dequeueing, Holder, None, S, X
  <1>2. Counted' = Counted
    BY <1>1, ThreadAssumption DEF Counted, Holder
  <1>3. CASE low' = low
    BY SMTT(60), <1>1, <1>2, <1>3, NeutralStep
  <1>4. CASE low = old[t] /\ low' = [low EXCEPT !.shared = FALSE]
    <2>1. low.cnt = 0 /\ ~low.excl /\ low'.cnt = 0 /\ ~low'.excl /\ ~low'.shared
      BY SMTT(60), <1>4 DEF ControlInv, WordTypeOK, Low32
    <2>2. \A h \in Holder : ~SOwner(h) /\ ~XOwner(h)
      BY SMTT(60), <2>1, CountedOne DEF StateWordCounts, Counted
    <2> QED
      BY SMTT(60), <1>1, <1>2, <2>1, <2>2, OwnerStep DEF StateWordCounts
  <1> QED
    BY SMTT(60), <1>3, <1>4

LEMMA ReleaseShareCasStep ==
  ASSUME IInv, NEW t \in Thread, ReleaseShareCas(t)
  PROVE  IInv'
  <1> USE DEF IInv, ReleaseShareCas
  <1>0. low \in Low32 /\ Free \in Low32 /\ [low EXCEPT !.shared = FALSE] \in Low32
    BY SMTT(60), LowWords DEF WordTypeOK
  <1>1. WordTypeOK'
    <2>1. LocalsTypeOK'
      BY GotoTypes, ReturnTypes DEF PCs
    <2>2. low' \in {low, [low EXCEPT !.shared = FALSE]}
      OBVIOUS
    <2>3. PICK l \in {low, Free} : old' = [old EXCEPT ![t] = l]
      BY SMTT(60)
    <2>4. low' \in Low32 /\ old' \in [Thread -> Low32]
      BY ZenonT(60), <1>0, <2>2, <2>3 DEF WordTypeOK
    <2> QED
      BY <2>1, <2>4 DEF WordTypeOK, LocalsTypeOK
  <1> USE DEF Goto, Return, locals
  <1>2. ControlInv'
    BY SMTT(20), <1>0 DEF WordTypeOK, ControlInv, StateWordCounts, Dequeueing, None
  <1>3. /\ pc[t] = "relCas" /\ pc'[t] \in {"relRead", "relRetry", "idle"} /\ mode'[t] \in {None, mode[t]}
        /\ \A u \in Thread : u # t => pc'[u] = pc[u] /\ mode'[u] = mode[u]
    BY SMTT(60) DEF WordTypeOK
  <1> QED
    BY SMTT(60), <1>1, <1>2, <1>3, SharedCleared DEF Dequeueing

LEMMA ReleaseShareRetryStep ==
  ASSUME IInv, NEW t \in Thread, ReleaseShareRetry(t)
  PROVE  IInv'
  <1> USE DEF IInv, ReleaseShareRetry
  <1>0. low \in Low32 /\ Free \in Low32 /\ [low EXCEPT !.shared = FALSE] \in Low32
    BY SMTT(60), LowWords DEF WordTypeOK
  <1>1. WordTypeOK'
    <2>1. LocalsTypeOK'
      BY GotoTypes, ReturnTypes DEF PCs
    <2>2. low' \in {low, [low EXCEPT !.shared = FALSE]}
      OBVIOUS
    <2>3. PICK l \in {low, Free} : old' = [old EXCEPT ![t] = l]
      BY SMTT(60)
    <2>4. low' \in Low32 /\ old' \in [Thread -> Low32]
      BY ZenonT(60), <1>0, <2>2, <2>3 DEF WordTypeOK
    <2> QED
      BY <2>1, <2>4 DEF WordTypeOK, LocalsTypeOK
  <1> USE DEF Goto, Return, locals
  <1>2. ControlInv'
    BY SMTT(20), <1>0 DEF WordTypeOK, ControlInv, Dequeueing, None
  <1>3. /\ pc[t] = "relRetry" /\ pc'[t] \in {"relRead", "idle"} /\ mode'[t] \in {None, mode[t]}
        /\ \A u \in Thread : u # t => pc'[u] = pc[u] /\ mode'[u] = mode[u]
    BY SMTT(60) DEF WordTypeOK
  <1> QED
    BY SMTT(60), <1>1, <1>2, <1>3, SharedCleared DEF Dequeueing

\* LWLockDisown and LWLockOwn hand the lock from a to b.
LEMMA HandOver ==
  ASSUME IInv, NEW a \in Holder, NEW b \in Holder, a # b, low' = low, WordTypeOK', ControlInv',
         ~SOwner(b) /\ ~XOwner(b) /\ b \notin Counted,
         ~SOwner(a)' /\ ~XOwner(a)' /\ a \notin Counted',
         SOwner(b)' <=> SOwner(a), XOwner(b)' <=> XOwner(a), b \in Counted' <=> a \in Counted,
         \A h \in Holder \ {a, b} :
             /\ SOwner(h)' <=> SOwner(h)
             /\ XOwner(h)' <=> XOwner(h)
             /\ h \in Counted' <=> h \in Counted
  PROVE  IInv'
  <1>0. Counted \subseteq Holder /\ Counted' \subseteq Holder
    BY ZenonT(60) DEF Counted, Holder
  <1>1. Cardinality(Counted') = Cardinality(Counted)
    <2>1. CASE a \in Counted
      <3>1. Counted' = (Counted \ {a}) \cup {b}
        BY SMTT(60), <1>0, <2>1
      <3>2. /\ IsFiniteSet(Counted \ {a})
            /\ Cardinality(Counted \ {a}) = Cardinality(Counted) - 1
        BY SMTT(60), <2>1, CountedFinite, FS_RemoveElement
      <3>3. Cardinality((Counted \ {a}) \cup {b}) = Cardinality(Counted \ {a}) + 1
        BY SMTT(60), <3>2, FS_AddElement
      <3> QED
        BY ONLY SMTT(60), <3>1, <3>2, <3>3, CountedFinite
    <2>2. CASE a \notin Counted
      <3>1. Counted' = Counted
        BY SMTT(60), <1>0, <2>2
      <3> QED
        BY SMTT(60), <3>1
    <2> QED
      BY SMTT(60), <2>1, <2>2
  <1>2. low'.cnt = Cardinality(Counted')
    BY SMTT(60), <1>1 DEF IInv, StateWordCounts
  <1>3. low'.excl <=> \E h \in Holder : XOwner(h)'
    BY SMTT(60) DEF IInv, StateWordCounts
  <1>4. \A g, h \in Holder : XOwner(g)' /\ XOwner(h)' => g = h
    BY SMTT(60) DEF IInv, MutualExclusion
  <1>5. \A h \in Holder : SOwner(h)' => low'.shared
    BY SMTT(60) DEF IInv, StateWordCounts
  <1> QED
    BY SMTT(60), <1>2, <1>3, <1>4, <1>5, OwnerStep, SMTT(20) DEF IInv, StateWordCounts

LEMMA LWLockDisownStep ==
  ASSUME IInv, NEW t \in Thread, LWLockDisown(t)
  PROVE  IInv'
  <1> USE DEF IInv, LWLockDisown, locals
  <1>0. t \in Holder /\ Nobody \in Holder /\ t # Nobody
    BY SMTT(60), ThreadAssumption DEF Holder
  <1>1. WordTypeOK'
    BY SMTT(60), <1>0 DEF WordTypeOK
  <1>2. ControlInv'
    <2>1. pc' = pc /\ mode' = mode /\ old' = old /\ pc[t] = "idle" /\ \A u \in Thread : u # t => held'[u] = held[u]
      BY SMTT(60), <1>0, ThreadAssumption DEF WordTypeOK, Holder
    <2>2. ControlInv
      OBVIOUS
    <2> QED
      BY ONLY SMTT(60), <2>1, <2>2 DEF ControlInv, Dequeueing
  <1>3. /\ ~SOwner(Nobody) /\ ~XOwner(Nobody) /\ ~SOwner(t)' /\ ~XOwner(t)'
        /\ SOwner(Nobody)' <=> SOwner(t)
        /\ XOwner(Nobody)' <=> XOwner(t)
        /\ \A h \in Holder \ {t, Nobody} : (SOwner(h)' <=> SOwner(h)) /\ (XOwner(h)' <=> XOwner(h))
    BY ZenonT(60), <1>0, ThreadAssumption DEF WordTypeOK, ControlInv, SOwner, XOwner, Dequeueing, Holder, None, S, X
  <1>4. /\ Nobody \notin Counted /\ t \notin Counted'
        /\ Nobody \in Counted' <=> t \in Counted
        /\ \A h \in Holder \ {t, Nobody} : h \in Counted' <=> h \in Counted
    BY SMTT(60), <1>0, <1>3, ThreadAssumption DEF Counted
  <1> QED
    BY SMTT(60), <1>0, <1>1, <1>2, <1>3, <1>4, HandOver

LEMMA LWLockOwnStep ==
  ASSUME IInv, NEW t \in Thread, LWLockOwn(t)
  PROVE  IInv'
  <1> USE DEF IInv, LWLockOwn, locals
  <1>0. t \in Holder /\ Nobody \in Holder /\ t # Nobody
    BY SMTT(60), ThreadAssumption DEF Holder
  <1>1. WordTypeOK'
    BY SMTT(60), <1>0 DEF WordTypeOK
  <1>2. ControlInv'
    <2>1. pc' = pc /\ mode' = mode /\ old' = old /\ pc[t] = "idle" /\ \A u \in Thread : u # t => held'[u] = held[u]
      BY SMTT(60), <1>0, ThreadAssumption DEF WordTypeOK, Holder
    <2>2. ControlInv
      BY SMTT(60)
    <2> QED
      BY ONLY <2>1, <2>2 DEF ControlInv, Dequeueing
  <1>3. /\ ~SOwner(t) /\ ~XOwner(t) /\ ~SOwner(Nobody)' /\ ~XOwner(Nobody)'
        /\ SOwner(t)' <=> SOwner(Nobody)
        /\ XOwner(t)' <=> XOwner(Nobody)
        /\ \A h \in Holder \ {t, Nobody} : (SOwner(h)' <=> SOwner(h)) /\ (XOwner(h)' <=> XOwner(h))
    BY SMTT(60), <1>0, ThreadAssumption DEF WordTypeOK, ControlInv, SOwner, XOwner, Dequeueing, Holder, None, S, X
  <1>4. /\ t \notin Counted /\ Nobody \notin Counted'
        /\ t \in Counted' <=> Nobody \in Counted
        /\ \A h \in Holder \ {t, Nobody} : h \in Counted' <=> h \in Counted
    BY SMTT(60), <1>0, <1>3, ThreadAssumption DEF Counted
  <1> QED
    BY SMTT(60), <1>0, <1>1, <1>2, <1>3, <1>4, HandOver

\* Every step of every thread preserves the invariant.
LEMMA NextIInv == IInv /\ [Next]_vars => IInv'
  <1> SUFFICES ASSUME IInv, [Next]_vars PROVE IInv'
    BY SMTT(60)
  <1>1. CASE UNCHANGED vars
    <2>1. UNCHANGED <<low, high, held, pc, op, mode, need, waked, queued, old>>
      BY SMTT(60), <1>1 DEF vars
    <2>2. WordTypeOK' /\ ControlInv'
      BY SMTT(60), <2>1 DEF IInv, WordTypeOK, ControlInv, Dequeueing
    <2>3. \A h \in Holder : (SOwner(h)' <=> SOwner(h)) /\ (XOwner(h)' <=> XOwner(h))
      BY SMTT(60), <2>1 DEF SOwner, XOwner, Dequeueing
    <2>4. Counted' = Counted
      BY SMTT(60), <2>1, <2>3 DEF Counted
    <2> QED
      BY SMTT(60), <2>1, <2>2, <2>3, <2>4, NeutralStep
  <1>2. ASSUME NEW t \in Thread, Call(t) PROVE IInv'
    <2>1. ModesOf(t) \subseteq {None, S, X}
      BY SMTT(60) DEF ModesOf
    <2>2. PICK o \in AllOps, m \in {None, S, X} : Start(t, o, m)
      BY <1>2, <2>1 DEF Call, LWLockAcquire, LWLockConditionalAcquire, LWLockAcquireOrWait,
                        LWLockConditionalAcquireAnyMode, AllOps
    <2> QED
      BY <2>2, StartStep
  <1>3. ASSUME NEW t \in Thread, LWLockRelease(t) PROVE IInv'
    BY SMTT(60), <1>3, ReleaseExclusiveStep, ReleaseShareStep DEF LWLockRelease
  <1>4. ASSUME NEW t \in Thread, Step(t) PROVE IInv'
    BY SMTT(60), <1>4, AttemptExclusiveStep, AttemptShareAddStep, AttemptShareCasStep, TryWakeupStep,
       AnyModeAddStep, AnyModeCasStep, AnyModeSubStep, QueueSelfMarkStep, QueueSelfPushStep,
       SleepPostedStep, DequeueSelfLockStep, DequeueSelfUnlockStep, DequeueSelfReleaseOkStep,
       DequeueSelfSleepStep, ReleaseShareCasStep, ReleaseShareRetryStep, ReleaseShareReadStep,
       WakeupCollectStep, WakeupFlagsStep, WakeupStopStep, WakeupPostStep DEF Step
  <1>5. ASSUME NEW t \in Thread, SleepTimeout(t) \/ UnrelatedPost(t) \/ LWLockDisown(t) \/ LWLockOwn(t)
        PROVE  IInv'
    BY SMTT(20), <1>5, SleepTimeoutStep, UnrelatedPostStep, LWLockDisownStep, LWLockOwnStep
  <1> QED
    BY SMTT(20), <1>1, <1>2, <1>3, <1>4, <1>5 DEF Next

\* The state word is well-typed (SHARE_COUNT never underflows), counts the shared
\* holders and the attempts in flight, and its two lock bits agree with the holders.
THEOREM StateWordCorrect == Spec => [](WordTypeOK /\ StateWordCounts)
  <1>1. IInv => WordTypeOK /\ StateWordCounts
    BY DEF IInv
  <1> QED
    BY InitIInv, NextIInv, <1>1, PTL DEF Spec

\* An exclusive holder of a light-weight lock is its only holder.
THEOREM LWLockExcludes == Spec => []MutualExclusion
  <1>1. IInv => MutualExclusion
    BY DEF IInv
  <1> QED
    BY InitIInv, NextIInv, <1>1, PTL DEF Spec

-----------------------------------------------------------------------------
(* The laws, and what WInv says of the wait lists. *)

\* A set of naturals that is not empty has a least element.
LEMMA LeastNumber ==
  ASSUME NEW T, T \subseteq Nat, T # {}
  PROVE  \E n \in T : \A k \in T : n <= k
  <1>1. PICK n \in T : \A k \in T : ~ <<k, n>> \in OpToRel(<, Nat)
    BY NatLessThanWellFounded, WFMin, Zenon
  <1>2. \A k \in T : ~ (k < n)
    BY Zenon, <1>1 DEF OpToRel
  <1> QED
    BY <1>2

\* An attempt in flight is counted.
\* A shared attempt that has added its LW_VAL_SHARED is counted.
LEMMA AttemptCounted ==
  ASSUME IInv, NEW t \in Thread, pc[t] = "cas"
  PROVE  low.cnt \in Nat /\ low.cnt # 0
  <1>1. t \in Counted
    BY Zenon DEF Counted, Holder
  <1>2. Cardinality(Counted) # 0
    BY Zenon, <1>1, CountedFinite, FS_EmptySet
  <1> QED
    BY <1>2, CountedFinite DEF IInv, StateWordCounts

\* With the state word, the wait list explains why nobody is forgotten: a sleeper that
\* was refused has a rescuer as long as nobody holds the lock, and a thread that is
\* outside or asleep rescues nobody.
LEMMA NobodyForgotten == IInv /\ WInv => NoLostWakeup
  <1> SUFFICES ASSUME IInv, WInv,
                      \A h \in Holder : held[h] = None,
                      \A u \in Thread : pc[u] = "idle" \/ Asleep(u),
                      NEW t \in Thread, Asleep(t)
               PROVE  FALSE
    BY Zenon DEF NoLostWakeup
  <1>1. \A h \in Thread : pc[h] \in {"idle", "sleep"}
    BY Zenon DEF Asleep
  <1>2. \A h \in Holder : held[h] # S /\ held[h] # X
    BY DEF None, S, X
  <1>3. \A h \in Holder : ~SOwner(h) /\ ~XOwner(h)
    BY <1>1, <1>2 DEF SOwner, XOwner, Dequeueing
  <1>4. Counted = {}
    BY <1>1, <1>3 DEF Counted
  <1>5. low.cnt = 0 /\ ~low.excl
    BY Zenon, <1>3, <1>4, FS_EmptySet DEF IInv, StateWordCounts
  <1>6. ~low.shared
    BY Zenon, <1>1, <1>5 DEF WInv, SharedEnds
  <1>7. Refused(t)
    BY Zenon DEF Asleep, Refused
  <1>8. PICK u \in Thread : Rescuer(u)
    BY Zenon, <1>5, <1>6, <1>7 DEF WInv, Wakes, Locked
  <1>9. CallInv(u)
    BY Zenon DEF WInv, Calls
  <1>10. CASE pc[u] = "idle"
    BY SMTT(20), <1>8, <1>9, <1>10 DEF CallInv, Rescuer, Summoned, Retrying, Waking, Leaving
  <1>11. CASE Asleep(u)
    BY <1>8, <1>11 DEF Asleep, Rescuer, Summoned, Retrying
  <1> QED
    BY Zenon, <1>10, <1>11

LEMMA LWLockInvariant == Spec => [](IInv /\ WInv)
  <1>1. LeastLaw
    BY Zenon, LeastNumber DEF LeastLaw
  <1>2. IInv => CountLaw
    BY Zenon, AttemptCounted DEF CountLaw
  <1>3. IInv /\ WInv /\ [Next]_vars => WInv'
    BY Zenon, <1>1, <1>2, NextWInv
  <1> QED
    BY InitIInv, NextIInv, InitWInv, <1>3, PTL DEF Spec

\* Every variable of a light-weight lock keeps its type, the wait list and the private
\* lists of the wakeups (lists of threads) included.
THEOREM LWLockTypes == Spec => []TypeOK
  <1>1. IInv /\ WInv => TypeOK
    BY Zenon DEF IInv, WInv, TypeOK
  <1> QED
    BY <1>1, LWLockInvariant, PTL

\* DISALLOW_PREEMPT is up exactly while the one exclusive waiter that raised it
\* (LWLockWaitInQueue) has not got the lock: it is neither lost nor left behind.
THEOREM DisallowOwned == Spec => []DisallowHasOneOwner
  <1>1. WInv => DisallowHasOneOwner
    BY Zenon DEF WInv
  <1> QED
    BY <1>1, LWLockInvariant, PTL

\* A thread is linked at most once, in the wait list or in one private list of a wakeup,
\* is marked as waiting while it is, and a list that is not empty is announced by
\* HAS_WAITERS (LWLockQueueSelf, LWLockDequeueSelf, LWLockWakeup).
THEOREM WaitersLinkedOnce == Spec => []LinkedOnce
  <1>1. WInv => LinkedOnce
    BY Zenon DEF WInv
  <1> QED
    BY <1>1, LWLockInvariant, PTL

\* No wakeup is lost: the lock never comes to rest with nobody holding it and a thread
\* asleep in its wait list.
THEOREM WakeupsReach == Spec => []NoLostWakeup
  BY NobodyForgotten, LWLockInvariant, PTL
=============================================================================
