---------------------------- MODULE LazyLockInv ----------------------------
(***************************************************************************)
(* The inductive invariant of the lazy locks, in five layers.  Shape: what *)
(* the fields of a call mean at each of its steps, and who holds the hint  *)
(* lock.                                                                   *)
(***************************************************************************)
EXTENDS LazyLock

Pushing(t) == call[t].pc \in {"push", "decrease", "wake"}
Walking(t) == call[t].pc \in {"disabling", "enabling"}

WithTag == {"rollback", "weak", "wait", "disable", "disabling", "lazywait", "strong", "enable",
            "enabling", "unlock"}

CallType == [pc : PCs, tag : Tag \cup {NoTag}, next : PCs, at : Nat, n : Nat,
             found : BOOLEAN, ending : BOOLEAN]

FieldsShape(pc, tag, next, at) ==
  LET pushing == pc \in {"push", "decrease", "wake"}
      walking == pc \in {"disabling", "enabling"}
  IN  /\ pc \in WithTag => tag \in Tag
      /\ pushing => next \in {"idle", "weak", "wait", "lazywait", "strong"}
      /\ pushing /\ next # "idle" => tag \in Tag
      /\ pc \in {"enable", "enabling"} => next \in {"idle", "unlock"}
      /\ pc = "decrease" => at \in Part
      /\ walking => at <= Len(Order)
      /\ ~ walking /\ pc # "decrease" => at = 0

CallShape(t) ==
  /\ Walking(t) <=> hintLock = {t}
  /\ FieldsShape(call[t].pc, call[t].tag, call[t].next, call[t].at)

Slot == {FreeSlot} \cup [tag : Tag, cnt : Nat \ {0}]

Shape ==
  /\ active \subseteq Thread
  /\ slot \in [Thread -> [Part -> Slot]]
  /\ hintLock = {} \/ \E t \in Thread : hintLock = {t}
  /\ call \in [Thread -> CallType]
  /\ \A t \in Thread : CallShape(t)

(* Counts: a thread that is not registered holds nothing. *)
Away(t) ==
  /\ call[t].pc = "idle"
  /\ \A p \in Part : slot[t][p] = FreeSlot
  /\ \A tag \in Tag : weak[t][tag] = 0 /\ t \notin strong[tag]

Counts ==
  /\ cnt \in [Thread -> [Part -> Nat]]
  /\ weak \in [Thread -> [Tag -> Nat]]
  /\ strong \in [Tag -> SUBSET Thread]
  /\ \A t \in Thread \ active : Away(t)
  /\ CountMatchesSlots

(***************************************************************************)
(* Requests: where a strong request is listed, from the first step of the  *)
(* disable to the enable that ends it.                                     *)
(***************************************************************************)
Acquiring(t) ==
  \/ call[t].pc \in {"wait", "disable", "disabling", "lazywait", "strong"}
  \/ Pushing(t) /\ call[t].next \in {"wait", "lazywait", "strong"}
  \/ call[t].pc \in {"enable", "enabling"} /\ call[t].next = "idle"

Listed(t) ==
  /\ Acquiring(t) => t \notin strong[call[t].tag]
  /\ At(t, "lazywait") \/ At(t, "strong") => Request(t) \in request[CallPart(t)]
  /\ call[t].pc = "disabling" => request[CallPart(t)] = {Request(t)}
  /\ call[t].pc = "enabling" => request[CallPart(t)] = {}
  /\ \A tag \in Tag :
       t \in strong[tag] /\ ~ (call[t].tag = tag /\ call[t].pc \in {"enabling", "unlock"})
         => [thr |-> t, tag |-> tag] \in request[PartOf[tag]]

Requests ==
  /\ closed \in [Thread -> [Part -> BOOLEAN]]
  /\ request \in [Part -> SUBSET [thr : Thread, tag : Tag]]
  /\ \A p \in Part : \A r \in request[p] : PartOf[r.tag] = p
  /\ \A t \in Thread : Listed(t)
  /\ ClosedExact

(* Flags: a lazy wait and its flag go together. *)
Flags ==
  /\ waitFlag \in [Part -> BOOLEAN]
  /\ isWaiting \in [Thread -> BOOLEAN]
  /\ \A t \in Thread :
       /\ call[t].pc \in {"disable", "disabling"} => isWaiting[t]
       /\ At(t, "lazywait") => (isWaiting[t] <=> waitFlag[CallPart(t)])
  /\ WaitFlagExact

(***************************************************************************)
(* Quiet: a partition with requests, none of which has still to wait, has  *)
(* no lazy lock; nor has a thread that a walk has passed and found clean.  *)
(***************************************************************************)
Quiet(p) ==
  /\ request[p] # {} /\ ~ waitFlag[p]
     /\ ~ (\E t \in Thread : call[t].pc = "disabling" /\ CallPart(t) = p)
     => \A u \in Thread : cnt[u][p] = 0
  /\ \A t \in Thread : call[t].pc = "disabling" /\ CallPart(t) = p /\ ~ call[t].found
     => \A i \in 1..call[t].at : cnt[Order[i]][p] = 0

(* NoLazyPastTheWait, of the tags of one partition. *)
NoLazyPastTheWaitIn(p) ==
  \A t \in Thread, tag \in Tag :
    PartOf[tag] = p /\ (\/ At(t, "strong") /\ call[t].tag = tag
                        \/ t \in strong[tag] /\ ~ Releasing(t, tag))
    => \A u \in Thread : cnt[u][p] = 0

IInv == Shape /\ Counts /\ Requests /\ Flags /\ Quiet(0)

(* What a walk has found when it has passed p partitions. *)
WalkOK(w, p) ==
  /\ w \in [at : Nat, free : SUBSET Part]
  /\ \A q \in w.free : q < p /\ waitFlag[q] /\ request[q] # {}
  /\ p = 0 => w.at = 0
  /\ 0 \in w.free => LazyHolders(0, 0) = {}

(* What a wake-up finds on its way over all the partitions. *)
WalkRight == WalkOK(Walk[PartCnt], PartCnt)
=============================================================================
