-------------------------- MODULE LWLockListProofs --------------------------
(***************************************************************************)
(* Every step of a light-weight lock keeps WInv: what a call may be doing, *)
(* who may touch the wait list, who will wake its threads.  Two laws that  *)
(* the steps need are proved, and the theorems drawn, in LWLockProofs.     *)
(***************************************************************************)
EXTENDS LWLockInv, TLAPS

-----------------------------------------------------------------------------
(* The laws. *)

\* A set of naturals that is not empty has a least element.
LeastLaw ==
  \A T \in SUBSET Nat : T # {} => \E n \in T : \A k \in T : n <= k

\* A shared attempt that has added its LW_VAL_SHARED is counted.
CountLaw ==
  \A t \in Thread : pc[t] = "cas" => low.cnt \in Nat /\ low.cnt # 0

-----------------------------------------------------------------------------
(* Wait lists as sequences. *)

\* Pushing a node at either end of a list.
LEMMA Pushed ==
  ASSUME NEW s \in Seq(Thread), NEW w \in Thread
  PROVE  /\ Append(s, w) \in Seq(Thread) /\ <<w>> \o s \in Seq(Thread)
         /\ Range(Append(s, w)) = Range(s) \cup {w} /\ Range(<<w>> \o s) = Range(s) \cup {w}
         /\ IsInjective(s) /\ w \notin Range(s) => IsInjective(Append(s, w)) /\ IsInjective(<<w>> \o s)
         /\ Append(s, w) # <<>> /\ <<w>> \o s # <<>>
  <1> DEFINE a == Append(s, w)
             b == <<w>> \o s
             n == Len(s)
  <1>1. n \in Nat /\ DOMAIN s = 1..n /\ \A i \in 1..n : s[i] \in Thread
    OBVIOUS
  <1>2. /\ a \in Seq(Thread) /\ DOMAIN a = 1..(n + 1) /\ a[n + 1] = w
        /\ \A i \in 1..n : a[i] = s[i]
    OBVIOUS
  <1>3. b \in Seq(Thread) /\ Len(b) = n + 1 /\ b[1] = w /\ \A i \in 1..n : b[i + 1] = s[i]
    OBVIOUS
  <1>4. DOMAIN b = 1..(n + 1) /\ \A i \in 2..(n + 1) : i - 1 \in 1..n /\ b[i] = s[i - 1]
    BY <1>1, <1>3
  <1> HIDE DEF a, b, n
  <1>5. Range(a) = Range(s) \cup {w}
    BY <1>1, <1>2 DEF Range
  <1>6. Range(b) = Range(s) \cup {w}
    <2>1. \A i \in 1..(n + 1) : i = 1 \/ i \in 2..(n + 1)
      BY <1>1
    <2>2. \A i \in 1..n : i + 1 \in 1..(n + 1)
      BY <1>1
    <2>3. 1 \in 1..(n + 1)
      BY <1>1
    <2>4. \A x \in Range(b) : x \in Range(s) \cup {w}
      <3>1. \A i \in 2..(n + 1) : b[i] \in Range(s)
        BY Zenon, <1>1, <1>4 DEF Range
      <3> QED
        BY <1>3, <1>4, <2>1, <3>1 DEF Range
    <2>5. \A i \in 1..n : s[i] \in Range(b)
      <3> TAKE i \in 1..n
      <3>1. b[i + 1] = s[i] /\ i + 1 \in DOMAIN b
        BY Zenon, <1>3, <1>4, <2>2
      <3> QED
        BY Zenon, <3>1 DEF Range
    <2>6. w \in Range(b)
      BY Zenon, <1>3, <1>4, <2>3 DEF Range
    <2>7. \A x \in Range(s) : x \in Range(b)
      BY Zenon, <1>1, <2>5 DEF Range
    <2> QED
      BY Zenon, <2>4, <2>6, <2>7
  <1>7. ASSUME IsInjective(s), w \notin Range(s) PROVE IsInjective(a)
    BY <1>1, <1>2, <1>7 DEF IsInjective, Range
  <1>8. ASSUME IsInjective(s), w \notin Range(s) PROVE IsInjective(b)
    <2>1. \A i \in 2..(n + 1) : i - 1 \in DOMAIN s /\ b[i] = s[i - 1] /\ b[i] # w
      BY Zenon, <1>1, <1>4, <1>8 DEF Range
    <2>2. \A i, j \in 2..(n + 1) : b[i] = b[j] => i - 1 = j - 1
      BY Zenon, <1>8, <2>1 DEF IsInjective
    <2>3. \A i, j \in 2..(n + 1) : b[i] = b[j] => i = j
      BY <1>1, <2>2
    <2>4. \A i \in DOMAIN b : i = 1 \/ i \in 2..(n + 1)
      BY <1>1, <1>4
    <2> QED
      BY Zenon, <1>3, <2>1, <2>3, <2>4 DEF IsInjective
  <1>9. a # <<>> /\ b # <<>>
    BY <1>1, <1>2, <1>4
  <1> QED
    BY Zenon, <1>2, <1>3, <1>5, <1>6, <1>7, <1>8, <1>9 DEF a, b

\* The list without its first node.
LEMMA Popped ==
  ASSUME NEW s \in Seq(Thread), s # <<>>
  PROVE  /\ Head(s) \in Thread /\ Tail(s) \in Seq(Thread)
         /\ Range(s) = Range(Tail(s)) \cup {Head(s)}
         /\ IsInjective(s) => IsInjective(Tail(s)) /\ Head(s) \notin Range(Tail(s))
         /\ Len(s) # 1 => Tail(s) # <<>>
         /\ Len(s) = 1 => Tail(s) = <<>>
  <1> DEFINE r == Tail(s)
             n == Len(s)
  <1>1. n \in Nat /\ n # 0 /\ DOMAIN s = 1..n /\ \A i \in 1..n : s[i] \in Thread
    OBVIOUS
  <1>2. Head(s) = s[1] /\ r \in Seq(Thread) /\ Len(r) = n - 1 /\ \A i \in 1..(n - 1) : r[i] = s[i + 1]
    OBVIOUS
  <1>3. DOMAIN r = 1..(n - 1)
    BY <1>2
  <1> HIDE DEF r, n
  <1>4. n # 1 => r # <<>>
    BY <1>1, <1>2
  <1>5. n = 1 => r = <<>>
    BY <1>2
  <1>6. Range(s) = Range(r) \cup {s[1]}
    <2>1. \A i \in 1..n : i = 1 \/ (i - 1 \in 1..(n - 1) /\ r[i - 1] = s[i])
      BY <1>1, <1>2
    <2>2. 1 \in 1..n /\ \A i \in 1..(n - 1) : i + 1 \in 1..n
      BY <1>1
    <2>3. \A x \in Range(s) : x \in Range(r) \cup {s[1]}
      BY ZenonT(40), <1>1, <1>3, <2>1 DEF Range
    <2>4. \A x \in Range(r) : x \in Range(s)
      <3>1. \A i \in DOMAIN r : r[i] = s[i + 1] /\ i + 1 \in DOMAIN s
        BY Zenon, <1>1, <1>2, <1>3, <2>2
      <3> QED
        BY Zenon, <3>1 DEF Range
    <2>5. s[1] \in Range(s)
      BY Zenon, <1>1, <2>2 DEF Range
    <2> QED
      BY Zenon, <2>3, <2>4, <2>5
  <1>7. ASSUME IsInjective(s) PROVE IsInjective(r) /\ s[1] \notin Range(r)
    <2>1. \A i \in DOMAIN r : i + 1 \in DOMAIN s /\ 1 \in DOMAIN s /\ r[i] = s[i + 1] /\ i + 1 # 1
      BY <1>1, <1>2, <1>3
    <2>2. \A i, j \in DOMAIN r : r[i] = r[j] => i + 1 = j + 1
      BY Zenon, <1>7, <2>1 DEF IsInjective
    <2>3. \A i, j \in DOMAIN r : r[i] = r[j] => i = j
      BY <1>1, <1>3, <2>2
    <2>4. \A i \in DOMAIN r : r[i] # s[1]
      BY Zenon, <1>7, <2>1 DEF IsInjective
    <2> QED
      BY Zenon, <2>3, <2>4 DEF IsInjective, Range
  <1> QED
    BY <1>1, <1>2, <1>4, <1>5, <1>6, <1>7 DEF r, n

\* What Keep computes, link by link.
KeepStep(ws, set, f, i) ==
  IF i = 0 THEN <<>>
  ELSE IF ws[i] \in set THEN Append(f[i - 1], ws[i]) ELSE f[i - 1]

\* The recursion of Keep defines a function.
LEMMA KeepDefined ==
  ASSUME LeastLaw, NEW ws, NEW set, NEW n \in Nat
  PROVE  \E f : f = [i \in 0..n |-> KeepStep(ws, set, f, i)]
  <1> DEFINE Is(f, k) == f = [i \in 0..k |-> KeepStep(ws, set, f, i)]
             T == {k \in Nat : ~ \E f : Is(f, k)}
  <1>1. SUFFICES ASSUME T # {} PROVE FALSE
    BY Zenon
  <1>2. PICK k \in T : \A j \in T : k <= j
    <2> HIDE DEF Is
    <2> QED
      BY Zenon, <1>1 DEF LeastLaw
  <1>3. k \in Nat /\ ~ \E f : Is(f, k)
    BY Zenon, <1>2
  <1>4. CASE k = 0
    <2> DEFINE f == [i \in 0..0 |-> <<>>]
    <2>1. \A i \in 0..0 : i = 0
      OBVIOUS
    <2>2. \A i \in 0..0 : KeepStep(ws, set, f, i) = <<>>
      BY Zenon, <2>1 DEF KeepStep
    <2>3. Is(f, 0)
      BY Zenon, <2>2
    <2> QED
      BY Zenon, <1>3, <1>4, <2>3
  <1>5. CASE k # 0
    <2>1. k - 1 \in Nat /\ ~ (k <= k - 1)
      BY <1>3, <1>5
    <2>2. k - 1 \notin T
      BY Zenon, <1>2, <2>1
    <2>3. PICK g : Is(g, k - 1)
      BY Zenon, <2>1, <2>2
    <2> DEFINE f == [i \in 0..k |-> IF i = k THEN KeepStep(ws, set, g, k) ELSE g[i]]
    <2>4. \A i \in 0..k : i # k => i \in 0..(k - 1)
      BY <1>3
    <2>5. \A i \in 0..(k - 1) : i \in 0..k /\ i # k
      BY <1>3
    <2>6. \A i \in 0..k : i # 0 => i - 1 \in 0..(k - 1)
      BY <1>3
    <2>7. \A i \in 0..(k - 1) : f[i] = g[i]
      BY Zenon, <2>5
    <2>8. \A i \in 0..k : KeepStep(ws, set, f, i) = KeepStep(ws, set, g, i)
      <3> HIDE DEF f
      <3> QED
        BY Zenon, <2>6, <2>7 DEF KeepStep
    <2>9. \A i \in 0..(k - 1) : g[i] = KeepStep(ws, set, g, i)
      BY Zenon, <2>3
    <2>10. \A i \in 0..k : (IF i = k THEN KeepStep(ws, set, g, k) ELSE g[i]) = KeepStep(ws, set, f, i)
      <3> HIDE DEF f
      <3> QED
        BY Zenon, <2>4, <2>8, <2>9
    <2>11. Is(f, k)
      BY Zenon, <2>10
    <2> QED
      BY Zenon, <1>3, <2>11
  <1> QED
    BY Zenon, <1>4, <1>5

\* Keep takes the members of a set out of a list and leaves the rest.
LEMMA Kept ==
  ASSUME LeastLaw, NEW ws \in Seq(Thread), NEW set
  PROVE  /\ Keep(ws, set) \in Seq(Thread)
         /\ Range(Keep(ws, set)) = Range(ws) \cap set
         /\ IsInjective(ws) => IsInjective(Keep(ws, set))
  <1> DEFINE n == Len(ws)
  <1>1. n \in Nat /\ DOMAIN ws = 1..n /\ \A i \in 1..n : ws[i] \in Thread
    OBVIOUS
  <1>2. PICK f : f = [i \in 0..n |-> KeepStep(ws, set, f, i)] /\ Keep(ws, set) = f[n]
    <2> DEFINE g == CHOOSE f : f = [i \in 0..n |-> KeepStep(ws, set, f, i)]
    <2>1. g = [i \in 0..n |-> KeepStep(ws, set, g, i)]
      BY Zenon, <1>1, KeepDefined
    <2>2. Keep(ws, set) = g[n]
      BY DEF Keep, KeepStep
    <2> QED
      BY Zenon, <2>1, <2>2
  <1> HIDE DEF n
  <1> DEFINE First(i) == {ws[j] : j \in 1..i}
             Right(i) == /\ f[i] \in Seq(Thread)
                         /\ Range(f[i]) = First(i) \cap set
                         /\ IsInjective(ws) => IsInjective(f[i])
             T == {i \in 0..n : ~ Right(i)}
  <1>3. Right(0)
    <2>1. f[0] = <<>>
      BY <1>1, <1>2 DEF KeepStep
    <2>2. First(0) = {}
      OBVIOUS
    <2>3. <<>> \in Seq(Thread) /\ Range(<<>>) = {} /\ IsInjective(<<>>)
      BY DEF Range, IsInjective
    <2> QED
      BY Zenon, <2>1, <2>2, <2>3
  <1>4. ASSUME NEW i \in 1..n, Right(i - 1) PROVE Right(i)
    <2>1. i \in 0..n /\ i # 0 /\ i - 1 \in 0..n /\ i \in Nat /\ i \in DOMAIN ws /\ ws[i] \in Thread
      BY <1>1
    <2>2. f[i] = IF ws[i] \in set THEN Append(f[i - 1], ws[i]) ELSE f[i - 1]
      BY Zenon, <1>2, <2>1 DEF KeepStep
    <2>3. First(i) = First(i - 1) \cup {ws[i]}
      BY <2>1
    <2>4. IsInjective(ws) => ws[i] \notin First(i - 1)
      <3>1. \A j \in 1..(i - 1) : j \in DOMAIN ws /\ j # i
        BY <1>1, <2>1
      <3> QED
        BY Zenon, <2>1, <3>1 DEF IsInjective
    <2> HIDE DEF First
    <2>5. CASE ws[i] \in set
      <3> DEFINE g == f[i - 1]
      <3>1. f[i] = Append(g, ws[i]) /\ g \in Seq(Thread) /\ Range(g) = First(i - 1) \cap set
        BY Zenon, <1>4, <2>2, <2>5
      <3>2. IsInjective(ws) => IsInjective(g) /\ ws[i] \notin Range(g)
        BY Zenon, <1>4, <2>4, <3>1
      <3> HIDE DEF g
      <3>3. /\ f[i] \in Seq(Thread) /\ Range(f[i]) = Range(g) \cup {ws[i]}
            /\ IsInjective(ws) => IsInjective(f[i])
        BY Zenon, <2>1, <3>1, <3>2, Pushed
      <3>4. Range(f[i]) = First(i) \cap set
        BY Zenon, <2>3, <2>5, <3>1, <3>3
      <3> QED
        BY Zenon, <3>3, <3>4
    <2>6. CASE ws[i] \notin set
      BY Zenon, <1>4, <2>2, <2>3, <2>6
    <2> QED
      BY Zenon, <2>5, <2>6
  <1>5. Right(n)
    <2>1. SUFFICES ASSUME ~ Right(n) PROVE FALSE
      BY Zenon
    <2>2. n \in 0..n /\ 0..n \subseteq Nat
      BY <1>1
    <2> HIDE DEF Right
    <2>3. T # {} /\ T \subseteq Nat
      BY Zenon, <2>1, <2>2
    <2>4. PICK i \in T : \A j \in T : i <= j
      BY Zenon, <2>3 DEF LeastLaw
    <2>5. i # 0
      BY Zenon, <1>3, <2>4
    <2>6. i \in 1..n /\ i - 1 \in 0..n /\ ~ (i <= i - 1)
      BY <1>1, <2>4, <2>5
    <2>7. i - 1 \notin T
      BY Zenon, <2>4, <2>6
    <2> QED
      BY Zenon, <1>4, <2>4, <2>6, <2>7
  <1>6. First(n) = Range(ws)
    BY Zenon, <1>1 DEF Range
  <1> QED
    BY Zenon, <1>2, <1>5, <1>6

\* A wakeup takes somebody off a list that is not empty: a thread that waits for
\* the lock itself, or else everybody.
LEMMA WakesSomebody ==
  ASSUME LeastLaw, NEW ws \in Seq(Thread)
  PROVE  /\ ToWake(ws) \subseteq Range(ws)
         /\ ws # <<>> => ToWake(ws) # {}
         /\ (\E w \in ToWake(ws) : WaiterMode(w) # "LW_WAIT_UNTIL_FREE") \/ ToWake(ws) = Range(ws)
  <1> DEFINE n == Len(ws)
             Until == "LW_WAIT_UNTIL_FREE"
             first == {k \in DOMAIN ws : /\ WaiterMode(ws[k]) = X
                                         /\ \A j \in 1..(k - 1) : WaiterMode(ws[j]) = Until}
             k0 == CHOOSE k \in first : TRUE
  <1>1. n \in Nat /\ DOMAIN ws = 1..n
    OBVIOUS
  <1>2. ws # <<>> => 1 \in DOMAIN ws
    OBVIOUS
  <1>3. X # Until
    BY DEF X
  <1>4. ToWake(ws) = IF first # {} THEN {ws[j] : j \in 1..k0}
                     ELSE {w \in Range(ws) : WaiterMode(w) # X}
    BY Zenon DEF ToWake
  <1> HIDE DEF n
  <1>5. CASE first # {}
    <2>1. k0 \in DOMAIN ws /\ WaiterMode(ws[k0]) = X
      BY Zenon, <1>5
    <2> HIDE DEF first, k0
    <2>2. k0 \in 1..k0 /\ 1..k0 \subseteq DOMAIN ws
      BY <1>1, <2>1
    <2>3. ToWake(ws) = {ws[j] : j \in 1..k0}
      BY Zenon, <1>4, <1>5
    <2>4. ws[k0] \in ToWake(ws)
      BY Zenon, <2>2, <2>3
    <2>5. ToWake(ws) \subseteq Range(ws)
      BY Zenon, <2>2, <2>3 DEF Range
    <2> QED
      BY Zenon, <1>3, <2>1, <2>4, <2>5
  <1>6. CASE first = {}
    <2> DEFINE xs == {k \in DOMAIN ws : WaiterMode(ws[k]) = X}
    <2>1. ToWake(ws) = {w \in Range(ws) : WaiterMode(w) # X}
      BY Zenon, <1>4, <1>6
    <2>2. CASE xs = {}
      <3>1. \A w \in Range(ws) : WaiterMode(w) # X
        BY Zenon, <2>2 DEF Range
      <3>2. ws # <<>> => ws[1] \in Range(ws)
        BY Zenon, <1>2 DEF Range
      <3> QED
        BY Zenon, <2>1, <3>1, <3>2
    <2>3. CASE xs # {}
      <3>1. xs \subseteq Nat
        BY <1>1
      <3>2. PICK k \in xs : \A j \in xs : k <= j
        BY Zenon, <2>3, <3>1 DEF LeastLaw
      <3>3. PICK j \in 1..(k - 1) : WaiterMode(ws[j]) # Until
        BY Zenon, <1>6, <3>2
      <3>4. k \in 1..n
        BY Zenon, <1>1, <3>2
      <3>5. j \in DOMAIN ws /\ ~ (k <= j)
        BY <1>1, <3>3, <3>4
      <3>6. WaiterMode(ws[j]) # X /\ ws[j] \in Range(ws)
        BY Zenon, <3>2, <3>5 DEF Range
      <3> QED
        BY Zenon, <2>1, <3>3, <3>6
    <2> QED
      BY Zenon, <2>2, <2>3
  <1> QED
    BY Zenon, <1>5, <1>6

-----------------------------------------------------------------------------
(* A step of thread t, as the other threads and the call of t see it. *)

\* The call of t ends, or goes on with its locals as they are.
Ends(t) ==
  /\ pc'[t] = "idle" /\ op'[t] = None /\ mode'[t] = None
  /\ ~need'[t] /\ ~waked'[t] /\ ~queued'[t]
Goes(t, l) ==
  /\ pc'[t] = l /\ op'[t] = op[t] /\ mode'[t] = mode[t]
  /\ need'[t] = need[t] /\ waked'[t] = waked[t] /\ queued'[t] = queued[t]

\* The others stay where they are.
OthersRun(t) ==
  \A u \in Thread \ {t} :
    /\ pc'[u] = pc[u] /\ op'[u] = op[u] /\ mode'[u] = mode[u]
    /\ need'[u] = need[u] /\ waked'[u] = waked[u] /\ queued'[u] = queued[u]
OthersHold(t) ==
  \A u \in Thread \ {t} : held'[u] = held[u] /\ old'[u] = old[u] /\ wakeup'[u] = wakeup[u]
Others(t) == OthersRun(t) /\ OthersHold(t)

LEMMA ReturnEnds ==
  ASSUME WordTypeOK, NEW t \in Thread, Return(t)
  PROVE  Ends(t) /\ OthersRun(t)
  BY DEF WordTypeOK, Return, Goto, Ends, OthersRun

LEMMA GotoGoes ==
  ASSUME WordTypeOK, NEW t \in Thread, NEW l, Goto(t, l), UNCHANGED locals
  PROVE  Goes(t, l) /\ OthersRun(t)
  BY DEF WordTypeOK, Goto, locals, Goes, OthersRun

LEMMA MustWaitGoes ==
  ASSUME WordTypeOK, NEW t \in Thread, MustWait(t)
  PROVE  /\ OthersRun(t) /\ held' = held
         /\ \/ op[t] = "LWLockConditionalAcquire" /\ Ends(t)
            \/ op[t] # "LWLockConditionalAcquire" /\ queued[t] /\ Goes(t, "sleep")
            \/ op[t] # "LWLockConditionalAcquire" /\ ~queued[t] /\ Goes(t, "qMark")
  BY Zenon, ReturnEnds, GotoGoes DEF MustWait

\* Somebody else's hold is not touched when t takes the lock.
LEMMA HoldsOne ==
  ASSUME WordTypeOK, NEW t \in Thread, NEW m, held' = [held EXCEPT ![t] = m]
  PROVE  held'[t] = m /\ \A u \in Thread \ {t} : held'[u] = held[u]
  BY DEF WordTypeOK, Holder

LEMMA AcquiredGoes ==
  ASSUME WordTypeOK, NEW t \in Thread, Acquired(t)
  PROVE  /\ OthersRun(t) /\ \A u \in Thread \ {t} : held'[u] = held[u]
         /\ \/ queued[t] /\ Goes(t, "dqLock")
            \/ ~queued[t] /\ Ends(t)
  <1>1. CASE queued[t]
    BY Zenon, <1>1, GotoGoes DEF Acquired
  <1>2. CASE ~queued[t]
    <2> DEFINE m == mode[t]
    <2>1. held' = [held EXCEPT ![t] = m] /\ Return(t)
      BY Zenon, <1>2 DEF Acquired, ReturnHolding
    <2> HIDE DEF m
    <2> QED
      BY Zenon, <1>2, <2>1, ReturnEnds, HoldsOne
  <1> QED
    BY Zenon, <1>1, <1>2

LEMMA WakeupDoneGoes ==
  ASSUME WordTypeOK, NEW t \in Thread, WakeupDone(t)
  PROVE  /\ OthersRun(t) /\ held' = held
         /\ \/ op[t] \in {"LWLockRelease", "LWLockConditionalAcquire"} /\ Ends(t)
            \/ op[t] \notin {"LWLockRelease", "LWLockConditionalAcquire"} /\ queued[t] /\ Goes(t, "sleep")
            \/ op[t] \notin {"LWLockRelease", "LWLockConditionalAcquire"} /\ ~queued[t] /\ Goes(t, "qMark")
  BY Zenon, ReturnEnds, MustWaitGoes DEF WakeupDone

\* The calls of all threads, from that of t.
LEMMA CallsKept ==
  ASSUME Calls, NEW t \in Thread, Others(t), CallInv(t)', NeedInv(t)',
         \A u \in Thread \ {t} : waiting'[u] => waiting[u]
  PROVE  Calls'
  <1> SUFFICES ASSUME NEW u \in Thread PROVE CallInv(u)' /\ NeedInv(u)'
    BY DEF Calls
  <1>1. CASE u = t
    BY Zenon, <1>1
  <1>2. CASE u # t
    <2>1. /\ pc'[u] = pc[u] /\ op'[u] = op[u] /\ mode'[u] = mode[u]
          /\ need'[u] = need[u] /\ waked'[u] = waked[u] /\ queued'[u] = queued[u]
          /\ held'[u] = held[u] /\ old'[u] = old[u] /\ wakeup'[u] = wakeup[u]
          /\ waiting'[u] => waiting[u]
      BY Zenon, <1>2 DEF Others, OthersRun, OthersHold
    <2>2. CallInv(u) /\ NeedInv(u)
      BY Zenon DEF Calls
    <2>3. CallInv(u)'
      BY ZenonT(60), <2>1, <2>2 DEF CallInv
    <2>4. NeedInv(u)'
      BY Zenon, <2>1, <2>2 DEF NeedInv
    <2> QED
      BY Zenon, <2>3, <2>4
  <1> QED
    BY Zenon, <1>1, <1>2

\* A call that ends is out of the lists.
LEMMA EndedCall ==
  ASSUME NEW t \in Thread, Ends(t), ~waiting'[t], wakeup'[t] = <<>>
  PROVE  CallInv(t)' /\ NeedInv(t)'
  BY DEF Ends, CallInv, NeedInv, None, Waking, Leaving


-----------------------------------------------------------------------------
(* What a step of t leaves as it was, part by part. *)

\* The nodes of the lists are those of threads.
LEMMA ListedThreads ==
  ASSUME ListTypeOK, Calls
  PROVE  /\ Range(waiters) \subseteq Thread
         /\ \A u \in Thread :
              /\ wakeup[u] \in Seq(Thread) /\ Range(wakeup[u]) \subseteq Thread
              /\ Taken(u) \in Seq(Thread) /\ Range(Taken(u)) \subseteq Thread
  <1>1. \A s \in Seq(Thread) : Range(s) \subseteq Thread
    BY DEF Range
  <1>2. \A u \in Thread : wakeup[u] \in Seq(Thread)
    BY DEF ListTypeOK
  <1>3. \A u \in Thread : pc[u] = "wkPost" => wakeup[u] # <<>>
    BY Zenon DEF Calls, CallInv
  <1>4. \A u \in Thread : Taken(u) \in Seq(Thread)
    BY <1>2, <1>3 DEF Taken
  <1> QED
    BY Zenon, <1>1, <1>2, <1>4 DEF ListTypeOK

\* A step outside of the wait list.
LEMMA ListsKept ==
  ASSUME ListTypeOK, Calls, ListLock, LinkedOnce, Lists, Calls', NEW t \in Thread, Others(t),
         UNCHANGED <<waiters, waiting, wakeup>>, posted' \in [Thread -> BOOLEAN],
         high'.listLocked = high.listLocked, high'.hasWaiters = high.hasWaiters,
         pc[t] \notin Listing \cup {"wkPost"}, pc'[t] \notin Listing \cup {"wkPost"},
         pc'[t] \in Leaving => pc[t] \in Leaving
  PROVE  ListTypeOK' /\ ListLock' /\ LinkedOnce' /\ Lists'
  <1>1. \A u \in Thread :
          /\ pc'[u] \in Listing <=> pc[u] \in Listing
          /\ pc'[u] = "wkPost" <=> pc[u] = "wkPost"
          /\ pc'[u] = "wkFlags" <=> pc[u] = "wkFlags"
          /\ pc'[u] = "qPush" <=> pc[u] = "qPush"
          /\ pc'[u] = "dqFound" <=> pc[u] = "dqFound"
          /\ pc'[u] \in Leaving => pc[u] \in Leaving
    <2> TAKE u \in Thread
    <2>1. CASE u = t
      BY Zenon, <2>1 DEF Listing
    <2>2. CASE u # t
      BY Zenon, <2>2 DEF Others, OthersRun
    <2> QED
      BY Zenon, <2>1, <2>2
  <1>2. waiters' = waiters /\ wakeup' = wakeup /\ waiting' = waiting
    OBVIOUS
  <1>3. \A u \in Thread : Taken(u)' = Taken(u)
    BY Zenon, <1>1, <1>2 DEF Taken
  <1>4. ListTypeOK'
    BY Zenon, <1>2 DEF ListTypeOK
  <1>5. ListLock'
    BY Zenon, <1>1 DEF ListLock
  <1>6. \A u \in Thread : pc'[u] \in {"qMark", "qPush"} => ~waiting'[u]
    BY Zenon DEF Calls, CallInv
  <1>7. LinkedOnce'
    BY Zenon, <1>1, <1>2, <1>3, <1>6 DEF LinkedOnce
  <1>8. Lists'
    BY ZenonT(40), <1>1, <1>2, <1>3, ListedThreads DEF Lists
  <1> QED
    BY Zenon, <1>4, <1>5, <1>7, <1>8

\* A step that leaves DISALLOW_PREEMPT to its owner.
LEMMA DisallowKept ==
  ASSUME DisallowHasOneOwner, NEW t \in Thread, Others(t),
         low'.disallow = low.disallow, Owes(t)' <=> Owes(t)
  PROVE  DisallowHasOneOwner'
  <1>1. \A u \in Thread : Owes(u)' <=> Owes(u)
    BY ZenonT(40) DEF Others, OthersRun, OthersHold, Owes, XOwner, Dequeueing
  <1> QED
    BY Zenon, <1>1 DEF DisallowHasOneOwner

\* A step that keeps RELEASE_OK for somebody, or sets it.
LEMMA ReleasesKept ==
  ASSUME Releases, NEW t \in Thread, Others(t),
         \A u \in Thread \ {t} : u \in Range(waiters') => u \in Range(waiters),
         high'.releaseOk \/ (high'.releaseOk = high.releaseOk /\ (Summoned(t) => Summoned(t)'))
  PROVE  Releases'
  <1>1. \A u \in Thread \ {t} : Summoned(u) => Summoned(u)'
    BY Zenon DEF Others, OthersRun, Summoned
  <1> QED
    BY Zenon, <1>1 DEF Releases

\* A step that has no part in clearing SHARED.
LEMMA SharedEndsKept ==
  ASSUME SharedEnds, NEW t \in Thread, Others(t), low' = low, pc[t] \notin {"relCas", "relRetry"}
  PROVE  SharedEnds'
  BY Zenon DEF SharedEnds, Others, OthersRun, OthersHold

\* A step that leaves the refused with a rescuer.
LEMMA WakesKept ==
  ASSUME Wakes, NEW t \in Thread, Others(t),
         \A u \in Thread \ {t} : u \in Range(waiters') <=> u \in Range(waiters),
         \/ Locked(low')
         \/ Rescuer(t)'
         \/ ~Locked(low) /\ (Refused(t)' => Refused(t)) /\ (Rescuer(t) => Rescuer(t)')
  PROVE  Wakes'
  <1>1. \A u \in Thread \ {t} : (Refused(u)' => Refused(u)) /\ (Rescuer(u) => Rescuer(u)')
    BY Zenon DEF Others, OthersRun, Refused, Rescuer, Summoned, Retrying
  <1> QED
    BY Zenon, <1>1 DEF Wakes

\* The case that needs RELEASE_OK: nobody was found to wake when the lock was free.
LEMMA WakesReleased ==
  ASSUME Releases, LinkedOnce, ListTypeOK, NEW t \in Thread, Others(t), waiters' = waiters,
         ~ (high.hasWaiters /\ high.releaseOk), Summoned(t) => Summoned(t)'
  PROVE  Wakes'
  <1>1. SUFFICES ASSUME NEW u \in Thread, Refused(u)' PROVE \E v \in Thread : Rescuer(v)'
    BY Zenon DEF Wakes
  <1>2. waiters # <<>>
    <2>1. Range(<<>>) = {}
      BY DEF Range
    <2> QED
      BY Zenon, <1>1, <2>1 DEF Refused
  <1>3. PICK v \in Thread : Summoned(v)
    BY Zenon, <1>2 DEF LinkedOnce, Releases
  <1>4. Summoned(v)'
    BY Zenon, <1>3 DEF Others, OthersRun, Summoned
  <1> QED
    BY Zenon, <1>4 DEF Rescuer


\* A step outside of the wait list, once its effect on t, SHARED and the sleepers
\* is known.
QuietLists(t) ==
  /\ Others(t) /\ UNCHANGED <<waiters, waiting, wakeup>> /\ posted' \in [Thread -> BOOLEAN]
  /\ high'.listLocked = high.listLocked /\ high'.hasWaiters = high.hasWaiters
  /\ high'.releaseOk \/ (high'.releaseOk = high.releaseOk /\ (Summoned(t) => Summoned(t)'))
  /\ pc[t] \notin Listing \cup {"wkPost"} /\ pc'[t] \notin Listing \cup {"wkPost"}
  /\ pc'[t] \in Leaving => pc[t] \in Leaving

LEMMA QuietStep ==
  ASSUME WInv, NEW t \in Thread, QuietLists(t), CallInv(t)', NeedInv(t)',
         DisallowHasOneOwner', SharedEnds', Wakes'
  PROVE  WInv'
  <1>1. Others(t) /\ waiters' = waiters /\ waiting' = waiting
    BY Zenon DEF QuietLists
  <1>2. Calls'
    BY Zenon, <1>1, CallsKept DEF WInv
  <1>3. ListTypeOK' /\ ListLock' /\ LinkedOnce' /\ Lists'
    BY Zenon, <1>2, ListsKept DEF WInv, QuietLists
  <1>4. Releases'
    BY Zenon, <1>1, ReleasesKept DEF WInv, QuietLists
  <1> QED
    BY Zenon, <1>2, <1>3, <1>4 DEF WInv

\* The parts of the invariant that the lemmas below start from.
LEMMA Parts ==
  ASSUME IInv, WInv, NEW t \in Thread
  PROVE  /\ WordTypeOK /\ ListTypeOK /\ CallInv(t) /\ NeedInv(t)
         /\ DisallowHasOneOwner /\ Releases /\ SharedEnds /\ Wakes /\ LinkedOnce
         /\ pc[t] # "idle" => held[t] = None
  BY Zenon DEF IInv, WInv, Calls, ControlInv

-----------------------------------------------------------------------------
(* Steps that leave the lock as it is. *)

LEMMA StartLists ==
  ASSUME IInv, WInv, NEW t \in Thread, NEW o, NEW m, Start(t, o, m), o \in Attempting \/ m = None
  PROVE  WInv'
  <1>0. /\ WordTypeOK /\ ListTypeOK /\ CallInv(t) /\ NeedInv(t)
        /\ DisallowHasOneOwner /\ Releases /\ SharedEnds /\ Wakes
    BY Zenon, Parts
  <1>1. /\ pc[t] = "idle" /\ pc'[t] = "attempt" /\ op'[t] = o /\ mode'[t] = m
        /\ UNCHANGED <<low, high, waiters, waiting, posted, held, need, waked, queued, old, wakeup>>
    BY <1>0 DEF Start, Goto, WordTypeOK
  <1>2. Others(t)
    BY <1>0, <1>1 DEF Start, Goto, WordTypeOK, Others, OthersRun, OthersHold
  <1>3. ~queued[t] /\ ~waked[t] /\ ~need[t] /\ ~waiting[t] /\ wakeup[t] = <<>>
    BY <1>0, <1>1 DEF CallInv, NeedInv, Queueing, None, Waking
  <1>4. CallInv(t)' /\ NeedInv(t)'
    BY <1>1, <1>3 DEF CallInv, NeedInv, Waking, Leaving
  <1>5. QuietLists(t)
    BY <1>0, <1>1, <1>2, <1>3 DEF QuietLists, ListTypeOK, Listing, Leaving, Summoned
  <1>6. DisallowHasOneOwner'
    BY Zenon, <1>0, <1>1, <1>2, <1>3, DisallowKept DEF Owes
  <1>7. SharedEnds'
    BY <1>0, <1>1, <1>2, SharedEndsKept
  <1>8. Wakes'
    <2>1. ~Refused(t)' /\ ~Rescuer(t)
      BY <1>1, <1>3 DEF Refused, Rescuer, Summoned, Retrying, Waking
    <2> QED
      BY Zenon, <1>0, <1>1, <1>2, <2>1, WakesKept
  <1> QED
    BY Zenon, <1>4, <1>5, <1>6, <1>7, <1>8, QuietStep

LEMMA UnrelatedPostLists ==
  ASSUME IInv, WInv, NEW t \in Thread, UnrelatedPost(t)
  PROVE  WInv'
  <1>0. /\ WordTypeOK /\ ListTypeOK
    BY Zenon, Parts
  <1>1. /\ posted' \in [Thread -> BOOLEAN] /\ UNCHANGED <<low, high, waiters, waiting, held, pc, old, wakeup>>
        /\ UNCHANGED <<op, mode, need, waked, queued>>
    BY <1>0 DEF UnrelatedPost, ListTypeOK, locals
  <1>2. ListTypeOK'
    BY Zenon, <1>0, <1>1 DEF ListTypeOK
  <1>3. Calls' = Calls
    BY <1>1 DEF Calls, CallInv, NeedInv
  <1>4. ListLock' = ListLock /\ LinkedOnce' = LinkedOnce /\ Lists' = Lists
    BY <1>1 DEF ListLock, LinkedOnce, Taken, Lists
  <1>5. DisallowHasOneOwner' = DisallowHasOneOwner
    BY <1>1 DEF DisallowHasOneOwner, Owes, XOwner, Dequeueing
  <1>6. Releases' = Releases /\ SharedEnds' = SharedEnds /\ Wakes' = Wakes
    BY <1>1 DEF Releases, Summoned, SharedEnds, Wakes, Refused, Rescuer, Retrying
  <1> QED
    BY Zenon, <1>2, <1>3, <1>4, <1>5, <1>6 DEF WInv

LEMMA PassedOnLists ==
  ASSUME IInv, WInv, NEW t \in Thread, LWLockDisown(t) \/ LWLockOwn(t)
  PROVE  WInv'
  <1>0. /\ WordTypeOK /\ ListTypeOK /\ CallInv(t) /\ NeedInv(t)
        /\ DisallowHasOneOwner /\ Releases /\ SharedEnds /\ Wakes
    BY Zenon, Parts
  <1>1. /\ UNCHANGED <<low, high, waiters, waiting, posted, pc, old, wakeup>>
        /\ UNCHANGED <<op, mode, need, waked, queued>> /\ pc[t] = "idle"
    BY DEF LWLockDisown, LWLockOwn, locals
  <1>2. \A u \in Thread \ {t} : held'[u] = held[u]
    BY <1>0, ThreadAssumption DEF LWLockDisown, LWLockOwn, WordTypeOK, Holder
  <1>3. Others(t)
    BY Zenon, <1>1, <1>2 DEF Others, OthersRun, OthersHold
  <1>4. CallInv(t)' /\ NeedInv(t)'
    BY Zenon, <1>0, <1>1 DEF CallInv, NeedInv
  <1>5. QuietLists(t)
    BY Zenon, <1>0, <1>1, <1>3 DEF QuietLists, ListTypeOK, Listing, Leaving, Summoned
  <1>6. ~need[t]
    BY Zenon, <1>0, <1>1 DEF NeedInv, Leaving
  <1>7. DisallowHasOneOwner'
    BY Zenon, <1>0, <1>1, <1>3, <1>6, DisallowKept DEF Owes
  <1>8. SharedEnds'
    BY <1>0, <1>1, <1>3, SharedEndsKept
  <1>9. Wakes'
    BY Zenon, <1>0, <1>1 DEF Wakes, Refused, Rescuer, Summoned, Retrying
  <1> QED
    BY Zenon, <1>4, <1>5, <1>7, <1>8, <1>9, QuietStep


\* A sleeper that was woken sets RELEASE_OK again and retries.
LEMMA WakedLists ==
  ASSUME IInv, WInv, NEW t \in Thread, pc[t] = "sleep", op[t] = "LWLockAcquire", ~waiting[t],
         WakedFromQueue(t), posted' \in [Thread -> BOOLEAN],
         UNCHANGED <<low, waiters, waiting, held, old, wakeup>>
  PROVE  WInv'
  <1>0. /\ WordTypeOK /\ ListTypeOK /\ CallInv(t) /\ NeedInv(t)
        /\ DisallowHasOneOwner /\ Releases /\ SharedEnds /\ Wakes
    BY Zenon, Parts
  <1>1. /\ pc'[t] = "attempt" /\ op'[t] = op[t] /\ mode'[t] = mode[t] /\ need'[t] = need[t]
        /\ waked'[t] /\ ~queued'[t]
    BY <1>0 DEF WakedFromQueue, Goto, WordTypeOK
  <1>2. high'.listLocked = high.listLocked /\ high'.hasWaiters = high.hasWaiters /\ high'.releaseOk
    BY Zenon, <1>0 DEF WakedFromQueue, WordTypeOK, High32
  <1>3. Others(t)
    BY <1>0 DEF WakedFromQueue, Goto, WordTypeOK, Others, OthersRun, OthersHold
  <1>4. wakeup[t] = <<>>
    BY Zenon, <1>0 DEF CallInv, Waking
  <1>5. CallInv(t)'
    BY <1>1, <1>4 DEF CallInv, Waking, Leaving, Attempting, Queueing
  <1>6. NeedInv(t)'
    BY Zenon, <1>0, <1>1 DEF NeedInv
  <1>7. QuietLists(t)
    BY Zenon, <1>1, <1>2, <1>3 DEF QuietLists, Listing, Leaving
  <1>8. DisallowHasOneOwner'
    <2>1. ~XOwner(t)' <=> ~XOwner(t)
      BY Zenon, <1>1 DEF XOwner, Dequeueing
    <2> QED
      BY Zenon, <1>0, <1>1, <1>3, <2>1, DisallowKept DEF Owes
  <1>9. SharedEnds'
    BY Zenon, <1>0, <1>3, SharedEndsKept
  <1>10. Wakes'
    BY Zenon, <1>0, <1>1, <1>3, WakesKept DEF Rescuer, Retrying
  <1> QED
    BY Zenon, <1>5, <1>6, <1>7, <1>8, <1>9, <1>10, QuietStep

LEMMA SleepPostedLists ==
  ASSUME IInv, WInv, NEW t \in Thread, SleepPosted(t)
  PROVE  WInv'
  <1>0. /\ WordTypeOK /\ ListTypeOK /\ CallInv(t) /\ NeedInv(t)
        /\ DisallowHasOneOwner /\ Releases /\ SharedEnds /\ Wakes /\ LinkedOnce
    BY Zenon, Parts
  <1>1. posted' \in [Thread -> BOOLEAN] /\ pc[t] = "sleep" /\ UNCHANGED <<low, waiters, waiting, held, old, wakeup>>
    BY <1>0 DEF SleepPosted, ListTypeOK
  <1>2. CASE waiting[t] /\ UNCHANGED <<pc, locals, high>>
    <2>1. Others(t) /\ UNCHANGED <<pc, op, mode, need, waked, queued, high>>
      BY Zenon, <1>1, <1>2 DEF Others, OthersRun, OthersHold, locals
    <2>2. CallInv(t)' /\ NeedInv(t)'
      BY Zenon, <1>0, <1>1, <2>1 DEF CallInv, NeedInv
    <2>3. QuietLists(t)
      BY Zenon, <1>1, <2>1 DEF QuietLists, Summoned, Listing
    <2>4. DisallowHasOneOwner'
      BY Zenon, <1>0, <1>1, <2>1, DisallowKept DEF Owes, XOwner, Dequeueing
    <2>5. SharedEnds'
      BY Zenon, <1>0, <1>1, <2>1, SharedEndsKept
    <2>6. Wakes'
      BY Zenon, <1>0, <1>1, <2>1 DEF Wakes, Refused, Rescuer, Summoned, Retrying
    <2> QED
      BY Zenon, <2>2, <2>3, <2>4, <2>5, <2>6, QuietStep
  <1>3. CASE ~waiting[t] /\ op[t] = "LWLockAcquire" /\ WakedFromQueue(t)
    BY Zenon, <1>1, <1>3, WakedLists
  <1>4. CASE ~waiting[t] /\ op[t] = "LWLockAcquireOrWait" /\ Return(t) /\ UNCHANGED high
    <2>1. Ends(t) /\ Others(t)
      BY Zenon, <1>0, <1>1, <1>4, ReturnEnds DEF Others, OthersHold
    <2>2. wakeup[t] = <<>> /\ ~waked[t] /\ ~need[t] /\ ~need'[t]
      BY Zenon, <1>0, <1>1, <1>4, <2>1 DEF CallInv, NeedInv, Waking, Ends
    <2>3. CallInv(t)' /\ NeedInv(t)'
      BY Zenon, <1>1, <1>4, <2>1, <2>2, EndedCall
    <2>4. QuietLists(t)
      BY Zenon, <1>1, <1>4, <2>1 DEF QuietLists, Summoned, Listing, Leaving, Ends
    <2>5. DisallowHasOneOwner'
      BY Zenon, <1>0, <1>1, <2>1, <2>2, DisallowKept DEF Owes
    <2>6. SharedEnds'
      BY Zenon, <1>0, <1>1, <2>1, SharedEndsKept
    <2>7. ~Refused(t)' /\ ~Rescuer(t)
      BY Zenon, <1>0, <1>1, <1>4, <2>1, <2>2 DEF Ends, Refused, Rescuer, Summoned, Retrying, Waking
    <2>8. Wakes'
      BY Zenon, <1>0, <1>1, <2>1, <2>7, WakesKept
    <2> QED
      BY Zenon, <2>3, <2>4, <2>5, <2>6, <2>8, QuietStep
  <1> QED
    BY Zenon, <1>2, <1>3, <1>4 DEF SleepPosted


\* The timed sleep ran out: DISALLOW_PREEMPT gets its owner, and the thread that
\* clears SHARED sees the new word or retries.
LEMMA SleepTimeoutLists ==
  ASSUME IInv, WInv, NEW t \in Thread, SleepTimeout(t)
  PROVE  WInv'
  <1>0. /\ WordTypeOK /\ ListTypeOK /\ CallInv(t) /\ NeedInv(t)
        /\ DisallowHasOneOwner /\ Releases /\ SharedEnds /\ Wakes /\ LinkedOnce /\ Calls
        /\ held[t] = None
    BY Zenon, Parts DEF SleepTimeout, WInv
  <1>1. /\ pc[t] = "sleep" /\ op[t] = "LWLockAcquire" /\ mode[t] = X /\ posted' \in [Thread -> BOOLEAN]
        /\ UNCHANGED <<waiters, waiting, held, old, wakeup>>
    BY Zenon, <1>0 DEF SleepTimeout, ListTypeOK
  <1>2. CASE ~waiting[t] /\ WakedFromQueue(t) /\ UNCHANGED low
    BY Zenon, <1>1, <1>2, WakedLists
  <1>3. CASE /\ low' = [low EXCEPT !.disallow = TRUE]
             /\ need' = [need EXCEPT ![t] = @ \/ ~low.disallow]
             /\ UNCHANGED <<pc, op, mode, waked, queued, high>>
    <2>1. /\ low'.cnt = low.cnt /\ low'.shared = low.shared /\ low'.excl = low.excl /\ low'.disallow
          /\ low.disallow => low' = low
      BY <1>0, <1>3 DEF WordTypeOK, Low32
    <2>2. (need'[t] <=> need[t] \/ ~low.disallow) /\ \A u \in Thread \ {t} : need'[u] = need[u]
      BY Zenon, <1>0, <1>3 DEF WordTypeOK
    <2>3. Others(t) /\ UNCHANGED <<pc, op, mode, waked, queued, high>>
      BY Zenon, <1>1, <1>3, <2>2 DEF Others, OthersRun, OthersHold
    <2>4. CallInv(t)' /\ NeedInv(t)'
      BY Zenon, <1>0, <1>1, <2>3 DEF CallInv, NeedInv
    <2>5. QuietLists(t)
      BY Zenon, <1>1, <2>3 DEF QuietLists, Summoned, Listing
    <2>6. ~XOwner(t) /\ ~XOwner(t)'
      BY Zenon, <1>0, <1>1, <2>3 DEF XOwner, Dequeueing, None, X
    <2>7. DisallowHasOneOwner'
      <3>1. \A u \in Thread \ {t} : Owes(u)' <=> Owes(u)
        BY Zenon, <1>1, <2>2, <2>3 DEF Owes, XOwner, Dequeueing
      <3>2. Owes(t)' <=> Owes(t) \/ ~low.disallow
        BY Zenon, <2>2, <2>6 DEF Owes
      <3> QED
        BY Zenon, <1>0, <2>1, <3>1, <3>2 DEF DisallowHasOneOwner
    <2>8. SharedEnds'
      <3>1. \A u \in Thread : pc[u] = "relRetry" => old[u].disallow
        BY Zenon, <1>0 DEF Calls, CallInv
      <3> QED
        BY Zenon, <1>0, <1>1, <2>1, <2>3, <3>1 DEF SharedEnds
    <2>9. Locked(low') = Locked(low)
      BY <2>1 DEF Locked
    <2>10. Wakes'
      BY Zenon, <1>0, <1>1, <2>3, <2>9 DEF Wakes, Refused, Rescuer, Summoned, Retrying
    <2> QED
      BY Zenon, <2>4, <2>5, <2>7, <2>8, <2>10, QuietStep
  <1> QED
    BY Zenon, <1>2, <1>3 DEF SleepTimeout

\* A thread in LWLockDequeueSelf has the lock.
LEMMA DequeueingOwns ==
  ASSUME IInv, NEW t \in Thread, Dequeueing(t)
  PROVE  Locked(low)
  BY Zenon DEF IInv, ControlInv, StateWordCounts, SOwner, XOwner, Locked, Holder

LEMMA DequeueSelfReleaseOkLists ==
  ASSUME IInv, WInv, NEW t \in Thread, DequeueSelfReleaseOk(t)
  PROVE  WInv'
  <1>0. /\ WordTypeOK /\ ListTypeOK /\ CallInv(t) /\ NeedInv(t)
        /\ DisallowHasOneOwner /\ Releases /\ SharedEnds /\ Wakes
    BY Zenon, Parts
  <1>1. /\ pc[t] = "dqReleaseOk" /\ posted' \in [Thread -> BOOLEAN]
        /\ UNCHANGED <<low, waiters, waiting, held, old, wakeup>> /\ Goes(t, "dqSleep") /\ Others(t)
    BY Zenon, <1>0, GotoGoes DEF DequeueSelfReleaseOk, ListTypeOK, Others, OthersHold
  <1>2. high'.listLocked = high.listLocked /\ high'.hasWaiters = high.hasWaiters /\ high'.releaseOk
    BY ZenonT(40), <1>0 DEF DequeueSelfReleaseOk, WordTypeOK, High32
  <1>3. CallInv(t)' /\ NeedInv(t)'
    BY <1>0, <1>1 DEF CallInv, NeedInv, Goes, Leaving, Waking
  <1>4. QuietLists(t)
    BY Zenon, <1>1, <1>2 DEF QuietLists, Listing, Leaving, Goes
  <1>5. DisallowHasOneOwner'
    BY Zenon, <1>0, <1>1, DisallowKept DEF Owes, XOwner, Dequeueing, Goes
  <1>6. SharedEnds'
    BY Zenon, <1>0, <1>1, SharedEndsKept
  <1>7. Locked(low')
    BY Zenon, <1>1, DequeueingOwns DEF Dequeueing
  <1>8. Wakes'
    BY Zenon, <1>7 DEF Wakes
  <1> QED
    BY Zenon, <1>3, <1>4, <1>5, <1>6, <1>8, QuietStep

LEMMA DequeueSelfSleepLists ==
  ASSUME IInv, WInv, NEW t \in Thread, DequeueSelfSleep(t)
  PROVE  WInv'
  <1>0. /\ WordTypeOK /\ ListTypeOK /\ CallInv(t) /\ NeedInv(t)
        /\ DisallowHasOneOwner /\ Releases /\ SharedEnds /\ Wakes
    BY Zenon, Parts
  <1>1. /\ pc[t] = "dqSleep" /\ posted' \in [Thread -> BOOLEAN] /\ UNCHANGED <<low, high, waiters, waiting, old, wakeup>>
    BY <1>0 DEF DequeueSelfSleep, ListTypeOK
  <1>2. Locked(low')
    BY Zenon, <1>1, DequeueingOwns DEF Dequeueing
  <1>3. Wakes'
    BY Zenon, <1>2 DEF Wakes
  <1>4. CASE waiting[t]
    <2>1. Others(t) /\ UNCHANGED <<pc, op, mode, need, waked, queued, held>>
      BY Zenon, <1>1, <1>4 DEF DequeueSelfSleep, Others, OthersRun, OthersHold, locals
    <2>2. CallInv(t)' /\ NeedInv(t)'
      BY Zenon, <1>0, <1>1, <2>1 DEF CallInv, NeedInv
    <2>3. QuietLists(t)
      BY Zenon, <1>1, <2>1 DEF QuietLists, Summoned, Listing
    <2>4. DisallowHasOneOwner'
      BY Zenon, <1>0, <1>1, <2>1, DisallowKept DEF Owes, XOwner, Dequeueing
    <2>5. SharedEnds'
      BY Zenon, <1>0, <1>1, <2>1, SharedEndsKept
    <2> QED
      BY Zenon, <1>3, <2>2, <2>3, <2>4, <2>5, QuietStep
  <1>5. CASE ~waiting[t]
    <2> DEFINE m == mode[t]
    <2>0. held' = [held EXCEPT ![t] = m] /\ Return(t)
      BY Zenon, <1>5 DEF DequeueSelfSleep, ReturnHolding
    <2> HIDE DEF m
    <2>1. Ends(t) /\ Others(t)
      BY Zenon, <1>0, <1>1, <2>0, ReturnEnds, HoldsOne DEF Others, OthersHold
    <2>2. wakeup[t] = <<>>
      BY Zenon, <1>0, <1>1 DEF CallInv, Waking
    <2>3. CallInv(t)' /\ NeedInv(t)'
      BY Zenon, <1>1, <1>5, <2>1, <2>2, EndedCall
    <2>4. QuietLists(t)
      BY Zenon, <1>1, <2>1 DEF QuietLists, Summoned, Listing, Leaving, Ends
    <2>5. ~Owes(t) /\ ~Owes(t)'
      BY Zenon, <1>0, <1>1, <2>1 DEF Owes, XOwner, Dequeueing, Ends, NeedInv
    <2>6. DisallowHasOneOwner'
      BY Zenon, <1>0, <1>1, <2>1, <2>5, DisallowKept
    <2>7. SharedEnds'
      BY Zenon, <1>0, <1>1, <2>1, SharedEndsKept
    <2> QED
      BY Zenon, <1>3, <2>3, <2>4, <2>6, <2>7, QuietStep
  <1> QED
    BY Zenon, <1>4, <1>5


-----------------------------------------------------------------------------
(* Attempts. *)

\* A call whose attempt has failed returns, sleeps, or goes to queue.
LEMMA MustWaitCall ==
  ASSUME WordTypeOK, NEW t \in Thread, CallInv(t), NeedInv(t), MustWait(t),
         pc[t] \in {"attempt", "cas", "tryWake"} \cup Waking, op[t] \in Attempting,
         held[t] = None, waiting' = waiting, waiters' = waiters, wakeup'[t] = <<>>
  PROVE  /\ CallInv(t)' /\ NeedInv(t)' /\ pc'[t] \in {"idle", "sleep", "qMark"}
         /\ Owes(t)' <=> Owes(t)
         /\ Summoned(t) => Summoned(t)'
         /\ Retrying(t) => Retrying(t)' \/ (waked[t] /\ pc'[t] = "sleep")
         /\ Refused(t)' => pc'[t] = "sleep" /\ t \in Range(waiters)
  <1>0. held' = held /\ OthersRun(t)
    BY Zenon, MustWaitGoes
  <1>1. CASE op[t] = "LWLockConditionalAcquire" /\ Ends(t)
    <2>1. ~queued[t] /\ ~waiting[t] /\ ~need[t] /\ ~waked[t]
      BY <1>1 DEF CallInv, NeedInv, Queueing
    <2>2. CallInv(t)' /\ NeedInv(t)'
      BY Zenon, <1>1, <2>1, EndedCall
    <2> QED
      BY Zenon, <1>1, <2>1, <2>2 DEF Ends, Owes, Summoned, Retrying, Refused, Waking
  <1>2. CASE op[t] # "LWLockConditionalAcquire" /\ queued[t] /\ Goes(t, "sleep")
    <2>1. op[t] \in Queueing
      BY ZenonT(40), <1>2 DEF Attempting
    <2>2. CallInv(t)'
      BY <1>2, <2>1 DEF CallInv, Goes, Waking, Leaving
    <2>3. NeedInv(t)'
      BY ZenonT(40), <1>2 DEF NeedInv, Goes
    <2>4. ~XOwner(t) /\ ~XOwner(t)'
      BY Zenon, <1>0, <1>2 DEF XOwner, Dequeueing, Goes, None, X, Waking
    <2> QED
      BY Zenon, <1>2, <2>2, <2>3, <2>4 DEF Goes, Owes, Summoned, Retrying, Refused
  <1>3. CASE op[t] # "LWLockConditionalAcquire" /\ ~queued[t] /\ Goes(t, "qMark")
    <2>1. op[t] \in Queueing /\ ~waiting[t]
      BY Zenon, <1>3 DEF Attempting, CallInv
    <2>2. CallInv(t)'
      BY <1>3, <2>1 DEF CallInv, Goes, Waking, Leaving
    <2>3. need[t] => waked[t]
      BY <1>3 DEF NeedInv, Waking
    <2>4. NeedInv(t)'
      BY Zenon, <1>3, <2>3 DEF NeedInv, Goes
    <2>5. ~XOwner(t) /\ ~XOwner(t)'
      BY <1>0, <1>3 DEF XOwner, Dequeueing, Goes, None, X, Waking
    <2> QED
      BY Zenon, <1>3, <2>2, <2>4, <2>5 DEF Goes, Owes, Summoned, Retrying, Refused, Waking
  <1> QED
    BY Zenon, <1>1, <1>2, <1>3, MustWaitGoes

\* The attempt of a thread that was not woken fails on DISALLOW_PREEMPT while the
\* lock is free: the owner of that bit is retrying, or somebody wakes it.
LEMMA DisallowRescued ==
  ASSUME IInv, WInv, NEW t \in Thread, pc[t] \in {"attempt", "cas"}, ~waked[t],
         Others(t), waiters' = waiters, Summoned(t) => Summoned(t)', low.disallow, ~Locked(low)
  PROVE  \E v \in Thread : Rescuer(v)'
  <1>0. Calls /\ Wakes /\ DisallowHasOneOwner
    BY Zenon DEF WInv
  <1>1. PICK w \in Thread : Owes(w)
    BY Zenon, <1>0 DEF DisallowHasOneOwner
  <1>2. CallInv(w) /\ NeedInv(w) /\ need[w] /\ ~XOwner(w)
    BY Zenon, <1>0, <1>1 DEF Calls, Owes
  <1>3. w # t
    BY <1>2 DEF NeedInv
  <1>4. pc[w] = "sleep" \/ (waked[w] /\ pc[w] \in {"attempt", "qMark", "qPush"})
    BY <1>2 DEF NeedInv, XOwner, Dequeueing, Leaving
  <1>5. \A v \in Thread \ {t} : Rescuer(v) => Rescuer(v)'
    BY Zenon DEF Others, OthersRun, Rescuer, Summoned, Retrying
  <1>6. CASE waked[w] /\ pc[w] \in {"attempt", "qMark", "qPush"}
    BY Zenon, <1>3, <1>5, <1>6 DEF Rescuer, Retrying
  <1>7. CASE pc[w] = "sleep" /\ w \notin Range(waiters)
    <2>1. Summoned(w)
      BY Zenon, <1>2, <1>7 DEF Summoned, CallInv, NeedInv
    <2> QED
      BY Zenon, <1>3, <1>5, <2>1 DEF Rescuer
  <1>8. CASE pc[w] = "sleep" /\ w \in Range(waiters)
    <2>1. PICK v \in Thread : Rescuer(v)
      BY Zenon, <1>0, <1>8 DEF Refused, Wakes
    <2>2. v = t => Summoned(t)
      BY Zenon, <2>1 DEF Rescuer, Retrying
    <2> QED
      BY Zenon, <1>5, <2>1, <2>2 DEF Rescuer
  <1> QED
    BY Zenon, <1>4, <1>6, <1>7, <1>8

\* The wakeup check found nobody to wake, so somebody is on the way.
LEMMA NobodyToWake ==
  ASSUME IInv, WInv, NEW t \in Thread, Others(t), waiters' = waiters,
         ~CheckWaiters(low', high), Summoned(t) => Summoned(t)'
  PROVE  Wakes'
  <1>1. CASE Locked(low')
    BY Zenon, <1>1 DEF Wakes
  <1>2. CASE ~ (high.hasWaiters /\ high.releaseOk)
    BY Zenon, <1>2, WakesReleased, Parts
  <1> QED
    BY Zenon, <1>1, <1>2 DEF CheckWaiters

LEMMA TryWakeupLists ==
  ASSUME IInv, WInv, NEW t \in Thread, LWLockTryWakeupWhenAttemptLock(t)
  PROVE  WInv'
  <1>0. /\ WordTypeOK /\ ListTypeOK /\ CallInv(t) /\ NeedInv(t)
        /\ DisallowHasOneOwner /\ Releases /\ SharedEnds /\ Wakes
        /\ held[t] = None
    BY Zenon, Parts DEF LWLockTryWakeupWhenAttemptLock
  <1>1. pc[t] = "tryWake" /\ UNCHANGED <<low, high, waiters, waiting, posted, old, wakeup>>
    BY Zenon DEF LWLockTryWakeupWhenAttemptLock
  <1>2. wakeup[t] = <<>> /\ mode[t] = S /\ op[t] \in Attempting
    BY <1>0, <1>1 DEF CallInv, Waking, None, S
  <1>3. posted' \in [Thread -> BOOLEAN]
    BY Zenon, <1>0, <1>1 DEF ListTypeOK
  <1>4. CASE CheckWaiters(low, high)
    <2>1. Goes(t, "wkLock") /\ Others(t) /\ held' = held
      BY Zenon, <1>0, <1>1, <1>4, GotoGoes DEF LWLockTryWakeupWhenAttemptLock, Others, OthersHold
    <2>2. CallInv(t)'
      BY SMTT(20), <1>0, <1>1, <1>2, <2>1 DEF CallInv, Goes, Waking, Leaving
    <2>3. NeedInv(t)' /\ ~need[t] /\ ~need'[t]
      BY <1>0, <1>1, <2>1 DEF NeedInv, Goes, Leaving
    <2>4. QuietLists(t)
      BY Zenon, <1>1, <1>3, <2>1 DEF QuietLists, Summoned, Listing, Leaving, Goes
    <2>5. DisallowHasOneOwner'
      BY Zenon, <1>0, <1>1, <2>1, <2>3, DisallowKept DEF Owes
    <2>6. SharedEnds'
      BY Zenon, <1>0, <1>1, <2>1, SharedEndsKept
    <2>7. Wakes'
      BY Zenon, <1>0, <1>1, <2>1, WakesKept DEF Goes, Rescuer
    <2> QED
      BY Zenon, <2>2, <2>3, <2>4, <2>5, <2>6, <2>7, QuietStep
  <1>5. CASE ~CheckWaiters(low, high)
    <2>1. MustWait(t)
      BY Zenon, <1>5 DEF LWLockTryWakeupWhenAttemptLock
    <2>2. Others(t)
      BY Zenon, <1>0, <1>1, <2>1, MustWaitGoes DEF Others, OthersHold
    <2>3. /\ CallInv(t)' /\ NeedInv(t)' /\ pc'[t] \in {"idle", "sleep", "qMark"}
          /\ Owes(t)' <=> Owes(t)
          /\ Summoned(t) => Summoned(t)'
      BY Zenon, <1>0, <1>1, <1>2, <2>1, MustWaitCall
    <2>4. QuietLists(t)
      BY Zenon, <1>1, <1>3, <2>2, <2>3 DEF QuietLists, Listing, Leaving
    <2>5. DisallowHasOneOwner'
      BY Zenon, <1>0, <1>1, <2>2, <2>3, DisallowKept
    <2>6. SharedEnds'
      BY Zenon, <1>0, <1>1, <2>2, SharedEndsKept
    <2>7. Wakes'
      BY Zenon, <1>1, <1>5, <2>2, <2>3, NobodyToWake
    <2> QED
      BY Zenon, <2>3, <2>4, <2>5, <2>6, <2>7, QuietStep
  <1> QED
    BY Zenon, <1>4, <1>5


\* A call that got the lock returns, or leaves the wait list first.
LEMMA AcquiredCall ==
  ASSUME WordTypeOK, NEW t \in Thread, CallInv(t), NeedInv(t), Acquired(t),
         pc[t] \in {"attempt", "cas"}, op[t] \in Attempting,
         waiting' = waiting, waiters' = waiters, wakeup'[t] = <<>>
  PROVE  /\ CallInv(t)' /\ NeedInv(t)' /\ pc'[t] \in {"idle", "dqLock"} /\ ~Owes(t)'
         /\ Summoned(t) => Summoned(t)'
  <1>1. CASE queued[t] /\ Goes(t, "dqLock")
    <2>1. op[t] \in Queueing
      BY Zenon, <1>1 DEF CallInv
    <2>2. CallInv(t)'
      BY <1>1, <2>1 DEF CallInv, Goes, Waking, Leaving
    <2>3. need[t] => waked[t] /\ mode[t] = X
      BY <1>1 DEF NeedInv
    <2>4. NeedInv(t)'
      BY Zenon, <1>1, <2>3 DEF NeedInv, Goes
    <2>5. ~Owes(t)'
      BY Zenon, <1>1, <2>3 DEF Owes, XOwner, Dequeueing, Goes
    <2> QED
      BY Zenon, <1>1, <2>2, <2>4, <2>5 DEF Goes, Summoned
  <1>2. CASE ~queued[t] /\ Ends(t)
    <2>1. ~waiting[t]
      BY Zenon, <1>2 DEF CallInv
    <2> QED
      BY Zenon, <1>2, <2>1, EndedCall DEF Ends, Owes, Summoned
  <1> QED
    BY Zenon, <1>1, <1>2, AcquiredGoes

LEMMA AttemptExclusiveLists ==
  ASSUME IInv, WInv, NEW t \in Thread, AttemptExclusive(t)
  PROVE  WInv'
  <1>0. /\ WordTypeOK /\ ListTypeOK /\ CallInv(t) /\ NeedInv(t)
        /\ DisallowHasOneOwner /\ Releases /\ SharedEnds /\ Wakes
        /\ held[t] = None
    BY Zenon, Parts DEF AttemptExclusive
  <1>1. pc[t] = "attempt" /\ mode[t] = X /\ UNCHANGED <<high, waiters, waiting, posted, old, wakeup>>
    BY Zenon DEF AttemptExclusive
  <1>2. wakeup[t] = <<>> /\ op[t] \in Attempting
    BY <1>0, <1>1 DEF CallInv, Waking, None, X
  <1>3. posted' \in [Thread -> BOOLEAN]
    BY Zenon, <1>0, <1>1 DEF ListTypeOK
  <1>4. CASE ExclusiveFree(low, need[t], waked[t])
    <2>1. Acquired(t)
      BY Zenon, <1>4 DEF AttemptExclusive
    <2>2. low' = [low EXCEPT !.excl = TRUE, !.disallow = @ /\ ~need[t]]
      BY Zenon, <1>4 DEF AttemptExclusive, LWLockGetDesiredStateExclusive
    <2>3. low'.excl /\ (low'.disallow <=> low.disallow /\ ~need[t]) /\ low'.shared = low.shared
      BY Zenon, <1>0, <2>2 DEF WordTypeOK, Low32
    <2>4. ~low.shared
      BY Zenon, <1>4 DEF ExclusiveFree, Locked
    <2>5. Others(t)
      BY Zenon, <1>0, <1>1, <2>1, AcquiredGoes DEF Others, OthersHold
    <2>6. /\ CallInv(t)' /\ NeedInv(t)' /\ pc'[t] \in {"idle", "dqLock"} /\ ~Owes(t)'
          /\ Summoned(t) => Summoned(t)'
      BY Zenon, <1>0, <1>1, <1>2, <2>1, AcquiredCall
    <2>7. QuietLists(t)
      BY Zenon, <1>1, <1>3, <2>5, <2>6 DEF QuietLists, Listing, Leaving
    <2>8. DisallowHasOneOwner'
      <3>1. \A u \in Thread \ {t} : Owes(u)' <=> Owes(u)
        BY Zenon, <2>5 DEF Others, OthersRun, OthersHold, Owes, XOwner, Dequeueing
      <3>2. need[t] <=> Owes(t)
        BY <1>0, <1>1 DEF Owes, XOwner, Dequeueing, None, X
      <3> QED
        BY Zenon, <1>0, <2>3, <2>6, <3>1, <3>2 DEF DisallowHasOneOwner
    <2>9. SharedEnds'
      BY Zenon, <2>3, <2>4 DEF SharedEnds
    <2>10. Wakes'
      BY Zenon, <2>3 DEF Wakes, Locked
    <2> QED
      BY Zenon, <2>6, <2>7, <2>8, <2>9, <2>10, QuietStep
  <1>5. CASE ~ExclusiveFree(low, need[t], waked[t])
    <2>1. MustWait(t)
      BY Zenon, <1>5 DEF AttemptExclusive
    <2>2. low' = low
      BY Zenon, <1>5 DEF AttemptExclusive, LWLockGetDesiredStateExclusive
    <2>3. Others(t)
      BY Zenon, <1>0, <1>1, <2>1, MustWaitGoes DEF Others, OthersHold
    <2>4. /\ CallInv(t)' /\ NeedInv(t)' /\ pc'[t] \in {"idle", "sleep", "qMark"}
          /\ Owes(t)' <=> Owes(t)
          /\ Summoned(t) => Summoned(t)'
      BY Zenon, <1>0, <1>1, <1>2, <2>1, MustWaitCall
    <2>5. QuietLists(t)
      BY Zenon, <1>1, <1>3, <2>3, <2>4 DEF QuietLists, Listing, Leaving
    <2>6. DisallowHasOneOwner'
      BY Zenon, <1>0, <2>2, <2>3, <2>4, DisallowKept
    <2>7. SharedEnds'
      BY Zenon, <1>0, <1>1, <2>2, <2>3, SharedEndsKept
    <2>8. Locked(low) \/ (low.disallow /\ ~waked[t])
      BY Zenon, <1>5 DEF ExclusiveFree
    <2>9. Wakes'
      <3>1. CASE Locked(low)
        BY Zenon, <2>2, <3>1 DEF Wakes
      <3>2. CASE ~Locked(low)
        BY Zenon, <1>1, <2>3, <2>4, <2>8, <3>2, DisallowRescued DEF Wakes
      <3> QED
        BY Zenon, <3>1, <3>2
    <2> QED
      BY Zenon, <2>4, <2>5, <2>6, <2>7, <2>9, QuietStep
  <1> QED
    BY Zenon, <1>4, <1>5

\* A shared attempt owns the lock, with the count at least its own.
LEMMA SharedAcquiredLists ==
  ASSUME IInv, WInv, NEW t \in Thread, pc[t] \in {"attempt", "cas"}, mode[t] = S, Acquired(t),
         low'.shared, low'.cnt # 0, low'.disallow = low.disallow,
         UNCHANGED <<high, waiters, waiting, posted, old, wakeup>>
  PROVE  WInv'
  <1>0. /\ WordTypeOK /\ ListTypeOK /\ CallInv(t) /\ NeedInv(t)
        /\ DisallowHasOneOwner /\ Releases /\ SharedEnds /\ Wakes
    BY Zenon, Parts
  <1>1. wakeup[t] = <<>> /\ op[t] \in Attempting /\ ~need[t]
    BY <1>0 DEF CallInv, NeedInv, Waking, None, S, X
  <1>2. posted' \in [Thread -> BOOLEAN]
    BY Zenon, <1>0 DEF ListTypeOK
  <1>3. Others(t)
    BY Zenon, <1>0, AcquiredGoes DEF Others, OthersHold
  <1>4. /\ CallInv(t)' /\ NeedInv(t)' /\ pc'[t] \in {"idle", "dqLock"} /\ ~Owes(t)'
        /\ Summoned(t) => Summoned(t)'
    BY Zenon, <1>0, <1>1, AcquiredCall
  <1>5. QuietLists(t)
    BY Zenon, <1>2, <1>3, <1>4 DEF QuietLists, Listing, Leaving
  <1>6. DisallowHasOneOwner'
    BY Zenon, <1>0, <1>1, <1>3, <1>4, DisallowKept DEF Owes
  <1>7. SharedEnds'
    BY Zenon DEF SharedEnds
  <1>8. Wakes'
    BY Zenon DEF Wakes, Locked
  <1> QED
    BY Zenon, <1>4, <1>5, <1>6, <1>7, <1>8, QuietStep


LEMMA AttemptShareAddLists ==
  ASSUME IInv, WInv, NEW t \in Thread, AttemptShareAdd(t)
  PROVE  WInv'
  <1>0. /\ WordTypeOK /\ ListTypeOK /\ CallInv(t) /\ NeedInv(t)
        /\ DisallowHasOneOwner /\ Releases /\ SharedEnds /\ Wakes
    BY Zenon, Parts
  <1>1. /\ pc[t] = "attempt" /\ mode[t] = S /\ UNCHANGED <<high, waiters, waiting, posted, old, wakeup>>
        /\ low' = [low EXCEPT !.cnt = @ + 1]
    BY Zenon DEF AttemptShareAdd
  <1>2. /\ low'.cnt # 0 /\ low'.shared = low.shared /\ low'.excl = low.excl
        /\ low'.disallow = low.disallow
    BY <1>0, <1>1 DEF WordTypeOK, Low32
  <1>3. CASE DirectShare(low, waked[t])
    <2>1. Acquired(t) /\ low.shared
      BY Zenon, <1>3 DEF AttemptShareAdd, DirectShare
    <2> QED
      BY Zenon, <1>1, <1>2, <2>1, SharedAcquiredLists
  <1>4. CASE ~DirectShare(low, waked[t])
    <2>1. Goes(t, "cas") /\ Others(t)
      BY Zenon, <1>0, <1>1, <1>4, GotoGoes DEF AttemptShareAdd, Others, OthersHold
    <2>2. CallInv(t)'
      BY <1>0, <1>1, <2>1 DEF CallInv, Goes, Waking, Leaving
    <2>3. NeedInv(t)' /\ ~need[t] /\ ~need'[t]
      BY <1>0, <1>1, <2>1 DEF NeedInv, Goes, S, X
    <2>4. posted' \in [Thread -> BOOLEAN]
      BY Zenon, <1>0, <1>1 DEF ListTypeOK
    <2>5. QuietLists(t)
      BY Zenon, <1>1, <2>1, <2>4 DEF QuietLists, Summoned, Listing, Leaving, Goes
    <2>6. DisallowHasOneOwner'
      BY Zenon, <1>0, <1>2, <2>1, <2>3, DisallowKept DEF Owes
    <2>7. SharedEnds'
      BY Zenon, <1>2 DEF SharedEnds
    <2>8. Rescuer(t) => Rescuer(t)'
      BY Zenon, <1>1, <2>1 DEF Goes, Rescuer, Summoned, Retrying
    <2>9. ~Refused(t)'
      BY <2>1 DEF Goes, Refused, Waking
    <2>10. Wakes'
      BY Zenon, <1>0, <1>1, <1>2, <2>1, <2>8, <2>9, WakesKept DEF Locked
    <2> QED
      BY Zenon, <2>2, <2>3, <2>5, <2>6, <2>7, <2>10, QuietStep
  <1> QED
    BY Zenon, <1>3, <1>4

\* The last attempt that takes its increment back clears SHARED itself.
LEMMA AttemptShareCasLists ==
  ASSUME IInv, WInv, CountLaw, NEW t \in Thread, AttemptShareCas(t)
  PROVE  WInv'
  <1>0. /\ WordTypeOK /\ ListTypeOK /\ CallInv(t) /\ NeedInv(t)
        /\ DisallowHasOneOwner /\ Releases /\ SharedEnds /\ Wakes
        /\ held[t] = None
    BY Zenon, Parts DEF AttemptShareCas
  <1>1. pc[t] = "cas" /\ mode[t] = S /\ UNCHANGED <<high, waiters, waiting, posted, old, wakeup>>
    BY Zenon, <1>0 DEF AttemptShareCas, CallInv
  <1>2. low.cnt \in Nat /\ low.cnt # 0
    BY ZenonT(40), <1>1 DEF CountLaw
  <1>3. wakeup[t] = <<>> /\ op[t] \in Attempting /\ ~need[t]
    BY <1>0, <1>1 DEF CallInv, NeedInv, Waking, None, S, X
  <1>4. posted' \in [Thread -> BOOLEAN]
    BY Zenon, <1>0, <1>1 DEF ListTypeOK
  <1>5. CASE DirectShare(low, waked[t])
    <2>1. Acquired(t) /\ low' = low /\ low.shared
      BY Zenon, <1>5 DEF AttemptShareCas, DirectShare
    <2> QED
      BY Zenon, <1>1, <1>2, <2>1, SharedAcquiredLists
  <1>6. CASE ~DirectShare(low, waked[t]) /\ ShareFree(low, waked[t])
    <2>1. Acquired(t) /\ low' = [low EXCEPT !.shared = TRUE]
      BY Zenon, <1>6 DEF AttemptShareCas, LWLockGetDesiredStateShare
    <2>2. low'.shared /\ low'.cnt = low.cnt /\ low'.disallow = low.disallow
      BY <1>0, <2>1 DEF WordTypeOK, Low32
    <2> QED
      BY Zenon, <1>1, <1>2, <2>1, <2>2, SharedAcquiredLists
  <1>7. CASE ~DirectShare(low, waked[t]) /\ ~ShareFree(low, waked[t])
    <2>1. low' = [low EXCEPT !.cnt = @ - 1, !.shared = @ /\ ~(low.disallow /\ low.cnt = 1)]
      BY Zenon, <1>7 DEF AttemptShareCas, LWLockGetDesiredStateShare
    <2>2. /\ low'.cnt = low.cnt - 1 /\ low'.excl = low.excl /\ low'.disallow = low.disallow
          /\ low'.shared <=> low.shared /\ ~(low.disallow /\ low.cnt = 1)
      BY Zenon, <1>0, <2>1 DEF WordTypeOK, Low32
    <2>3. low.excl \/ (low.disallow /\ ~waked[t])
      BY Zenon, <1>7 DEF ShareFree
    <2>4. low.shared => ~low.excl
      BY Zenon DEF IInv, StateWordCounts
    <2>5. ~(low'.shared /\ low'.cnt = 0)
      BY <1>2, <2>2, <2>3, <2>4
    <2>6. SharedEnds'
      BY Zenon, <2>5 DEF SharedEnds
    <2>7. CASE low.shared
      <3>1. Goes(t, "tryWake") /\ Others(t)
        BY Zenon, <1>0, <1>1, <1>7, <2>7, GotoGoes DEF AttemptShareCas, Others, OthersHold
      <3>2. CallInv(t)'
        BY <1>0, <1>1, <3>1 DEF CallInv, Goes, Waking, Leaving
      <3>3. NeedInv(t)' /\ ~need'[t]
        BY Zenon, <1>3, <3>1 DEF NeedInv, Goes
      <3>4. QuietLists(t)
        BY Zenon, <1>1, <1>4, <3>1 DEF QuietLists, Summoned, Listing, Leaving, Goes
      <3>5. DisallowHasOneOwner'
        BY Zenon, <1>0, <1>3, <2>2, <3>1, <3>3, DisallowKept DEF Owes
      <3>6. Wakes'
        BY Zenon, <1>0, <1>1, <3>1, WakesKept DEF Goes, Rescuer
      <3> QED
        BY Zenon, <2>6, <3>2, <3>3, <3>4, <3>5, <3>6, QuietStep
    <2>8. CASE ~low.shared
      <3>1. MustWait(t)
        BY Zenon, <1>7, <2>8 DEF AttemptShareCas
      <3>2. Others(t)
        BY Zenon, <1>0, <1>1, <3>1, MustWaitGoes DEF Others, OthersHold
      <3>3. /\ CallInv(t)' /\ NeedInv(t)' /\ pc'[t] \in {"idle", "sleep", "qMark"}
            /\ Owes(t)' <=> Owes(t)
            /\ Summoned(t) => Summoned(t)'
        BY Zenon, <1>0, <1>1, <1>3, <3>1, MustWaitCall
      <3>4. QuietLists(t)
        BY Zenon, <1>1, <1>4, <3>2, <3>3 DEF QuietLists, Listing, Leaving
      <3>5. DisallowHasOneOwner'
        BY Zenon, <1>0, <2>2, <3>2, <3>3, DisallowKept
      <3>6. Wakes'
        <4>1. CASE low.excl
          BY Zenon, <2>2, <4>1 DEF Wakes, Locked
        <4>2. CASE ~low.excl
          <5>1. ~Locked(low)
            BY Zenon, <2>8, <4>2 DEF Locked
          <5> QED
            BY Zenon, <1>1, <2>3, <3>2, <3>3, <4>2, <5>1, DisallowRescued DEF Wakes
        <4> QED
          BY Zenon, <4>1, <4>2
      <3> QED
        BY Zenon, <2>6, <3>3, <3>4, <3>5, <3>6, QuietStep
    <2> QED
      BY Zenon, <2>7, <2>8
  <1> QED
    BY Zenon, <1>5, <1>6, <1>7

\* LWLockConditionalAcquireAnyMode never touches the lists.
LEMMA AnyModeQuiet ==
  ASSUME IInv, WInv, NEW t \in Thread, op[t] = "LWLockConditionalAcquireAnyMode",
         pc[t] \in {"attempt", "anyCas", "anySub"},
         Ends(t) \/ Goes(t, "anyCas") \/ Goes(t, "anySub"), Others(t),
         low'.disallow = low.disallow, SharedEnds', Locked(low) => Locked(low'),
         UNCHANGED <<high, waiters, waiting, posted, old, wakeup>>
  PROVE  WInv'
  <1>0. /\ WordTypeOK /\ ListTypeOK /\ CallInv(t) /\ NeedInv(t)
        /\ DisallowHasOneOwner /\ Releases /\ SharedEnds /\ Wakes
    BY ZenonT(40), Parts
  <1>1. ~queued[t] /\ ~waiting[t] /\ ~waked[t] /\ ~need[t] /\ wakeup[t] = <<>>
    BY <1>0 DEF CallInv, NeedInv, Queueing, Waking
  <1>2. ~queued'[t] /\ ~waked'[t] /\ ~need'[t] /\ pc'[t] \in {"idle", "anyCas", "anySub"}
    BY Zenon, <1>1 DEF Ends, Goes
  <1>3. CallInv(t)' /\ NeedInv(t)'
    <2>1. CASE Ends(t)
      BY Zenon, <1>1, <2>1, EndedCall
    <2>2. CASE Goes(t, "anyCas") \/ Goes(t, "anySub")
      BY <1>1, <2>2 DEF CallInv, NeedInv, Goes, Waking, Leaving
    <2> QED
      BY Zenon, <2>1, <2>2
  <1>4. posted' \in [Thread -> BOOLEAN]
    BY Zenon, <1>0 DEF ListTypeOK
  <1>5. QuietLists(t)
    BY Zenon, <1>1, <1>2, <1>4 DEF QuietLists, Summoned, Listing, Leaving
  <1>6. DisallowHasOneOwner'
    BY ZenonT(40), <1>0, <1>1, <1>2, DisallowKept DEF Owes
  <1>7. ~Refused(t)' /\ ~Rescuer(t)
    BY <1>1, <1>2 DEF Refused, Rescuer, Summoned, Retrying, Waking
  <1>8. Wakes'
    BY Zenon, <1>0, <1>7, WakesKept
  <1> QED
    BY Zenon, <1>3, <1>5, <1>6, <1>8, QuietStep

\* A return that records the lock as held.
LEMMA ReturnHoldingEnds ==
  ASSUME WordTypeOK, NEW t \in Thread, NEW m, ReturnHolding(t, m), UNCHANGED <<old, wakeup>>
  PROVE  Ends(t) /\ Others(t)
  BY Zenon, ReturnEnds, HoldsOne DEF ReturnHolding, Others, OthersHold

LEMMA AnyModeAddLists ==
  ASSUME IInv, WInv, NEW t \in Thread, AnyModeAdd(t)
  PROVE  WInv'
  <1>0. WordTypeOK
    BY Zenon, Parts
  <1>1. /\ pc[t] = "attempt" /\ op[t] = "LWLockConditionalAcquireAnyMode"
        /\ UNCHANGED <<high, waiters, waiting, posted, old, wakeup>>
        /\ low' = [low EXCEPT !.cnt = @ + 1]
    BY Zenon DEF AnyModeAdd
  <1>2. /\ low'.cnt # 0 /\ low'.shared = low.shared /\ low'.excl = low.excl
        /\ low'.disallow = low.disallow
    BY <1>0, <1>1 DEF WordTypeOK, Low32
  <1>3. SharedEnds' /\ (Locked(low) => Locked(low'))
    BY Zenon, <1>2 DEF SharedEnds, Locked
  <1>4. CASE low.shared
    BY Zenon, <1>0, <1>1, <1>2, <1>3, <1>4, ReturnHoldingEnds, AnyModeQuiet DEF AnyModeAdd
  <1>5. CASE ~low.shared
    <2>1. Goes(t, "anyCas") /\ Others(t)
      BY Zenon, <1>0, <1>1, <1>5, GotoGoes DEF AnyModeAdd, Others, OthersHold
    <2> QED
      BY Zenon, <1>1, <1>2, <1>3, <2>1, AnyModeQuiet
  <1> QED
    BY Zenon, <1>4, <1>5

LEMMA AnyModeCasLists ==
  ASSUME IInv, WInv, NEW t \in Thread, AnyModeCas(t)
  PROVE  WInv'
  <1>0. WordTypeOK /\ SharedEnds /\ CallInv(t)
    BY Zenon, Parts
  <1>1. /\ pc[t] = "anyCas" /\ op[t] = "LWLockConditionalAcquireAnyMode"
        /\ UNCHANGED <<high, waiters, waiting, posted, old, wakeup>>
    BY Zenon, <1>0 DEF AnyModeCas, CallInv
  <1>2. CASE low.shared /\ ReturnHolding(t, S) /\ UNCHANGED low
    <2>1. Ends(t) /\ Others(t)
      BY Zenon, <1>0, <1>1, <1>2, ReturnHoldingEnds
    <2>2. SharedEnds'
      BY Zenon, <1>0, <1>1, <1>2, <2>1, SharedEndsKept
    <2> QED
      BY Zenon, <1>1, <1>2, <2>1, <2>2, AnyModeQuiet
  <1>3. CASE low.excl /\ ~low.shared /\ low' = [low EXCEPT !.cnt = @ - 1] /\ Return(t) /\ UNCHANGED held
    <2>1. Ends(t) /\ Others(t)
      BY Zenon, <1>0, <1>1, <1>3, ReturnEnds DEF Others, OthersHold
    <2>2. low'.shared = low.shared /\ low'.excl = low.excl /\ low'.disallow = low.disallow
      BY Zenon, <1>0, <1>3 DEF WordTypeOK, Low32
    <2>3. SharedEnds' /\ (Locked(low) => Locked(low'))
      BY Zenon, <1>3, <2>2 DEF SharedEnds, Locked
    <2> QED
      BY Zenon, <1>1, <2>1, <2>2, <2>3, AnyModeQuiet
  <1>4. CASE ~Locked(low) /\ low' = [low EXCEPT !.excl = TRUE] /\ Goto(t, "anySub") /\ UNCHANGED <<held, locals>>
    <2>1. Goes(t, "anySub") /\ Others(t)
      BY Zenon, <1>0, <1>1, <1>4, GotoGoes DEF Others, OthersHold
    <2>2. low'.shared = low.shared /\ low'.excl /\ low'.disallow = low.disallow
      BY <1>0, <1>4 DEF WordTypeOK, Low32
    <2>3. SharedEnds' /\ (Locked(low) => Locked(low'))
      BY Zenon, <1>4, <2>2 DEF SharedEnds, Locked
    <2> QED
      BY Zenon, <1>1, <2>1, <2>2, <2>3, AnyModeQuiet
  <1> QED
    BY Zenon, <1>2, <1>3, <1>4 DEF AnyModeCas

LEMMA AnyModeSubLists ==
  ASSUME IInv, WInv, NEW t \in Thread, AnyModeSub(t)
  PROVE  WInv'
  <1>0. WordTypeOK /\ CallInv(t)
    BY Zenon, Parts
  <1>1. /\ pc[t] = "anySub" /\ op[t] = "LWLockConditionalAcquireAnyMode"
        /\ UNCHANGED <<high, waiters, waiting, posted, old, wakeup>>
        /\ low' = [low EXCEPT !.cnt = @ - 1] /\ ReturnHolding(t, X)
    BY Zenon, <1>0 DEF AnyModeSub, CallInv
  <1>2. Ends(t) /\ Others(t)
    BY Zenon, <1>0, <1>1, ReturnHoldingEnds
  <1>3. low'.shared = low.shared /\ low'.excl = low.excl /\ low'.disallow = low.disallow
    BY <1>0, <1>1 DEF WordTypeOK, Low32
  <1>4. low.excl /\ ~low.shared
    BY Zenon, <1>1 DEF IInv, StateWordCounts, XOwner, Holder
  <1>5. SharedEnds' /\ (Locked(low) => Locked(low'))
    BY Zenon, <1>3, <1>4 DEF SharedEnds, Locked
  <1> QED
    BY Zenon, <1>1, <1>2, <1>3, <1>5, AnyModeQuiet


-----------------------------------------------------------------------------
(* Releases. *)

LEMMA BegunRelease ==
  ASSUME WordTypeOK, NEW t \in Thread, NEW l \in {"idle", "wkLock", "relCas"}, BeginRelease(t, l),
         CallInv(t), NeedInv(t), pc[t] = "idle", waiting' = waiting, wakeup' = wakeup
  PROVE  /\ OthersRun(t) /\ \A u \in Thread \ {t} : held'[u] = held[u]
         /\ pc'[t] = l /\ CallInv(t)' /\ NeedInv(t)'
         /\ ~need[t] /\ ~need'[t] /\ ~queued[t] /\ ~waked[t] /\ ~queued'[t]
         /\ held'[t] = None
  <1>1. pc'[t] = l /\ op'[t] = IF l = "idle" THEN None ELSE "LWLockRelease"
    BY SMTT(20) DEF WordTypeOK, BeginRelease, Goto
  <1>2. /\ mode'[t] = mode[t] /\ need'[t] = need[t] /\ waked'[t] = waked[t] /\ queued'[t] = queued[t]
    BY DEF BeginRelease
  <1>3. OthersRun(t)
    BY DEF WordTypeOK, BeginRelease, Goto, OthersRun
  <1>4. held'[t] = None /\ \A u \in Thread \ {t} : held'[u] = held[u]
    BY Zenon, HoldsOne DEF BeginRelease
  <1>5. ~need[t] /\ ~queued[t] /\ ~waked[t] /\ ~waiting[t] /\ wakeup[t] = <<>>
    BY DEF CallInv, NeedInv, Queueing, None, Waking
  <1>6. NeedInv(t)'
    BY Zenon, <1>2, <1>5 DEF NeedInv
  <1>7. CallInv(t)'
    BY <1>1, <1>2, <1>5 DEF CallInv, Waking, Leaving, None
  <1> QED
    BY Zenon, <1>1, <1>2, <1>3, <1>4, <1>5, <1>6, <1>7

\* What the steps of a release have in common.
LEMMA ReleaseQuiet ==
  ASSUME IInv, WInv, NEW t \in Thread, CallInv(t)', NeedInv(t)', ~need[t], ~need'[t], ~queued[t],
         pc[t] \in {"idle", "relCas", "relRetry", "relRead"},
         pc'[t] \in {"idle", "relCas", "relRetry", "relRead", "wkLock"},
         Others(t), low'.disallow = low.disallow, SharedEnds', Wakes',
         UNCHANGED <<high, waiters, waiting, posted, wakeup>>
  PROVE  WInv'
  <1>0. ListTypeOK /\ DisallowHasOneOwner
    BY Zenon, Parts
  <1>1. posted' \in [Thread -> BOOLEAN]
    BY Zenon, <1>0 DEF ListTypeOK
  <1>2. QuietLists(t)
    BY Zenon, <1>1 DEF QuietLists, Summoned, Listing, Leaving
  <1>3. DisallowHasOneOwner'
    BY Zenon, <1>0, DisallowKept DEF Owes
  <1> QED
    BY Zenon, <1>2, <1>3, QuietStep

LEMMA ReleaseExclusiveLists ==
  ASSUME IInv, WInv, NEW t \in Thread, ReleaseExclusive(t)
  PROVE  WInv'
  <1>0. WordTypeOK /\ CallInv(t) /\ NeedInv(t) /\ Wakes
    BY Zenon, Parts
  <1>1. /\ pc[t] = "idle" /\ held[t] = X /\ UNCHANGED <<high, waiters, waiting, posted, old, wakeup>>
        /\ low' = [low EXCEPT !.excl = FALSE]
    BY Zenon DEF ReleaseExclusive
  <1>2. low'.shared = low.shared /\ low'.disallow = low.disallow
    BY <1>0, <1>1 DEF WordTypeOK, Low32
  <1>3. ~low.shared
    BY Zenon, <1>1 DEF IInv, StateWordCounts, XOwner, Holder
  <1>4. SharedEnds'
    BY Zenon, <1>2, <1>3 DEF SharedEnds
  <1>5. CASE CheckWaiters(low', high)
    <2> DEFINE l == "wkLock"
    <2>1. BeginRelease(t, l) /\ l \in {"idle", "wkLock", "relCas"}
      BY Zenon, <1>5 DEF ReleaseExclusive
    <2> HIDE DEF l
    <2>2. /\ OthersRun(t) /\ \A u \in Thread \ {t} : held'[u] = held[u]
          /\ pc'[t] = l /\ CallInv(t)' /\ NeedInv(t)'
          /\ ~need[t] /\ ~need'[t] /\ ~queued[t]
      BY Zenon, <1>0, <1>1, <2>1, BegunRelease
    <2>3. Others(t)
      BY Zenon, <1>1, <2>2 DEF Others, OthersHold
    <2>4. Wakes'
      BY Zenon, <1>0, <1>1, <2>2, <2>3, WakesKept DEF Rescuer, l
    <2> QED
      BY Zenon, <1>1, <1>2, <1>4, <2>2, <2>3, <2>4, ReleaseQuiet DEF l
  <1>6. CASE ~CheckWaiters(low', high)
    <2> DEFINE l == "idle"
    <2>1. BeginRelease(t, l) /\ l \in {"idle", "wkLock", "relCas"}
      BY Zenon, <1>6 DEF ReleaseExclusive
    <2> HIDE DEF l
    <2>2. /\ OthersRun(t) /\ \A u \in Thread \ {t} : held'[u] = held[u]
          /\ pc'[t] = l /\ CallInv(t)' /\ NeedInv(t)'
          /\ ~need[t] /\ ~need'[t] /\ ~queued[t]
      BY Zenon, <1>0, <1>1, <2>1, BegunRelease
    <2>3. Others(t)
      BY Zenon, <1>1, <2>2 DEF Others, OthersHold
    <2>4. Wakes'
      BY Zenon, <1>1, <1>6, <2>2, <2>3, NobodyToWake DEF Summoned
    <2> QED
      BY Zenon, <1>1, <1>2, <1>4, <2>2, <2>3, <2>4, ReleaseQuiet DEF l
  <1> QED
    BY Zenon, <1>5, <1>6

LEMMA ReleaseShareLists ==
  ASSUME IInv, WInv, NEW t \in Thread, ReleaseShare(t)
  PROVE  WInv'
  <1>0. WordTypeOK /\ CallInv(t) /\ NeedInv(t)
    BY Zenon, Parts
  <1>1. /\ pc[t] = "idle" /\ held[t] = S /\ UNCHANGED <<high, waiters, waiting, posted, wakeup>>
        /\ low' = [low EXCEPT !.cnt = @ - 1]
    BY Zenon DEF ReleaseShare
  <1>2. low'.shared = low.shared /\ low'.disallow = low.disallow
    BY <1>0, <1>1 DEF WordTypeOK, Low32
  <1>3. low.shared
    BY Zenon, <1>1 DEF IInv, StateWordCounts, SOwner, Holder
  <1>4. Wakes'
    BY Zenon, <1>2, <1>3 DEF Wakes, Locked
  <1>5. CASE low'.cnt = 0
    <2> DEFINE l == "relCas"
    <2>1. BeginRelease(t, l) /\ l \in {"idle", "wkLock", "relCas"} /\ old' = [old EXCEPT ![t] = low']
      BY Zenon, <1>3, <1>5 DEF ReleaseShare
    <2> HIDE DEF l
    <2>2. /\ OthersRun(t) /\ \A u \in Thread \ {t} : held'[u] = held[u]
          /\ pc'[t] = l /\ CallInv(t)' /\ NeedInv(t)'
          /\ ~need[t] /\ ~need'[t] /\ ~queued[t]
      BY Zenon, <1>0, <1>1, <2>1, BegunRelease
    <2>3. old'[t] = low' /\ \A u \in Thread \ {t} : old'[u] = old[u]
      BY <1>0, <2>1 DEF WordTypeOK
    <2>4. Others(t)
      BY Zenon, <1>1, <2>2, <2>3 DEF Others, OthersHold
    <2>5. SharedEnds'
      BY Zenon, <2>2, <2>3 DEF SharedEnds, l
    <2> QED
      BY Zenon, <1>1, <1>2, <1>4, <2>2, <2>4, <2>5, ReleaseQuiet DEF l
  <1>6. CASE low'.cnt # 0
    <2> DEFINE l == "idle"
    <2>1. BeginRelease(t, l) /\ l \in {"idle", "wkLock", "relCas"} /\ old' = old
      BY Zenon, <1>6 DEF ReleaseShare
    <2> HIDE DEF l
    <2>2. /\ OthersRun(t) /\ \A u \in Thread \ {t} : held'[u] = held[u]
          /\ pc'[t] = l /\ CallInv(t)' /\ NeedInv(t)'
          /\ ~need[t] /\ ~need'[t] /\ ~queued[t]
      BY Zenon, <1>0, <1>1, <2>1, BegunRelease
    <2>3. Others(t)
      BY Zenon, <1>1, <2>1, <2>2 DEF Others, OthersHold
    <2>4. SharedEnds'
      BY Zenon, <1>6 DEF SharedEnds
    <2> QED
      BY Zenon, <1>1, <1>2, <1>4, <2>2, <2>3, <2>4, ReleaseQuiet DEF l
  <1> QED
    BY Zenon, <1>5, <1>6

\* The call of a thread inside LWLockRelease goes on, or ends.
LEMMA ReleaseCall ==
  ASSUME WordTypeOK, NEW t \in Thread, CallInv(t), NeedInv(t),
         pc[t] \in {"relCas", "relRetry", "relRead"}, waiting' = waiting, wakeup' = wakeup,
         Ends(t) \/ (\E l \in {"relRetry", "relRead", "wkLock"} : Goes(t, l)),
         pc'[t] = "relRetry" => old'[t].disallow
  PROVE  /\ CallInv(t)' /\ NeedInv(t)' /\ ~need[t] /\ ~need'[t] /\ ~queued[t] /\ ~waked[t]
         /\ ~queued'[t] /\ ~waiting[t]
  <1>1. op[t] = "LWLockRelease" /\ ~need[t] /\ ~queued[t] /\ ~waked[t] /\ ~waiting[t] /\ wakeup[t] = <<>>
    BY DEF CallInv, NeedInv, Queueing, Waking
  <1>2. CASE Ends(t)
    BY ZenonT(40), <1>1, <1>2, EndedCall DEF Ends
  <1>3. ASSUME NEW l \in {"relRetry", "relRead", "wkLock"}, Goes(t, l)
        PROVE  CallInv(t)' /\ NeedInv(t)' /\ ~need'[t] /\ ~queued'[t]
    BY Zenon, <1>1, <1>3 DEF CallInv, NeedInv, Goes, Waking, Leaving
  <1> QED
    BY Zenon, <1>1, <1>2, <1>3

\* SHARED is cleared: the thread goes on to look for waiters.
LEMMA SharedClearedLists ==
  ASSUME IInv, WInv, NEW t \in Thread, pc[t] \in {"relCas", "relRetry"}, Goto(t, "relRead"),
         UNCHANGED <<high, waiters, waiting, posted, held, wakeup>>, UNCHANGED locals,
         low' = [low EXCEPT !.shared = FALSE], old' = [old EXCEPT ![t] = Free]
  PROVE  WInv'
  <1>0. WordTypeOK /\ CallInv(t) /\ NeedInv(t) /\ Wakes
    BY Zenon, Parts
  <1>1. ~low'.shared /\ low'.disallow = low.disallow
    BY <1>0 DEF WordTypeOK, Low32
  <1>2. \A u \in Thread \ {t} : old'[u] = old[u]
    BY <1>0 DEF WordTypeOK
  <1>3. Goes(t, "relRead") /\ Others(t) /\ pc'[t] = "relRead"
    BY Zenon, <1>0, <1>2, GotoGoes DEF Others, OthersHold, Goes
  <1>4. CallInv(t)' /\ NeedInv(t)' /\ ~need[t] /\ ~need'[t] /\ ~queued[t]
    BY Zenon, <1>0, <1>3, ReleaseCall
  <1>5. SharedEnds'
    BY Zenon, <1>1 DEF SharedEnds
  <1>6. Wakes'
    BY Zenon, <1>0, <1>3, WakesKept DEF Rescuer
  <1> QED
    BY Zenon, <1>1, <1>3, <1>4, <1>5, <1>6, ReleaseQuiet

\* SHARED was cleared by somebody else, or is somebody else's.
LEMMA SharedLeftLists ==
  ASSUME IInv, WInv, NEW t \in Thread, pc[t] \in {"relCas", "relRetry"}, Return(t), UNCHANGED low,
         low # old[t], pc[t] = "relCas" => ~(low.disallow /\ low.cnt = 0 /\ low.shared),
         old' = [old EXCEPT ![t] = Free], UNCHANGED <<high, waiters, waiting, posted, held, wakeup>>
  PROVE  WInv'
  <1>0. WordTypeOK /\ CallInv(t) /\ NeedInv(t) /\ Wakes /\ SharedEnds
    BY Zenon, Parts
  <1>1. \A u \in Thread \ {t} : old'[u] = old[u]
    BY <1>0 DEF WordTypeOK
  <1>2. Ends(t) /\ Others(t) /\ pc'[t] = "idle" /\ ~queued'[t] /\ ~waked'[t]
    BY Zenon, <1>0, <1>1, ReturnEnds DEF Others, OthersHold, Ends
  <1>3. CallInv(t)' /\ NeedInv(t)' /\ ~need[t] /\ ~need'[t] /\ ~queued[t] /\ ~waked[t]
    BY Zenon, <1>0, <1>2, ReleaseCall
  <1>4. SharedEnds'
    <2>1. SUFFICES ASSUME low.shared, low.cnt = 0
                   PROVE  \E u \in Thread : \/ pc'[u] = "relCas" /\ (old'[u] = low \/ low.disallow)
                                            \/ pc'[u] = "relRetry" /\ old'[u] = low
      BY Zenon DEF SharedEnds
    <2>2. PICK u \in Thread : \/ pc[u] = "relCas" /\ (old[u] = low \/ low.disallow)
                              \/ pc[u] = "relRetry" /\ old[u] = low
      BY Zenon, <1>0, <2>1 DEF SharedEnds
    <2>3. u # t
      BY Zenon, <2>1, <2>2
    <2> QED
      BY Zenon, <1>2, <2>2, <2>3 DEF Others, OthersRun, OthersHold
  <1>5. ~Refused(t)' /\ ~Rescuer(t)
    BY <1>2, <1>3 DEF Refused, Rescuer, Summoned, Retrying, Waking
  <1>6. Wakes'
    BY Zenon, <1>0, <1>2, <1>5, WakesKept
  <1> QED
    BY Zenon, <1>2, <1>3, <1>4, <1>6, ReleaseQuiet

LEMMA ReleaseShareCasLists ==
  ASSUME IInv, WInv, NEW t \in Thread, ReleaseShareCas(t)
  PROVE  WInv'
  <1>0. WordTypeOK /\ CallInv(t) /\ NeedInv(t)
    BY Zenon, Parts
  <1>1. pc[t] = "relCas" /\ UNCHANGED <<high, waiters, waiting, posted, held, wakeup>>
    BY Zenon DEF ReleaseShareCas
  <1>2. CASE /\ low' = [low EXCEPT !.shared = FALSE] /\ old' = [old EXCEPT ![t] = Free]
             /\ Goto(t, "relRead") /\ UNCHANGED locals
    BY Zenon, <1>1, <1>2, SharedClearedLists
  <1>3. CASE /\ low.disallow /\ low.cnt = 0 /\ low.shared
             /\ old' = [old EXCEPT ![t] = low]
             /\ Goto(t, "relRetry") /\ UNCHANGED <<low, locals>>
    <2>1. old'[t] = low /\ \A u \in Thread \ {t} : old'[u] = old[u]
      BY <1>0, <1>3 DEF WordTypeOK
    <2>2. Goes(t, "relRetry") /\ Others(t) /\ pc'[t] = "relRetry"
      BY Zenon, <1>0, <1>1, <1>3, <2>1, GotoGoes DEF Others, OthersHold, Goes
    <2>3. CallInv(t)' /\ NeedInv(t)' /\ ~need[t] /\ ~need'[t] /\ ~queued[t]
      BY Zenon, <1>0, <1>1, <1>3, <2>1, <2>2, ReleaseCall
    <2>4. SharedEnds'
      BY Zenon, <1>3, <2>1, <2>2 DEF SharedEnds
    <2>5. Wakes'
      BY Zenon, <1>3 DEF Wakes, Locked
    <2> QED
      BY Zenon, <1>1, <1>3, <2>2, <2>3, <2>4, <2>5, ReleaseQuiet
  <1>4. CASE /\ low # old[t] /\ ~(low.disallow /\ low.cnt = 0 /\ low.shared)
             /\ old' = [old EXCEPT ![t] = Free] /\ Return(t) /\ UNCHANGED low
    BY Zenon, <1>1, <1>4, SharedLeftLists
  <1> QED
    BY Zenon, <1>2, <1>3, <1>4 DEF ReleaseShareCas

LEMMA ReleaseShareRetryLists ==
  ASSUME IInv, WInv, NEW t \in Thread, ReleaseShareRetry(t)
  PROVE  WInv'
  BY Zenon, SharedClearedLists, SharedLeftLists DEF ReleaseShareRetry

LEMMA ReleaseShareReadLists ==
  ASSUME IInv, WInv, NEW t \in Thread, ReleaseShareRead(t)
  PROVE  WInv'
  <1>0. WordTypeOK /\ CallInv(t) /\ NeedInv(t) /\ Wakes /\ SharedEnds
    BY Zenon, Parts
  <1>1. pc[t] = "relRead" /\ UNCHANGED <<low, high, waiters, waiting, posted, held, old, wakeup>>
    BY Zenon DEF ReleaseShareRead
  <1>2. CASE CheckWaiters(low, high)
    <2>1. Goes(t, "wkLock") /\ Others(t) /\ pc'[t] = "wkLock"
      BY Zenon, <1>0, <1>1, <1>2, GotoGoes DEF ReleaseShareRead, Others, OthersHold, Goes
    <2>2. CallInv(t)' /\ NeedInv(t)' /\ ~need[t] /\ ~need'[t] /\ ~queued[t]
      BY Zenon, <1>0, <1>1, <2>1, ReleaseCall
    <2>3. SharedEnds'
      BY Zenon, <1>0, <1>1, <2>1, SharedEndsKept
    <2>4. Wakes'
      BY Zenon, <1>0, <1>1, <2>1, WakesKept DEF Rescuer
    <2> QED
      BY Zenon, <1>1, <2>1, <2>2, <2>3, <2>4, ReleaseQuiet
  <1>3. CASE ~CheckWaiters(low, high)
    <2>1. Ends(t) /\ Others(t) /\ pc'[t] = "idle"
      BY Zenon, <1>0, <1>1, <1>3, ReturnEnds DEF ReleaseShareRead, Others, OthersHold, Ends
    <2>2. CallInv(t)' /\ NeedInv(t)' /\ ~need[t] /\ ~need'[t] /\ ~queued[t]
      BY Zenon, <1>0, <1>1, <2>1, ReleaseCall
    <2>3. SharedEnds'
      BY Zenon, <1>0, <1>1, <2>1, SharedEndsKept
    <2>4. Wakes'
      BY Zenon, <1>1, <1>3, <2>1, <2>2, NobodyToWake DEF Summoned
    <2> QED
      BY Zenon, <1>1, <2>1, <2>2, <2>3, <2>4, ReleaseQuiet
  <1> QED
    BY Zenon, <1>2, <1>3


-----------------------------------------------------------------------------
(* Steps on the wait list. *)

\* The list is empty when it links nobody.
LEMMA EmptyRange ==
  ASSUME NEW s \in Seq(Thread)
  PROVE  Range(s) = {} <=> s = <<>>
  <1>1. s = <<>> => Range(s) = {}
    BY DEF Range
  <1>2. s # <<>> => Range(s) # {}
    BY Zenon, Popped
  <1> QED
    BY Zenon, <1>1, <1>2

\* WAIT_LIST_LOCKED is taken while nobody has it, and dropped by the one that has it.
LEMMA ListTaken ==
  ASSUME ListLock, NEW t \in Thread, OthersRun(t), ~high.listLocked, high'.listLocked, pc'[t] \in Listing
  PROVE  ListLock' /\ \A u \in Thread : pc[u] \notin Listing
  <1>1. \A u \in Thread : pc[u] \notin Listing
    BY Zenon DEF ListLock
  <1>2. \A u \in Thread : pc'[u] \in Listing => u = t
    BY Zenon, <1>1 DEF OthersRun
  <1> QED
    BY Zenon, <1>1, <1>2 DEF ListLock

LEMMA ListDropped ==
  ASSUME ListLock, NEW t \in Thread, OthersRun(t), pc[t] \in Listing, ~high'.listLocked, pc'[t] \notin Listing
  PROVE  ListLock' /\ \A u \in Thread : pc'[u] \notin Listing
  <1>1. \A u \in Thread : pc[u] \in Listing => u = t
    BY Zenon DEF ListLock
  <1>2. \A u \in Thread : pc'[u] \notin Listing
    BY Zenon, <1>1 DEF OthersRun
  <1> QED
    BY Zenon, <1>2 DEF ListLock

\* What is left when the lists are known to be right.
LEMMA ListedStep ==
  ASSUME WInv, NEW t \in Thread, Others(t), CallInv(t)', NeedInv(t)',
         \A u \in Thread \ {t} : waiting'[u] => waiting[u],
         ListTypeOK', ListLock', LinkedOnce', Lists', Releases', Wakes',
         low' = low, Owes(t)' <=> Owes(t), pc[t] \notin {"relCas", "relRetry"}
  PROVE  WInv'
  <1>1. Calls'
    BY Zenon, CallsKept DEF WInv
  <1>2. DisallowHasOneOwner'
    BY Zenon, DisallowKept DEF WInv
  <1>3. SharedEnds'
    BY Zenon, SharedEndsKept DEF WInv
  <1> QED
    BY Zenon, <1>1, <1>2, <1>3 DEF WInv

LEMMA QueueSelfMarkLists ==
  ASSUME IInv, WInv, NEW t \in Thread, QueueSelfMark(t)
  PROVE  WInv'
  <1>0. /\ WordTypeOK /\ ListTypeOK /\ CallInv(t) /\ NeedInv(t) /\ Releases /\ Wakes /\ LinkedOnce
        /\ ListLock /\ Lists
    BY Zenon, Parts DEF WInv
  <1>1. /\ pc[t] = "qMark" /\ UNCHANGED <<low, waiters, waiting, posted, held, locals, old, wakeup>>
        /\ ~high.listLocked /\ Goto(t, "qPush")
    BY Zenon DEF QueueSelfMark
  <1>2. high'.listLocked /\ high'.hasWaiters /\ high'.releaseOk = high.releaseOk
    BY Zenon, <1>0 DEF QueueSelfMark, WordTypeOK, High32
  <1>3. Goes(t, "qPush") /\ Others(t) /\ OthersRun(t) /\ pc'[t] = "qPush"
    BY ZenonT(40), <1>0, <1>1, GotoGoes DEF Others, OthersHold, Goes
  <1>4. CallInv(t)' /\ NeedInv(t)'
    BY <1>0, <1>1, <1>3 DEF CallInv, NeedInv, Goes, Waking, Leaving
  <1>5. ListLock' /\ \A u \in Thread : pc[u] \notin Listing
    BY Zenon, <1>0, <1>1, <1>2, <1>3, ListTaken DEF Listing
  <1>6. ListTypeOK'
    BY Zenon, <1>0, <1>1 DEF ListTypeOK
  <1>7. \A u \in Thread :
          /\ pc'[u] # pc[u] => pc[u] = "qMark" /\ pc'[u] = "qPush"
          /\ Taken(u)' = Taken(u)
    BY Zenon, <1>1, <1>3 DEF Others, OthersRun, Taken
  <1>8. waiters' = waiters /\ wakeup' = wakeup /\ waiting' = waiting
    BY Zenon, <1>1
  <1>9. LinkedOnce'
    BY Zenon, <1>0, <1>2, <1>7, <1>8 DEF LinkedOnce
  <1>10. \A u \in Thread : Range(Taken(u)) \subseteq Thread /\ Range(wakeup[u]) \subseteq Thread
    BY Zenon, ListedThreads DEF WInv
  <1>11. Range(waiters) \subseteq Thread
    BY Zenon, ListedThreads DEF WInv
  <1>12. Lists'
    <2>1. \A u \in Range(waiters') : pc'[u] \notin Leaving
      BY Zenon, <1>0, <1>7, <1>8, <1>11 DEF Lists, Leaving
    <2>2. \A u \in Thread : \A v \in Range(Taken(u)') : pc'[v] # "dqFound"
      BY Zenon, <1>0, <1>7, <1>10 DEF Lists
    <2>3. \A u \in Thread : pc'[u] = "wkFlags" => \A v \in Range(wakeup'[u]) : pc'[v] \notin Leaving
      BY Zenon, <1>0, <1>7, <1>8, <1>10 DEF Lists, Leaving
    <2>4. \A u \in Thread : pc'[u] = "wkFlags" /\ wakeup'[u] = <<>> => waiters' = <<>>
      BY Zenon, <1>0, <1>7, <1>8 DEF Lists
    <2>5. QED BY Zenon, <1>2, <2>1, <2>2, <2>3, <2>4 DEF Lists
  <1>13. ~queued[t] /\ held' = held
    BY Zenon, <1>0, <1>1 DEF CallInv
  <1>14. Releases'
    BY Zenon, <1>0, <1>2, <1>3, <1>8, <1>13, ReleasesKept DEF Summoned
  <1>15. Rescuer(t) => Rescuer(t)'
    BY Zenon, <1>1, <1>3, <1>13 DEF Goes, Rescuer, Summoned, Retrying
  <1>16. ~Refused(t)'
    BY <1>3 DEF Refused, Waking
  <1>17. Wakes'
    BY Zenon, <1>0, <1>1, <1>3, <1>15, <1>16, WakesKept
  <1>18. Owes(t)' <=> Owes(t)
    BY Zenon, <1>1, <1>3, <1>13 DEF Owes, XOwner, Dequeueing, Goes
  <1> QED
    BY Zenon, <1>1, <1>3, <1>4, <1>5, <1>6, <1>9, <1>12, <1>14, <1>17, <1>18, ListedStep

\* The node is in no list, so it can be linked.
LEMMA QueueSelfPushLists ==
  ASSUME IInv, WInv, NEW t \in Thread, QueueSelfPush(t)
  PROVE  WInv'
  <1>0. /\ WordTypeOK /\ ListTypeOK /\ CallInv(t) /\ NeedInv(t) /\ Releases /\ Wakes /\ LinkedOnce
        /\ ListLock /\ Lists
    BY Zenon, Parts DEF WInv
  <1>1. pc[t] = "qPush" /\ UNCHANGED <<low, posted, held, op, mode, need, waked, old, wakeup>>
    BY Zenon DEF QueueSelfPush
  <1>2. ~high'.listLocked /\ high'.hasWaiters = high.hasWaiters /\ high'.releaseOk = high.releaseOk
    BY Zenon, <1>0 DEF QueueSelfPush, WordTypeOK, High32
  <1>3. pc'[t] = "attempt" /\ queued'[t] /\ waiting'[t] /\ \A u \in Thread \ {t} : waiting'[u] = waiting[u]
    BY <1>0 DEF QueueSelfPush, Goto, WordTypeOK, ListTypeOK
  <1>4. Others(t) /\ OthersRun(t)
    BY SMTT(20), <1>0 DEF QueueSelfPush, Goto, WordTypeOK, Others, OthersRun, OthersHold
  <1>5. ~queued[t] /\ op[t] \in Queueing /\ ~waiting[t] /\ wakeup[t] = <<>>
    BY Zenon, <1>0, <1>1 DEF CallInv, Waking
  <1>6. /\ t \notin Range(waiters) /\ \A u \in Thread : t \notin Range(Taken(u))
    BY Zenon, <1>0, <1>5 DEF LinkedOnce
  <1>7. /\ waiters' \in Seq(Thread) /\ Range(waiters') = Range(waiters) \cup {t} /\ IsInjective(waiters')
    BY Zenon, <1>0, <1>6, Pushed DEF QueueSelfPush, LinkedOnce, ListTypeOK
  <1>8. ListTypeOK'
    <2>1. waiting' \in [Thread -> BOOLEAN]
      BY SMTT(20), <1>0 DEF QueueSelfPush, ListTypeOK
    <2> QED
      BY Zenon, <1>0, <1>1, <1>7, <2>1 DEF ListTypeOK
  <1>9. CallInv(t)'
    BY <1>0, <1>1, <1>3, <1>5 DEF CallInv, Waking, Leaving, Attempting
  <1>10. NeedInv(t)'
    BY Zenon, <1>0, <1>1, <1>3 DEF NeedInv
  <1>11. ListLock' /\ \A u \in Thread : pc'[u] \notin Listing
    BY Zenon, <1>0, <1>1, <1>2, <1>3, <1>4, ListDropped DEF Listing
  <1>12. \A u \in Thread :
          /\ pc'[u] # pc[u] => pc[u] = "qPush" /\ pc'[u] = "attempt"
          /\ Taken(u)' = Taken(u)
    BY Zenon, <1>1, <1>3, <1>4 DEF OthersRun, Taken
  <1>13. high.hasWaiters
    BY Zenon, <1>0, <1>1 DEF Lists
  <1>14. \A u \in Thread : Range(Taken(u)) \subseteq Thread /\ Range(waiters) \subseteq Thread
    BY Zenon, ListedThreads DEF WInv
  <1>15. LinkedOnce'
    <2>1. \A u \in Thread : IsInjective(Taken(u)') /\ Range(Taken(u)') \cap Range(waiters') = {}
      BY Zenon, <1>0, <1>6, <1>7, <1>12 DEF LinkedOnce
    <2>2. \A u \in Range(waiters') : waiting'[u]
      BY Zenon, <1>0, <1>3, <1>7, <1>14 DEF LinkedOnce
    <2>3. \A u \in Thread : \A v \in Range(Taken(u)') : waiting'[v]
      BY Zenon, <1>0, <1>3, <1>12, <1>14 DEF LinkedOnce
    <2>6. \A u, v \in Thread : u # v => Range(Taken(u)') \cap Range(Taken(v)') = {}
      BY Zenon, <1>0, <1>12 DEF LinkedOnce
    <2>4. \A u \in Thread : pc'[u] \in {"qMark", "qPush"} => ~waiting'[u]
      BY Zenon, <1>0, <1>3, <1>4 DEF LinkedOnce, OthersRun
    <2>5. high'.hasWaiters
      BY Zenon, <1>2, <1>13
    <2> QED
      BY Zenon, <1>7, <2>1, <2>2, <2>3, <2>4, <2>5, <2>6 DEF LinkedOnce
  <1>16. Lists'
    <2>1. \A u \in Range(waiters') : pc'[u] \notin Leaving
      BY Zenon, <1>0, <1>3, <1>7, <1>12, <1>14 DEF Lists, Leaving
    <2>2. \A u \in Thread : pc'[u] # "wkFlags" /\ pc'[u] # "qPush"
      BY Zenon, <1>11 DEF Listing
    <2>3. \A u \in Thread : \A v \in Range(Taken(u)) : pc'[v] # "dqFound"
      BY Zenon, <1>0, <1>12, <1>14 DEF Lists
    <2> QED
      BY Zenon, <1>12, <2>1, <2>2, <2>3 DEF Lists
  <1>17. Releases'
    BY Zenon, <1>0, <1>2, <1>4, <1>5, <1>7, ReleasesKept DEF Summoned
  <1>18. Rescuer(t) => Rescuer(t)'
    BY Zenon, <1>1, <1>3, <1>5 DEF Rescuer, Summoned, Retrying
  <1>19. ~Refused(t)'
    BY <1>3 DEF Refused, Waking
  <1>20. Wakes'
    BY Zenon, <1>0, <1>1, <1>4, <1>7, <1>18, <1>19, WakesKept
  <1>21. Owes(t)' <=> Owes(t)
    BY Zenon, <1>1, <1>3 DEF Owes, XOwner, Dequeueing
  <1>22. \A u \in Thread \ {t} : waiting'[u] => waiting[u]
    BY Zenon, <1>3
  <1> QED
    BY Zenon, <1>1, <1>4, <1>8, <1>9, <1>10, <1>11, <1>15, <1>16, <1>17, <1>20, <1>21, <1>22, ListedStep


\* The thread unlinks itself, if nobody has done so.
LEMMA DequeueSelfLockLists ==
  ASSUME IInv, WInv, LeastLaw, NEW t \in Thread, DequeueSelfLock(t)
  PROVE  WInv'
  <1>0. /\ WordTypeOK /\ ListTypeOK /\ CallInv(t) /\ NeedInv(t) /\ Releases /\ Wakes /\ LinkedOnce
        /\ ListLock /\ Lists
    BY Zenon, Parts DEF WInv
  <1> DEFINE l == IF t \in Range(waiters) THEN "dqFound" ELSE "dqLost"
  <1>1. /\ pc[t] = "dqLock" /\ UNCHANGED <<low, waiting, posted, held, locals, old, wakeup>>
        /\ ~high.listLocked /\ Goto(t, l) /\ waiters' = Keep(waiters, Thread \ {t})
    BY Zenon DEF DequeueSelfLock
  <1>2. high'.listLocked /\ high'.hasWaiters = high.hasWaiters /\ high'.releaseOk = high.releaseOk
    BY Zenon, <1>0 DEF DequeueSelfLock, WordTypeOK, High32
  <1>3. l \in {"dqFound", "dqLost"} /\ (l = "dqFound" <=> t \in Range(waiters))
    OBVIOUS
  <1> HIDE DEF l
  <1>4. Goes(t, l) /\ Others(t) /\ OthersRun(t) /\ pc'[t] = l
    BY ZenonT(40), <1>0, <1>1, GotoGoes DEF Others, OthersHold, Goes
  <1>5. CallInv(t)' /\ NeedInv(t)'
    BY Zenon, <1>0, <1>1, <1>3, <1>4 DEF CallInv, NeedInv, Goes, Waking, Leaving
  <1>6. ListLock' /\ \A u \in Thread : pc[u] \notin Listing
    BY Zenon, <1>0, <1>1, <1>2, <1>3, <1>4, ListTaken DEF Listing
  <1>7. waiters' \in Seq(Thread) /\ Range(waiters') = Range(waiters) \cap (Thread \ {t}) /\ IsInjective(waiters')
    BY Zenon, <1>0, <1>1, Kept DEF ListTypeOK, LinkedOnce
  <1>8. ListTypeOK'
    BY Zenon, <1>0, <1>1, <1>7 DEF ListTypeOK
  <1>9. \A u \in Thread : Taken(u)' = Taken(u) /\ Range(Taken(u)) \subseteq Thread /\ Range(waiters) \subseteq Thread
    BY Zenon, <1>1, <1>3, <1>4, ListedThreads DEF OthersRun, Taken, WInv
  <1>10. waiters' # <<>> => waiters # <<>>
    BY Zenon, <1>0, <1>7, EmptyRange DEF ListTypeOK
  <1>11. waiting' = waiting /\ wakeup' = wakeup /\ held' = held /\ low' = low
    BY Zenon, <1>1
  <1>12. \A u \in Thread : pc'[u] # "wkFlags" /\ pc'[u] # "qPush"
    BY Zenon, <1>3, <1>4, <1>6 DEF Listing, OthersRun
  <1>13. LinkedOnce'
    <2>1. \A u \in Thread : IsInjective(Taken(u)') /\ Range(Taken(u)') \cap Range(waiters') = {}
      <3>1. Range(waiters') \subseteq Range(waiters)
        BY Zenon, <1>7
      <3>2. \A u \in Thread : IsInjective(Taken(u)) /\ Range(Taken(u)) \cap Range(waiters) = {}
        BY Zenon, <1>0 DEF LinkedOnce
      <3>3. \A u \in Thread : Range(Taken(u)) \cap Range(waiters') = {}
        BY Zenon, <3>1, <3>2
      <3> QED
        BY Zenon, <1>9, <3>2, <3>3
    <2>2. \A u \in Range(waiters') : waiting'[u]
      BY Zenon, <1>0, <1>7, <1>11 DEF LinkedOnce
    <2>3. \A u \in Thread : \A v \in Range(Taken(u)') : waiting'[v]
      BY Zenon, <1>0, <1>9, <1>11 DEF LinkedOnce
    <2>4. \A u \in Thread : pc'[u] \in {"qMark", "qPush"} => ~waiting'[u]
      BY Zenon, <1>0, <1>3, <1>4, <1>11 DEF LinkedOnce, OthersRun
    <2>5. \A u, v \in Thread : u # v => Range(Taken(u)') \cap Range(Taken(v)') = {}
      BY Zenon, <1>0, <1>9 DEF LinkedOnce
    <2>6. waiters' # <<>> => high'.hasWaiters
      BY Zenon, <1>0, <1>2, <1>10 DEF LinkedOnce
    <2> QED
      BY Zenon, <1>7, <1>12, <2>1, <2>2, <2>3, <2>4, <2>5, <2>6 DEF LinkedOnce
  <1>14. Lists'
    <2>1. \A u \in Range(waiters') : pc'[u] \notin Leaving
      BY Zenon, <1>0, <1>4, <1>7 DEF Lists, OthersRun
    <2>2. \A u \in Thread : \A v \in Range(Taken(u)') : pc'[v] # "dqFound"
      <3> SUFFICES ASSUME NEW u \in Thread, NEW v \in Range(Taken(u)) PROVE pc'[v] # "dqFound"
        BY Zenon, <1>9
      <3>1. CASE v = t
        BY Zenon, <1>0, <1>3, <1>4, <3>1 DEF LinkedOnce
      <3>2. CASE v # t
        BY Zenon, <1>0, <1>4, <1>9, <3>2 DEF Lists, OthersRun
      <3> QED
        BY Zenon, <3>1, <3>2
    <2> QED
      BY Zenon, <1>12, <2>1, <2>2 DEF Lists
  <1>15. Summoned(t) => Summoned(t)'
    BY Zenon, <1>3, <1>4, <1>7 DEF Summoned, Goes
  <1>16. Releases'
    BY Zenon, <1>0, <1>2, <1>4, <1>7, <1>15, ReleasesKept
  <1>17. Locked(low')
    BY Zenon, <1>1, <1>11, DequeueingOwns DEF Dequeueing
  <1>18. Wakes'
    BY Zenon, <1>17 DEF Wakes
  <1>19. Owes(t)' <=> Owes(t)
    BY Zenon, <1>1, <1>3, <1>4, <1>11 DEF Owes, XOwner, Dequeueing, Goes
  <1> QED
    BY Zenon, <1>1, <1>4, <1>5, <1>6, <1>8, <1>11, <1>13, <1>14, <1>16, <1>18, <1>19, ListedStep

\* The list is unlocked again, and HAS_WAITERS falls with the last waiter.
LEMMA DequeueSelfUnlockLists ==
  ASSUME IInv, WInv, NEW t \in Thread, DequeueSelfUnlock(t)
  PROVE  WInv'
  <1>0. /\ WordTypeOK /\ ListTypeOK /\ CallInv(t) /\ NeedInv(t) /\ Releases /\ Wakes /\ LinkedOnce
        /\ ListLock /\ Lists
    BY Zenon, Parts DEF WInv
  <1>1. pc[t] \in {"dqFound", "dqLost"} /\ UNCHANGED <<low, waiters, posted, old, wakeup>>
    BY Zenon DEF DequeueSelfUnlock
  <1>2. /\ ~high'.listLocked /\ high'.releaseOk = high.releaseOk
        /\ high'.hasWaiters <=> high.hasWaiters /\ waiters # <<>>
    <2> DEFINE b == waiters # <<>>
    <2>1. high' = [high EXCEPT !.listLocked = FALSE, !.hasWaiters = @ /\ b]
      BY Zenon DEF DequeueSelfUnlock
    <2>2. b \in BOOLEAN
      OBVIOUS
    <2> HIDE DEF b
    <2>3. /\ ~high'.listLocked /\ high'.releaseOk = high.releaseOk
          /\ high'.hasWaiters <=> high.hasWaiters /\ b
      BY <1>0, <2>1, <2>2 DEF WordTypeOK, High32
    <2> QED
      BY Zenon, <2>3 DEF b
  <1>3. /\ OthersRun(t) /\ \A u \in Thread \ {t} : held'[u] = held[u]
        /\ \/ pc[t] = "dqFound" /\ Ends(t) /\ waiting' = [waiting EXCEPT ![t] = FALSE]
           \/ pc[t] = "dqLost" /\ Goes(t, "dqReleaseOk") /\ waiting' = waiting /\ held' = held
    <2>1. CASE pc[t] = "dqFound"
      <3> DEFINE m == mode[t]
      <3>1. waiting' = [waiting EXCEPT ![t] = FALSE] /\ ReturnHolding(t, m)
        BY Zenon, <2>1 DEF DequeueSelfUnlock
      <3> HIDE DEF m
      <3>2. Ends(t) /\ Others(t)
        BY Zenon, <1>0, <1>1, <3>1, ReturnHoldingEnds
      <3> QED
        BY Zenon, <2>1, <3>1, <3>2 DEF Others, OthersHold
    <2>2. CASE pc[t] # "dqFound"
      BY Zenon, <1>0, <1>1, <2>2, GotoGoes DEF DequeueSelfUnlock
    <2> QED
      BY Zenon, <2>1, <2>2
  <1>4. Others(t)
    BY ZenonT(40), <1>1, <1>3 DEF Others, OthersHold
  <1>5. pc'[t] \in {"idle", "dqReleaseOk"} /\ wakeup[t] = <<>>
    BY Zenon, <1>0, <1>1, <1>3 DEF Ends, Goes, CallInv, Waking
  <1>6. /\ pc[t] = "dqFound" => ~waiting'[t]
        /\ \A u \in Thread \ {t} : waiting'[u] = waiting[u]
        /\ waiting' \in [Thread -> BOOLEAN]
        /\ pc[t] # "dqFound" => waiting' = waiting
    BY Zenon, <1>0, <1>3 DEF ListTypeOK
  <1>7. CallInv(t)' /\ NeedInv(t)'
    <2>1. CASE pc[t] = "dqFound" /\ Ends(t)
      BY ZenonT(40), <1>1, <1>5, <1>6, <2>1, EndedCall
    <2>2. CASE pc[t] = "dqLost" /\ Goes(t, "dqReleaseOk") /\ waiting' = waiting
      BY Zenon, <1>0, <1>1, <2>2 DEF CallInv, NeedInv, Goes, Waking, Leaving
    <2> QED
      BY Zenon, <1>3, <2>1, <2>2
  <1>8. ListLock' /\ \A u \in Thread : pc'[u] \notin Listing
    BY Zenon, <1>0, <1>1, <1>2, <1>3, <1>5, ListDropped DEF Listing
  <1>9. \A u \in Thread : Taken(u)' = Taken(u) /\ Range(Taken(u)) \subseteq Thread /\ Range(waiters) \subseteq Thread
    BY Zenon, <1>1, <1>3, <1>5, ListedThreads DEF OthersRun, Taken, WInv
  <1>10. waiters' = waiters /\ low' = low
    BY Zenon, <1>1
  <1>11. ListTypeOK'
    BY Zenon, <1>0, <1>1, <1>6 DEF ListTypeOK
  <1>12. t \notin Range(waiters) /\ (pc[t] = "dqFound" => \A u \in Thread : t \notin Range(Taken(u)))
    BY <1>0, <1>1 DEF Lists, Leaving
  <1>13. \A u \in Thread : pc'[u] # "wkFlags" /\ pc'[u] # "qPush"
    BY Zenon, <1>8 DEF Listing
  <1>14. LinkedOnce'
    <2>1. \A u \in Thread : IsInjective(Taken(u)') /\ Range(Taken(u)') \cap Range(waiters') = {}
      BY Zenon, <1>0, <1>9, <1>10 DEF LinkedOnce
    <2>2. \A u \in Range(waiters') : waiting'[u]
      BY Zenon, <1>0, <1>6, <1>9, <1>10, <1>12 DEF LinkedOnce
    <2>3. \A u \in Thread : \A v \in Range(Taken(u)') : waiting'[v]
      BY Zenon, <1>0, <1>6, <1>9, <1>12 DEF LinkedOnce
    <2>4. \A u \in Thread : pc'[u] \in {"qMark", "qPush"} => ~waiting'[u]
      BY Zenon, <1>0, <1>3, <1>5, <1>6 DEF LinkedOnce, OthersRun
    <2>5. \A u, v \in Thread : u # v => Range(Taken(u)') \cap Range(Taken(v)') = {}
      BY Zenon, <1>0, <1>9 DEF LinkedOnce
    <2>6. waiters' # <<>> => high'.hasWaiters
      BY Zenon, <1>0, <1>2, <1>10 DEF LinkedOnce
    <2>7. IsInjective(waiters')
      BY Zenon, <1>0, <1>10 DEF LinkedOnce
    <2> QED
      BY Zenon, <1>13, <2>1, <2>2, <2>3, <2>4, <2>5, <2>6, <2>7 DEF LinkedOnce
  <1>15. Lists'
    <2>1. \A u \in Range(waiters') : pc'[u] \notin Leaving
      BY Zenon, <1>0, <1>3, <1>9, <1>10, <1>12 DEF Lists, OthersRun
    <2>2. \A u \in Thread : \A v \in Range(Taken(u)') : pc'[v] # "dqFound"
      <3>1. pc'[t] # "dqFound"
        BY <1>5
      <3>2. \A v \in Thread \ {t} : pc'[v] = pc[v]
        BY Zenon, <1>3 DEF OthersRun
      <3>3. \A u \in Thread : \A v \in Range(Taken(u)) : v \in Thread /\ pc[v] # "dqFound"
        BY Zenon, <1>0, <1>9 DEF Lists
      <3> QED
        BY Zenon, <1>9, <3>1, <3>2, <3>3
    <2> QED
      BY Zenon, <1>13, <2>1, <2>2 DEF Lists
  <1>16. Summoned(t) => Summoned(t)'
    BY Zenon, <1>3, <1>10 DEF Summoned, Goes
  <1>17. Releases'
    BY Zenon, <1>0, <1>2, <1>4, <1>10, <1>16, ReleasesKept
  <1>18. Locked(low')
    BY Zenon, <1>1, <1>10, DequeueingOwns DEF Dequeueing
  <1>19. Wakes'
    BY Zenon, <1>18 DEF Wakes
  <1>20. Owes(t)' <=> Owes(t)
    <2>1. ~Owes(t)
      BY Zenon, <1>0, <1>1 DEF Owes, NeedInv, XOwner, Dequeueing
    <2>2. ~Owes(t)'
      BY Zenon, <1>0, <1>1, <1>3 DEF Owes, NeedInv, XOwner, Dequeueing, Ends, Goes
    <2> QED
      BY Zenon, <2>1, <2>2
  <1>21. \A u \in Thread \ {t} : waiting'[u] => waiting[u]
    BY Zenon, <1>6
  <1> QED
    BY Zenon, <1>1, <1>4, <1>7, <1>8, <1>10, <1>11, <1>14, <1>15, <1>17, <1>19, <1>20, <1>21, ListedStep


\* A waiter of the lock itself that is taken off the list is summoned.
LEMMA TakenSummoned ==
  ASSUME WInv, NEW w \in Thread, waiting[w], WaiterMode(w) # "LW_WAIT_UNTIL_FREE"
  PROVE  queued[w] /\ op[w] = "LWLockAcquire"
  BY Zenon DEF WInv, Calls, CallInv, Queueing, WaiterMode

\* The wakeup takes nodes over into its private list.
LEMMA WakeupCollectLists ==
  ASSUME IInv, WInv, LeastLaw, NEW t \in Thread, WakeupCollect(t)
  PROVE  WInv'
  <1>0. /\ WordTypeOK /\ ListTypeOK /\ CallInv(t) /\ NeedInv(t) /\ Releases /\ Wakes /\ LinkedOnce
        /\ ListLock /\ Lists
    BY Zenon, Parts DEF WInv
  <1> DEFINE W == ToWake(waiters)
  <1>1. /\ pc[t] = "wkLock" /\ UNCHANGED <<low, waiting, posted, held, locals, old>>
        /\ ~high.listLocked /\ Goto(t, "wkFlags")
        /\ wakeup' = [wakeup EXCEPT ![t] = Keep(waiters, W)] /\ waiters' = Keep(waiters, Thread \ W)
    BY Zenon DEF WakeupCollect
  <1>2. high'.listLocked /\ high'.hasWaiters = high.hasWaiters /\ high'.releaseOk = high.releaseOk
    BY Zenon, <1>0 DEF WakeupCollect, WordTypeOK, High32
  <1>3. /\ W \subseteq Range(waiters) /\ (waiters # <<>> => W # {})
        /\ (\E w \in W : WaiterMode(w) # "LW_WAIT_UNTIL_FREE") \/ W = Range(waiters)
    BY Zenon, <1>0, WakesSomebody DEF ListTypeOK
  <1> HIDE DEF W
  <1>4. /\ Keep(waiters, W) \in Seq(Thread) /\ Range(Keep(waiters, W)) = W /\ IsInjective(Keep(waiters, W))
        /\ waiters' \in Seq(Thread) /\ IsInjective(waiters')
        /\ Range(waiters') = Range(waiters) \cap (Thread \ W)
    <2>1. waiters \in Seq(Thread) /\ IsInjective(waiters)
      BY Zenon, <1>0 DEF ListTypeOK, LinkedOnce
    <2>2. /\ Keep(waiters, W) \in Seq(Thread) /\ Range(Keep(waiters, W)) = Range(waiters) \cap W
          /\ IsInjective(Keep(waiters, W))
      BY Zenon, <2>1, Kept
    <2>3. Range(waiters) \cap W = W
      BY Zenon, <1>3
    <2>4. /\ waiters' \in Seq(Thread) /\ IsInjective(waiters')
          /\ Range(waiters') = Range(waiters) \cap (Thread \ W)
      BY Zenon, <1>1, <2>1, Kept
    <2> QED
      BY Zenon, <2>2, <2>3, <2>4
  <1>5. wakeup'[t] = Keep(waiters, W) /\ (\A u \in Thread \ {t} : wakeup'[u] = wakeup[u])
        /\ wakeup' \in [Thread -> Seq(Thread)]
    BY <1>0, <1>1, <1>4 DEF ListTypeOK
  <1>6. Goes(t, "wkFlags") /\ Others(t) /\ OthersRun(t) /\ pc'[t] = "wkFlags"
    BY ZenonT(40), <1>0, <1>1, <1>5, GotoGoes DEF Others, OthersHold, Goes
  <1>7. CallInv(t)' /\ NeedInv(t)' /\ ~need[t] /\ ~need'[t]
    BY Zenon, <1>0, <1>1, <1>6 DEF CallInv, NeedInv, Goes, Waking, Leaving
  <1>8. ListLock' /\ \A u \in Thread : pc[u] \notin Listing
    BY Zenon, <1>0, <1>1, <1>2, <1>6, ListTaken DEF Listing
  <1>9. waiting' = waiting /\ low' = low /\ posted' = posted
    BY Zenon, <1>1
  <1>10. ListTypeOK'
    BY Zenon, <1>0, <1>4, <1>5, <1>9 DEF ListTypeOK
  <1>11. /\ Range(waiters) \subseteq Thread
         /\ \A u \in Thread : Range(Taken(u)) \subseteq Thread
    BY Zenon, ListedThreads DEF WInv
  <1>12. /\ Taken(t)' = Keep(waiters, W) /\ Range(Taken(t)') = W
         /\ \A u \in Thread \ {t} : Taken(u)' = Taken(u)
    BY Zenon, <1>4, <1>5, <1>6 DEF OthersRun, Taken
  <1>13. \A u \in Thread \ {t} : pc'[u] # "wkFlags" /\ pc'[u] # "qPush"
    BY Zenon, <1>6, <1>8 DEF Listing, OthersRun
  <1>14. Range(waiters') \subseteq Range(waiters) /\ Range(waiters') \cap W = {}
    BY Zenon, <1>4
  <1>15. waiters' # <<>> \/ Keep(waiters, W) # <<>> => waiters # <<>>
    BY Zenon, <1>0, <1>3, <1>4, <1>14, EmptyRange DEF ListTypeOK
  <1>16. LinkedOnce'
    <2>0. \A u \in Thread : IsInjective(Taken(u)) /\ Range(Taken(u)) \cap Range(waiters) = {}
      BY Zenon, <1>0 DEF LinkedOnce
    <2>1. \A u \in Thread : IsInjective(Taken(u)')
      BY Zenon, <1>4, <1>12, <2>0
    <2>2. \A u \in Thread : Range(Taken(u)') \cap Range(waiters') = {}
      BY Zenon, <1>12, <1>14, <2>0
    <2>3. \A u \in Range(waiters') : waiting'[u]
      BY Zenon, <1>0, <1>9, <1>14 DEF LinkedOnce
    <2>4. \A u \in Thread : \A v \in Range(Taken(u)') : waiting'[v]
      BY Zenon, <1>0, <1>3, <1>9, <1>12 DEF LinkedOnce
    <2>5. \A u \in Thread : pc'[u] \in {"qMark", "qPush"} => ~waiting'[u]
      BY Zenon, <1>0, <1>6, <1>9 DEF LinkedOnce, OthersRun
    <2>6. \A u, v \in Thread : u # v => Range(Taken(u)') \cap Range(Taken(v)') = {}
      <3> SUFFICES ASSUME NEW u \in Thread, NEW v \in Thread, u # v
                   PROVE  Range(Taken(u)') \cap Range(Taken(v)') = {}
        BY Zenon
      <3>1. CASE u = t
        <4>1. Range(Taken(u)') = W /\ Range(Taken(v)') = Range(Taken(v))
          BY Zenon, <1>12, <3>1
        <4>2. Range(Taken(v)) \cap Range(waiters) = {}
          BY Zenon, <2>0
        <4> QED
          BY Zenon, <1>3, <4>1, <4>2
      <3>2. CASE v = t
        <4>1. Range(Taken(v)') = W /\ Range(Taken(u)') = Range(Taken(u))
          BY Zenon, <1>12, <3>2
        <4>2. Range(Taken(u)) \cap Range(waiters) = {}
          BY Zenon, <2>0
        <4> QED
          BY Zenon, <1>3, <4>1, <4>2
      <3>3. CASE u # t /\ v # t
        BY Zenon, <1>0, <1>12, <3>3 DEF LinkedOnce
      <3> QED
        BY Zenon, <3>1, <3>2, <3>3
    <2>7. waiters # <<>> => high'.hasWaiters
      BY Zenon, <1>0, <1>2 DEF LinkedOnce
    <2>8. waiters' # <<>> \/ (\E u \in Thread : pc'[u] = "wkFlags" /\ wakeup'[u] # <<>>) => high'.hasWaiters
      BY ZenonT(40), <1>5, <1>13, <1>15, <2>7
    <2> QED
      BY Zenon, <1>4, <2>1, <2>2, <2>3, <2>4, <2>5, <2>6, <2>8 DEF LinkedOnce
  <1>17. \A u \in Range(waiters) : u \in Thread /\ pc'[u] \notin Leaving
    BY Zenon, <1>0, <1>6, <1>11 DEF Lists, OthersRun, Leaving
  <1>18. Lists'
    <2>1. \A u \in Range(waiters') : pc'[u] \notin Leaving
      BY Zenon, <1>14, <1>17
    <2>2. \A u \in Thread : \A v \in Range(Taken(u)') : pc'[v] # "dqFound"
      <3>1. \A v \in W : pc'[v] # "dqFound"
        BY Zenon, <1>3, <1>17 DEF Leaving
      <3>2. \A u \in Thread \ {t} : \A v \in Range(Taken(u)) : pc'[v] # "dqFound"
        BY ZenonT(40), <1>0, <1>6, <1>11 DEF Lists, OthersRun
      <3> QED
        BY Zenon, <1>12, <3>1, <3>2
    <2>3. \A u \in Thread : pc'[u] = "wkFlags" => \A v \in Range(wakeup'[u]) : pc'[v] \notin Leaving
      BY Zenon, <1>3, <1>4, <1>5, <1>13, <1>17
    <2>4. \A u \in Thread : pc'[u] = "wkFlags" /\ wakeup'[u] = <<>> => waiters' = <<>>
      <3>1. Keep(waiters, W) = <<>> => waiters' = <<>>
        BY Zenon, <1>3, <1>4, <1>15, EmptyRange
      <3> QED
        BY Zenon, <1>5, <1>13, <3>1
    <2>5. \A u \in Thread : pc'[u] # "qPush"
      BY Zenon, <1>6, <1>13
    <2> QED
      BY Zenon, <2>1, <2>2, <2>3, <2>4, <2>5 DEF Lists
  <1>19. Summoned(t) => Summoned(t)'
    BY Zenon, <1>6, <1>14 DEF Summoned, Goes
  <1>20. Releases'
    BY Zenon, <1>0, <1>2, <1>6, <1>14, <1>19, ReleasesKept
  <1>21. Wakes'
    <2>1. SUFFICES ASSUME NEW v \in Range(waiters') PROVE \E w \in Thread : Rescuer(w)'
      BY Zenon DEF Wakes, Refused
    <2>2. W # Range(waiters)
      BY Zenon, <1>14, <2>1
    <2>3. PICK w \in W : WaiterMode(w) # "LW_WAIT_UNTIL_FREE"
      BY Zenon, <1>3, <2>2
    <2>4. w \in Range(waiters) /\ w \in Thread /\ waiting[w] /\ w \notin Range(waiters') /\ pc'[w] \notin Leaving
      BY Zenon, <1>0, <1>3, <1>14, <1>17 DEF LinkedOnce
    <2>5. queued[w] /\ op[w] = "LWLockAcquire"
      BY Zenon, <2>3, <2>4, TakenSummoned
    <2>6. queued'[w] /\ op'[w] = "LWLockAcquire"
      BY Zenon, <1>6, <2>4, <2>5 DEF OthersRun, Goes
    <2>7. Summoned(w)'
      BY Zenon, <2>4, <2>6 DEF Summoned, Leaving
    <2> QED
      BY Zenon, <2>4, <2>7 DEF Rescuer
  <1>22. Owes(t)' <=> Owes(t)
    BY Zenon, <1>7 DEF Owes
  <1>23. \A u \in Thread \ {t} : waiting'[u] => waiting[u]
    BY Zenon, <1>9
  <1> QED
    BY Zenon, <1>1, <1>6, <1>7, <1>8, <1>9, <1>10, <1>16, <1>18, <1>20, <1>21, <1>22, <1>23, ListedStep


\* The wakeup returns to its release, or to its failed attempt.
LEMMA WakeupDoneCall ==
  ASSUME WordTypeOK, NEW t \in Thread, CallInv(t), NeedInv(t), WakeupDone(t), pc[t] \in Waking,
         held[t] = None, waiting' = waiting, waiters' = waiters, wakeup'[t] = <<>>
  PROVE  /\ OthersRun(t) /\ held' = held
         /\ CallInv(t)' /\ NeedInv(t)' /\ pc'[t] \in {"idle", "sleep", "qMark"}
         /\ Owes(t)' <=> Owes(t)
         /\ Summoned(t) => Summoned(t)'
         /\ Refused(t)' => Refused(t)
  <1>1. CASE op[t] = "LWLockRelease"
    <2>1. Ends(t) /\ OthersRun(t) /\ held' = held
      BY ZenonT(40), <1>1, ReturnEnds DEF WakeupDone
    <2>2. ~queued[t] /\ ~waiting[t] /\ ~need[t] /\ ~waked[t]
      BY <1>1 DEF CallInv, NeedInv, Queueing
    <2>3. CallInv(t)' /\ NeedInv(t)'
      BY Zenon, <2>1, <2>2, EndedCall
    <2> QED
      BY <2>1, <2>2, <2>3 DEF Ends, Owes, Summoned, Refused, Waking
  <1>2. CASE op[t] # "LWLockRelease"
    <2>1. op[t] \in Attempting /\ MustWait(t)
      BY Zenon, <1>2 DEF CallInv, WakeupDone
    <2>2. OthersRun(t) /\ held' = held
      BY Zenon, <2>1, MustWaitGoes
    <2>3. /\ CallInv(t)' /\ NeedInv(t)' /\ pc'[t] \in {"idle", "sleep", "qMark"}
          /\ Owes(t)' <=> Owes(t)
          /\ Summoned(t) => Summoned(t)'
          /\ Refused(t)' => pc'[t] = "sleep" /\ t \in Range(waiters)
      BY Zenon, <2>1, MustWaitCall
    <2> QED
      BY Zenon, <2>2, <2>3 DEF Refused
  <1> QED
    BY Zenon, <1>1, <1>2

\* The list is unlocked, and RELEASE_OK falls only if a summoned thread sets it again.
LEMMA WakeupFlagsLists ==
  ASSUME IInv, WInv, NEW t \in Thread, WakeupFlags(t)
  PROVE  WInv'
  <1>0. /\ WordTypeOK /\ ListTypeOK /\ CallInv(t) /\ NeedInv(t) /\ Releases /\ Wakes /\ LinkedOnce
        /\ ListLock /\ Lists /\ held[t] = None
    BY Zenon, Parts DEF WInv, WakeupFlags
  <1>1. pc[t] = "wkFlags" /\ UNCHANGED <<low, waiters, waiting, posted, old, wakeup>>
    BY Zenon DEF WakeupFlags
  <1>2. /\ ~high'.listLocked
        /\ high'.hasWaiters <=> high.hasWaiters /\ wakeup[t] # <<>>
        /\ high'.releaseOk <=> \A w \in Range(wakeup[t]) : WaiterMode(w) = "LW_WAIT_UNTIL_FREE"
    BY Zenon DEF WakeupFlags
  <1>3. waiters' = waiters /\ waiting' = waiting /\ wakeup' = wakeup /\ low' = low
    BY Zenon, <1>1
  <1>4. /\ OthersRun(t) /\ held' = held
        /\ CallInv(t)' /\ NeedInv(t)'
        /\ wakeup[t] = <<>> => pc'[t] \in {"idle", "sleep", "qMark"}
        /\ wakeup[t] # <<>> => Goes(t, "wkStop")
        /\ Owes(t)' <=> Owes(t)
        /\ Summoned(t) => Summoned(t)'
        /\ Refused(t)' => Refused(t)
    <2>1. CASE wakeup[t] = <<>>
      <3>1. WakeupDone(t)
        BY Zenon, <2>1 DEF WakeupFlags
      <3> QED
        BY Zenon, <1>0, <1>1, <1>3, <2>1, <3>1, WakeupDoneCall DEF Waking
    <2>2. CASE wakeup[t] # <<>>
      <3>1. Goes(t, "wkStop") /\ OthersRun(t) /\ held' = held
        BY ZenonT(40), <1>0, <2>2, GotoGoes DEF WakeupFlags
      <3>2. CallInv(t)'
        BY Zenon, <1>0, <1>1, <1>3, <2>2, <3>1 DEF CallInv, Goes, Waking, Leaving
      <3>3. NeedInv(t)' /\ ~need[t] /\ ~need'[t]
        BY Zenon, <1>0, <1>1, <3>1 DEF NeedInv, Goes, Leaving
      <3> QED
        BY Zenon, <1>1, <1>3, <2>2, <3>1, <3>2, <3>3 DEF Goes, Owes, Summoned, Refused, Waking
    <2> QED
      BY Zenon, <2>1, <2>2
  <1>5. Others(t) /\ pc'[t] \in {"idle", "sleep", "qMark", "wkStop"}
    BY Zenon, <1>1, <1>4 DEF Others, OthersHold, Goes
  <1>6. ListLock' /\ \A u \in Thread : pc'[u] \notin Listing
    BY Zenon, <1>0, <1>1, <1>2, <1>4, <1>5, ListDropped DEF Listing
  <1>7. ListTypeOK'
    BY Zenon, <1>0, <1>1 DEF ListTypeOK
  <1>8. \A u \in Thread : Taken(u)' = Taken(u) /\ Range(Taken(u)) \subseteq Thread /\ Range(waiters) \subseteq Thread
    BY Zenon, <1>1, <1>3, <1>4, <1>5, ListedThreads DEF OthersRun, Taken, WInv
  <1>9. \A u \in Thread : pc'[u] # "wkFlags" /\ pc'[u] # "qPush"
    BY Zenon, <1>6 DEF Listing
  <1>10. LinkedOnce'
    <2>1. \A u \in Thread : IsInjective(Taken(u)') /\ Range(Taken(u)') \cap Range(waiters') = {}
      BY Zenon, <1>0, <1>3, <1>8 DEF LinkedOnce
    <2>2. \A u \in Range(waiters') : waiting'[u]
      BY Zenon, <1>0, <1>3 DEF LinkedOnce
    <2>3. \A u \in Thread : \A v \in Range(Taken(u)') : waiting'[v]
      BY Zenon, <1>0, <1>3, <1>8 DEF LinkedOnce
    <2>4. \A u \in Thread : pc'[u] \in {"qMark", "qPush"} => ~waiting'[u]
      <3>1. pc'[t] \in {"qMark", "qPush"} => ~waiting'[t]
        BY Zenon, <1>4 DEF CallInv
      <3> QED
        BY Zenon, <1>0, <1>3, <1>4, <3>1 DEF LinkedOnce, OthersRun
    <2>5. \A u, v \in Thread : u # v => Range(Taken(u)') \cap Range(Taken(v)') = {}
      BY Zenon, <1>0, <1>8 DEF LinkedOnce
    <2>6. waiters' # <<>> => high'.hasWaiters
      BY Zenon, <1>0, <1>1, <1>2, <1>3 DEF LinkedOnce, Lists
    <2>7. IsInjective(waiters')
      BY Zenon, <1>0, <1>3 DEF LinkedOnce
    <2> QED
      BY Zenon, <1>9, <2>1, <2>2, <2>3, <2>4, <2>5, <2>6, <2>7 DEF LinkedOnce
  <1>11. Lists'
    <2>1. \A u \in Range(waiters') : pc'[u] \notin Leaving
      BY Zenon, <1>0, <1>3, <1>4, <1>5, <1>8 DEF Lists, OthersRun, Leaving
    <2>2. \A u \in Thread : \A v \in Range(Taken(u)') : pc'[v] # "dqFound"
      BY ZenonT(40), <1>0, <1>4, <1>5, <1>8 DEF Lists, OthersRun
    <2> QED
      BY Zenon, <1>9, <2>1, <2>2 DEF Lists
  <1>12. Releases'
    <2>1. CASE high'.releaseOk
      BY Zenon, <2>1 DEF Releases
    <2>2. CASE ~high'.releaseOk
      <3>1. PICK w \in Range(wakeup[t]) : WaiterMode(w) # "LW_WAIT_UNTIL_FREE"
        BY Zenon, <1>2, <2>2
      <3>2. Taken(t) = wakeup[t]
        BY Zenon, <1>1 DEF Taken
      <3>3. w \in Thread /\ waiting[w] /\ w \notin Range(waiters) /\ pc[w] \notin Leaving
        BY Zenon, <1>0, <1>1, <1>8, <3>1, <3>2 DEF LinkedOnce, Lists
      <3>4. queued[w] /\ op[w] = "LWLockAcquire"
        BY Zenon, <3>1, <3>3, TakenSummoned
      <3>5. Summoned(w)
        BY Zenon, <3>3, <3>4 DEF Summoned, Leaving
      <3>6. Summoned(w)'
        BY Zenon, <1>3, <1>4, <3>3, <3>5 DEF Summoned, OthersRun
      <3> QED
        BY Zenon, <3>3, <3>6 DEF Releases
    <2> QED
      BY Zenon, <2>1, <2>2
  <1>13. Rescuer(t) => Rescuer(t)'
    BY Zenon, <1>1, <1>4 DEF Rescuer, Retrying
  <1>14. Wakes'
    BY Zenon, <1>0, <1>3, <1>4, <1>5, <1>13, WakesKept
  <1>15. \A u \in Thread \ {t} : waiting'[u] => waiting[u]
    BY Zenon, <1>3
  <1> QED
    BY Zenon, <1>1, <1>3, <1>4, <1>5, <1>6, <1>7, <1>10, <1>11, <1>12, <1>14, <1>15, ListedStep

\* A node leaves the private list, and its thread stops waiting.
LEMMA WakeupStopLists ==
  ASSUME IInv, WInv, NEW t \in Thread, WakeupStop(t)
  PROVE  WInv'
  <1>0. /\ WordTypeOK /\ ListTypeOK /\ CallInv(t) /\ NeedInv(t) /\ Releases /\ Wakes /\ LinkedOnce
        /\ ListLock /\ Lists
    BY Zenon, Parts DEF WInv
  <1> DEFINE h == Head(wakeup[t])
             rest == Tail(wakeup[t])
  <1>1. /\ pc[t] = "wkStop" /\ UNCHANGED <<low, high, waiters, posted, held, locals, old, wakeup>>
        /\ waiting' = [waiting EXCEPT ![h] = FALSE] /\ Goto(t, "wkPost")
    BY Zenon DEF WakeupStop
  <1>2. wakeup[t] # <<>> /\ wakeup[t] \in Seq(Thread)
    BY Zenon, <1>0, <1>1, ListedThreads DEF CallInv, WInv
  <1>3. Taken(t) = wakeup[t]
    BY Zenon, <1>1 DEF Taken
  <1>4. /\ h \in Thread /\ Range(wakeup[t]) = Range(rest) \cup {h}
        /\ IsInjective(rest) /\ h \notin Range(rest)
    <2>1. IsInjective(wakeup[t])
      BY Zenon, <1>0, <1>3 DEF LinkedOnce
    <2> QED
      BY Zenon, <1>2, <2>1, Popped
  <1> HIDE DEF h
  <1>5. waiters' = waiters /\ wakeup' = wakeup /\ low' = low /\ high' = high /\ held' = held
    BY Zenon, <1>1
  <1>6. waiting' \in [Thread -> BOOLEAN] /\ \A u \in Thread : waiting'[u] <=> (waiting[u] /\ u # h)
    BY <1>0, <1>1, <1>4 DEF ListTypeOK
  <1>7. Goes(t, "wkPost") /\ Others(t) /\ OthersRun(t) /\ pc'[t] = "wkPost"
    BY Zenon, <1>0, <1>1, GotoGoes DEF Others, OthersHold, Goes
  <1>8. CallInv(t)' /\ NeedInv(t)' /\ ~need[t] /\ ~need'[t]
    <2>1. NeedInv(t)' /\ ~need[t] /\ ~need'[t]
      BY <1>0, <1>1, <1>7 DEF NeedInv, Goes, Leaving
    <2>2. waiting'[t] => waiting[t]
      BY ZenonT(40), <1>6
    <2>3. CallInv(t)'
      BY Zenon, <1>0, <1>1, <1>2, <1>5, <1>7, <2>2 DEF CallInv, Goes, Waking, Leaving
    <2> QED
      BY ZenonT(40), <2>1, <2>3
  <1>9. \A u \in Thread : (pc'[u] \in Listing <=> pc[u] \in Listing) /\ (pc'[u] = "wkFlags" <=> pc[u] = "wkFlags")
                       /\ (pc'[u] = "qPush" <=> pc[u] = "qPush") /\ (pc'[u] = "qMark" <=> pc[u] = "qMark")
                       /\ (pc'[u] = "dqFound" <=> pc[u] = "dqFound") /\ (pc'[u] \in Leaving <=> pc[u] \in Leaving)
    BY Zenon, <1>1, <1>7 DEF OthersRun, Listing, Leaving
  <1>10. ListLock'
    BY Zenon, <1>0, <1>5, <1>9 DEF ListLock
  <1>11. ListTypeOK'
    BY Zenon, <1>0, <1>1, <1>6 DEF ListTypeOK
  <1>12. /\ Range(waiters) \subseteq Thread
         /\ \A u \in Thread : Range(Taken(u)) \subseteq Thread /\ Range(wakeup[u]) \subseteq Thread
    BY Zenon, ListedThreads DEF WInv
  <1>13. /\ Taken(t)' = rest /\ Range(rest) \subseteq Range(Taken(t))
         /\ \A u \in Thread \ {t} : Taken(u)' = Taken(u)
    BY Zenon, <1>3, <1>4, <1>5, <1>7 DEF OthersRun, Taken
  <1>14. /\ h \in Range(Taken(t)) /\ h \notin Range(waiters)
         /\ \A u \in Thread \ {t} : h \notin Range(Taken(u))
    BY Zenon, <1>0, <1>3, <1>4 DEF LinkedOnce
  <1> HIDE DEF rest
  <1>15. \A u \in Thread : Range(Taken(u)') \subseteq Range(Taken(u)) /\ h \notin Range(Taken(u)')
    BY Zenon, <1>4, <1>13, <1>14
  <1>16. LinkedOnce'
    <2>1. \A u \in Thread : IsInjective(Taken(u)')
      <3>1. IsInjective(Taken(t)')
        BY Zenon, <1>4, <1>13
      <3>2. \A u \in Thread \ {t} : IsInjective(Taken(u)')
        BY Zenon, <1>0, <1>13 DEF LinkedOnce
      <3> QED
        BY Zenon, <3>1, <3>2
    <2>2. \A u \in Thread : Range(Taken(u)') \cap Range(waiters') = {}
      BY Zenon, <1>0, <1>5, <1>15 DEF LinkedOnce
    <2>3. \A u \in Range(waiters') : waiting'[u]
      BY Zenon, <1>0, <1>5, <1>6, <1>12, <1>14 DEF LinkedOnce
    <2>4. \A u \in Thread : \A v \in Range(Taken(u)') : waiting'[v]
      <3>1. \A u \in Thread : \A v \in Range(Taken(u)') : v \in Range(Taken(u)) /\ v # h
        BY Zenon, <1>15
      <3>2. \A u \in Thread : \A v \in Range(Taken(u)') : v \in Thread /\ waiting[v] /\ v # h
        BY Zenon, <1>0, <1>12, <3>1 DEF LinkedOnce
      <3> QED
        BY Zenon, <1>6, <3>2
    <2>5. \A u \in Thread : pc'[u] \in {"qMark", "qPush"} => ~waiting'[u]
      BY Zenon, <1>0, <1>6, <1>9 DEF LinkedOnce
    <2>6. \A u, v \in Thread : u # v => Range(Taken(u)') \cap Range(Taken(v)') = {}
      BY Zenon, <1>0, <1>15 DEF LinkedOnce
    <2>7. waiters' # <<>> \/ (\E u \in Thread : pc'[u] = "wkFlags" /\ wakeup'[u] # <<>>) => high'.hasWaiters
      BY Zenon, <1>0, <1>5, <1>9 DEF LinkedOnce
    <2>8. IsInjective(waiters')
      BY Zenon, <1>0, <1>5 DEF LinkedOnce
    <2> QED
      BY Zenon, <2>1, <2>2, <2>3, <2>4, <2>5, <2>6, <2>7, <2>8 DEF LinkedOnce
  <1>17. Lists'
    <2>1. \A u \in Range(waiters') : pc'[u] \notin Leaving
      BY Zenon, <1>0, <1>5, <1>9, <1>12 DEF Lists
    <2>2. \A u \in Thread : \A v \in Range(Taken(u)') : pc'[v] # "dqFound"
      BY Zenon, <1>0, <1>9, <1>12, <1>15 DEF Lists
    <2>3. \A u \in Thread : pc'[u] = "wkFlags" => \A v \in Range(wakeup'[u]) : pc'[v] \notin Leaving
      BY Zenon, <1>0, <1>5, <1>9, <1>12 DEF Lists
    <2>4. \A u \in Thread : pc'[u] = "wkFlags" /\ wakeup'[u] = <<>> => waiters' = <<>>
      BY Zenon, <1>0, <1>5, <1>9 DEF Lists
    <2>5. \A u \in Thread : pc'[u] = "qPush" => high'.hasWaiters
      BY Zenon, <1>0, <1>5, <1>9 DEF Lists
    <2> QED
      BY Zenon, <2>1, <2>2, <2>3, <2>4, <2>5 DEF Lists
  <1>18. Summoned(t) => Summoned(t)'
    BY Zenon, <1>5, <1>7 DEF Summoned, Goes
  <1>19. Releases'
    BY Zenon, <1>0, <1>5, <1>7, <1>18, ReleasesKept
  <1>20. (Rescuer(t) => Rescuer(t)') /\ (Refused(t)' => Refused(t))
    BY Zenon, <1>1, <1>5, <1>7, <1>18 DEF Rescuer, Retrying, Refused, Waking
  <1>21. Wakes'
    BY Zenon, <1>0, <1>5, <1>7, <1>20, WakesKept
  <1>22. Owes(t)' <=> Owes(t)
    BY Zenon, <1>8 DEF Owes
  <1>23. \A u \in Thread \ {t} : waiting'[u] => waiting[u]
    BY Zenon, <1>6
  <1> QED
    BY Zenon, <1>1, <1>5, <1>7, <1>8, <1>10, <1>11, <1>16, <1>17, <1>19, <1>21, <1>22, <1>23, ListedStep


\* The head is posted, and the wakeup goes on with the next thread or ends.
LEMMA WakeupPostLists ==
  ASSUME IInv, WInv, NEW t \in Thread, WakeupPost(t)
  PROVE  WInv'
  <1>0. /\ WordTypeOK /\ ListTypeOK /\ CallInv(t) /\ NeedInv(t) /\ Releases /\ Wakes /\ LinkedOnce
        /\ ListLock /\ Lists /\ held[t] = None
    BY Zenon, Parts DEF WInv, WakeupPost
  <1> DEFINE rest == Tail(wakeup[t])
  <1>1. /\ pc[t] = "wkPost" /\ UNCHANGED <<low, high, waiters, waiting, old>>
        /\ posted' = [posted EXCEPT ![Head(wakeup[t])] = TRUE]
        /\ wakeup' = [wakeup EXCEPT ![t] = rest]
        /\ IF Len(wakeup[t]) = 1 THEN WakeupDone(t) ELSE Goto(t, "wkStop") /\ UNCHANGED <<held, locals>>
    BY DEF WakeupPost
  <1>2. wakeup[t] # <<>> /\ wakeup[t] \in Seq(Thread)
    BY Zenon, <1>0, <1>1, ListedThreads DEF CallInv, WInv
  <1>3. /\ rest \in Seq(Thread)
        /\ Len(wakeup[t]) # 1 => rest # <<>>
        /\ Len(wakeup[t]) = 1 => rest = <<>>
    BY Zenon, <1>2, Popped
  <1>4. Taken(t) = rest
    BY Zenon, <1>1 DEF Taken
  <1> HIDE DEF rest
  <1>5. waiters' = waiters /\ waiting' = waiting /\ low' = low /\ high' = high
    BY ZenonT(40), <1>1
  <1>6. wakeup' \in [Thread -> Seq(Thread)] /\ wakeup'[t] = rest /\ \A u \in Thread \ {t} : wakeup'[u] = wakeup[u]
    BY <1>0, <1>1, <1>3 DEF ListTypeOK
  <1>7. /\ OthersRun(t) /\ held' = held
        /\ CallInv(t)' /\ NeedInv(t)'
        /\ rest = <<>> => pc'[t] \in {"idle", "sleep", "qMark"}
        /\ rest # <<>> => pc'[t] = "wkStop"
        /\ Owes(t)' <=> Owes(t)
        /\ Summoned(t) => Summoned(t)'
        /\ Refused(t)' => Refused(t)
    <2>1. CASE Len(wakeup[t]) = 1
      <3>1. WakeupDone(t) /\ rest = <<>>
        BY Zenon, <1>1, <1>3, <2>1
      <3> QED
        BY Zenon, <1>0, <1>1, <1>5, <1>6, <3>1, WakeupDoneCall DEF Waking
    <2>2. CASE Len(wakeup[t]) # 1
      <3>1. Goto(t, "wkStop") /\ UNCHANGED <<held, locals>> /\ rest # <<>>
        BY Zenon, <1>1, <1>3, <2>2
      <3>2. Goes(t, "wkStop") /\ OthersRun(t) /\ held' = held
        BY ZenonT(40), <1>0, <3>1, GotoGoes
      <3>3. CallInv(t)'
        BY Zenon, <1>0, <1>1, <1>5, <1>6, <3>1, <3>2 DEF CallInv, Goes, Waking, Leaving
      <3>4. NeedInv(t)' /\ ~need[t] /\ ~need'[t]
        BY Zenon, <1>0, <1>1, <3>2 DEF NeedInv, Goes, Leaving
      <3> QED
        BY Zenon, <1>1, <1>5, <3>1, <3>2, <3>3, <3>4 DEF Goes, Owes, Summoned, Refused, Waking
    <2> QED
      BY Zenon, <2>1, <2>2
  <1>8. pc'[t] \in {"idle", "sleep", "qMark", "wkStop"}
    BY Zenon, <1>7
  <1>9. Others(t)
    <2>1. \A u \in Holder \ {t} : held'[u] = held[u]
      BY ZenonT(40), <1>7
    <2> QED
      BY Zenon, <1>1, <1>6, <1>7, <2>1 DEF Others, OthersHold, OthersRun
  <1>10. \A u \in Thread : (pc'[u] \in Listing <=> pc[u] \in Listing) /\ (pc'[u] = "wkFlags" <=> pc[u] = "wkFlags")
                        /\ (pc'[u] = "qPush" <=> pc[u] = "qPush") /\ (pc'[u] = "qMark" => u = t \/ pc[u] = "qMark")
                        /\ (pc'[u] = "dqFound" <=> pc[u] = "dqFound") /\ (pc'[u] \in Leaving <=> pc[u] \in Leaving)
    BY Zenon, <1>1, <1>7, <1>8 DEF OthersRun, Listing, Leaving
  <1>11. ListLock'
    BY Zenon, <1>0, <1>5, <1>10 DEF ListLock
  <1>12. ListTypeOK'
    <2>1. posted' \in [Thread -> BOOLEAN]
      BY Zenon, <1>0, <1>1 DEF ListTypeOK
    <2> QED
      BY Zenon, <1>0, <1>1, <1>6, <2>1 DEF ListTypeOK
  <1>13. /\ Range(waiters) \subseteq Thread
         /\ \A u \in Thread : Range(Taken(u)) \subseteq Thread /\ Range(wakeup[u]) \subseteq Thread
    BY Zenon, ListedThreads DEF WInv
  <1>14. \A u \in Thread : Taken(u)' = Taken(u)
    <2>1. Taken(t)' = rest
      BY Zenon, <1>6, <1>8 DEF Taken
    <2>2. \A u \in Thread \ {t} : Taken(u)' = Taken(u)
      BY Zenon, <1>6, <1>7 DEF OthersRun, Taken
    <2> QED
      BY Zenon, <1>4, <2>1, <2>2
  <1>15. \A u \in Thread : pc[u] = "wkFlags" => wakeup'[u] = wakeup[u]
    BY Zenon, <1>1, <1>6
  <1>16. LinkedOnce'
    <2>1. \A u \in Thread : IsInjective(Taken(u)') /\ Range(Taken(u)') \cap Range(waiters') = {}
      BY Zenon, <1>0, <1>5, <1>14 DEF LinkedOnce
    <2>2. IsInjective(waiters') /\ \A u \in Range(waiters') : waiting'[u]
      BY Zenon, <1>0, <1>5 DEF LinkedOnce
    <2>3. \A u \in Thread : \A v \in Range(Taken(u)') : waiting'[v]
      BY Zenon, <1>0, <1>5, <1>14 DEF LinkedOnce
    <2>4. \A u \in Thread : pc'[u] \in {"qMark", "qPush"} => ~waiting'[u]
      <3>1. pc'[t] \in {"qMark", "qPush"} => ~waiting'[t]
        BY Zenon, <1>7 DEF CallInv
      <3> QED
        BY Zenon, <1>0, <1>5, <1>10, <3>1 DEF LinkedOnce
    <2>5. \A u, v \in Thread : u # v => Range(Taken(u)') \cap Range(Taken(v)') = {}
      BY Zenon, <1>0, <1>14 DEF LinkedOnce
    <2>6. waiters' # <<>> \/ (\E u \in Thread : pc'[u] = "wkFlags" /\ wakeup'[u] # <<>>) => high'.hasWaiters
      BY Zenon, <1>0, <1>5, <1>10, <1>15 DEF LinkedOnce
    <2> QED
      BY Zenon, <2>1, <2>2, <2>3, <2>4, <2>5, <2>6 DEF LinkedOnce
  <1>17. Lists'
    <2>1. \A u \in Range(waiters') : pc'[u] \notin Leaving
      BY Zenon, <1>0, <1>5, <1>10, <1>13 DEF Lists
    <2>2. \A u \in Thread : \A v \in Range(Taken(u)') : pc'[v] # "dqFound"
      BY Zenon, <1>0, <1>10, <1>13, <1>14 DEF Lists
    <2>3. \A u \in Thread : pc'[u] = "wkFlags" => \A v \in Range(wakeup'[u]) : pc'[v] \notin Leaving
      BY Zenon, <1>0, <1>10, <1>13, <1>15 DEF Lists
    <2>4. \A u \in Thread : pc'[u] = "wkFlags" /\ wakeup'[u] = <<>> => waiters' = <<>>
      BY Zenon, <1>0, <1>5, <1>10, <1>15 DEF Lists
    <2>5. \A u \in Thread : pc'[u] = "qPush" => high'.hasWaiters
      BY Zenon, <1>0, <1>5, <1>10 DEF Lists
    <2> QED
      BY Zenon, <2>1, <2>2, <2>3, <2>4, <2>5 DEF Lists
  <1>18. Releases'
    BY Zenon, <1>0, <1>5, <1>7, <1>9, ReleasesKept
  <1>19. Rescuer(t) => Rescuer(t)'
    BY Zenon, <1>1, <1>7 DEF Rescuer, Retrying
  <1>20. Wakes'
    BY Zenon, <1>0, <1>5, <1>7, <1>9, <1>19, WakesKept
  <1>21. \A u \in Thread \ {t} : waiting'[u] => waiting[u]
    BY Zenon, <1>5
  <1> QED
    BY Zenon, <1>1, <1>5, <1>7, <1>9, <1>11, <1>12, <1>16, <1>17, <1>18, <1>20, <1>21, ListedStep


LEMMA InitWInv == Init => WInv
  <1> SUFFICES ASSUME Init PROVE WInv
    OBVIOUS
  <1>0. Range(<<>>) = {} /\ IsInjective(<<>>)
    BY DEF Range, IsInjective
  <1>1. /\ waiters = <<>> /\ low = Free /\ high.releaseOk /\ ~high.listLocked
        /\ \A t \in Thread : /\ pc[t] = "idle" /\ op[t] = None /\ ~queued[t] /\ ~waiting[t] /\ ~need[t]
                             /\ ~waked[t] /\ wakeup[t] = <<>>
    BY DEF Init
  <1>2. ListTypeOK
    BY SMTT(20) DEF Init, ListTypeOK
  <1>3. Calls
    BY <1>1 DEF Calls, CallInv, NeedInv, Waking, Leaving
  <1>4. ListLock
    BY <1>1 DEF ListLock, Listing
  <1>5. Range(waiters) = {} /\ IsInjective(waiters)
    BY Zenon, <1>0, <1>1
  <1>6. \A t \in Thread : Taken(t) = <<>> /\ Range(Taken(t)) = {} /\ IsInjective(Taken(t))
    BY ZenonT(40), <1>0, <1>1 DEF Taken
  <1>7. LinkedOnce
    BY SMTT(20), <1>1, <1>5, <1>6 DEF LinkedOnce
  <1>8. Lists
    BY SMTT(20), <1>1, <1>5, <1>6 DEF Lists
  <1>9. DisallowHasOneOwner /\ Releases /\ SharedEnds
    BY <1>1 DEF DisallowHasOneOwner, Owes, Releases, SharedEnds, Free
  <1>10. Wakes
    BY <1>5 DEF Wakes, Refused
  <1> QED
    BY Zenon, <1>2, <1>3, <1>4, <1>7, <1>8, <1>9, <1>10 DEF WInv

\* One step of the lock keeps the wait list in order, whoever takes it.
LEMMA NextWInv ==
  ASSUME LeastLaw, CountLaw, IInv, WInv, [Next]_vars
  PROVE  WInv'
  <1>1. ASSUME NEW t \in Thread, Call(t) PROVE WInv'
    <2>1. ASSUME NEW m, NEW o \in Attempting, Start(t, o, m) PROVE WInv'
      BY Zenon, <2>1, StartLists
    <2>2. CASE LWLockConditionalAcquireAnyMode(t)
      BY Zenon, <2>2, StartLists DEF LWLockConditionalAcquireAnyMode
    <2>3. {"LWLockAcquire", "LWLockConditionalAcquire", "LWLockAcquireOrWait"} \subseteq Attempting
      BY DEF Attempting, Queueing
    <2> QED
      BY Zenon, <1>1, <2>1, <2>2, <2>3
         DEF Call, LWLockAcquire, LWLockConditionalAcquire, LWLockAcquireOrWait
  <1>2. ASSUME NEW t \in Thread, LWLockRelease(t) PROVE WInv'
    BY Zenon, <1>2, ReleaseExclusiveLists, ReleaseShareLists DEF LWLockRelease
  <1>3. ASSUME NEW t \in Thread, Step(t) PROVE WInv'
    BY Zenon, <1>3, AttemptExclusiveLists, AttemptShareAddLists, AttemptShareCasLists, TryWakeupLists,
       AnyModeAddLists, AnyModeCasLists, AnyModeSubLists, QueueSelfMarkLists, QueueSelfPushLists,
       SleepPostedLists, DequeueSelfLockLists, DequeueSelfUnlockLists, DequeueSelfReleaseOkLists,
       DequeueSelfSleepLists, ReleaseShareCasLists, ReleaseShareRetryLists, ReleaseShareReadLists,
       WakeupCollectLists, WakeupFlagsLists, WakeupStopLists, WakeupPostLists DEF Step
  <1>4. ASSUME NEW t \in Thread, SleepTimeout(t) \/ UnrelatedPost(t) PROVE WInv'
    BY Zenon, <1>4, SleepTimeoutLists, UnrelatedPostLists
  <1>5. ASSUME NEW t \in Thread, LWLockDisown(t) \/ LWLockOwn(t) PROVE WInv'
    BY Zenon, <1>5, PassedOnLists
  <1>6. CASE UNCHANGED vars
    <2>1. /\ low' = low /\ high' = high /\ waiters' = waiters /\ waiting' = waiting /\ posted' = posted
          /\ held' = held /\ pc' = pc /\ op' = op /\ mode' = mode /\ need' = need /\ waked' = waked
          /\ queued' = queued /\ old' = old /\ wakeup' = wakeup
      BY Zenon, <1>6 DEF vars
    <2>2. \A t \in Thread : Taken(t)' = Taken(t)
      BY Zenon, <2>1 DEF Taken
    <2>3. \A t \in Thread : (Owes(t)' <=> Owes(t)) /\ (Summoned(t)' <=> Summoned(t))
                         /\ (Refused(t)' <=> Refused(t)) /\ (Rescuer(t)' <=> Rescuer(t))
      BY Zenon, <2>1 DEF Owes, XOwner, Dequeueing, Summoned, Refused, Rescuer, Retrying
    <2>4. ListTypeOK' /\ ListLock'
      BY Zenon, <2>1 DEF WInv, ListTypeOK, ListLock
    <2>5. Calls'
      BY ZenonT(40), <2>1 DEF WInv, Calls, CallInv, NeedInv
    <2>6. LinkedOnce'
      BY Zenon, <2>1 DEF WInv, LinkedOnce, Taken
    <2>7. Lists'
      BY Zenon, <2>1 DEF WInv, Lists, Taken
    <2>8. DisallowHasOneOwner' /\ Releases' /\ Wakes'
      BY Zenon, <2>1, <2>3 DEF WInv, DisallowHasOneOwner, Releases, Wakes
    <2>9. SharedEnds'
      BY Zenon, <2>1 DEF WInv, SharedEnds
    <2> QED
      BY Zenon, <2>4, <2>5, <2>6, <2>7, <2>8, <2>9 DEF WInv
  <1> QED
    BY Zenon, <1>1, <1>2, <1>3, <1>4, <1>5, <1>6 DEF Next

==============================================================================
