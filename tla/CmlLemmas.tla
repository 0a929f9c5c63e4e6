----------------------------- MODULE CmlLemmas -----------------------------
(***************************************************************************)
(* What the proofs about Concurrent ML share.  First, sequences of any     *)
(* length: what filtering keeps and what concatenation joins, by induction *)
(* on the length, where the least counterexample comes from the            *)
(* well-foundedness of <.  Then the scheduler: what its operations do to   *)
(* the places of a thread.  A switch takes one from the thread that leaves *)
(* and gives one to the target, making a thread ready gives one, and       *)
(* preemption changes none.                                                *)
(***************************************************************************)
EXTENDS CmlScheduler, Subsequences, SequencesExt, SequenceTheorems, FiniteSetTheorems,
        FunctionTheorems, WellFoundedInduction, TLAPS

LEMMA LeastOfNat ==
  ASSUME NEW T, T \subseteq Nat, T # {}
  PROVE  \E n \in T : \A m \in T : n <= m
<1> DEFINE R == OpToRel(<, Nat)
<1>1. IsWellFoundedOn(R, Nat)
  BY NatLessThanWellFounded
<1>2. R = {p \in Nat \X Nat : p[1] < p[2]}
  BY DEF OpToRel
<1> HIDE DEF R
<1>3. PICK n \in T : \A m \in T : <<m, n>> \notin R
  BY <1>1, WFMin
<1>4. ASSUME NEW m \in T PROVE n <= m
  <2>1. <<m, n>> \notin {p \in Nat \X Nat : p[1] < p[2]}
    BY <1>2, <1>3
  <2>2. m \in Nat /\ n \in Nat
    OBVIOUS
  <2>3. ~ (m < n)
    BY <2>1, <2>2
  <2> QED BY <2>2, <2>3
<1> QED BY <1>3, <1>4

LEMMA InductionOnNat ==
  ASSUME NEW T, 0 \in T, \A n \in Nat : n \in T => n + 1 \in T
  PROVE  Nat \subseteq T
<1> SUFFICES ASSUME ~ (Nat \subseteq T) PROVE FALSE
  OBVIOUS
<1> DEFINE U == Nat \ T
<1>1. PICK n \in U : \A m \in U : n <= m
  <2>1. U \subseteq Nat /\ U # {}
    OBVIOUS
  <2> HIDE DEF U
  <2> QED BY <2>1, LeastOfNat
<1>2. n # 0 /\ n - 1 \in Nat
  BY <1>1
<1>3. n - 1 \notin U
  BY <1>1, <1>2
<1> QED BY <1>1, <1>2, <1>3

\* One step of Filtered, as a function of what it has computed so far.
FilterStep(q, S, f, n) ==
  IF n = 0 THEN <<>> ELSE IF q[n] \in S THEN Append(f[n - 1], q[n]) ELSE f[n - 1]

LEMMA FilteredExists ==
  ASSUME NEW q, NEW S, Len(q) \in Nat
  PROVE  \E f : f = [n \in 0 .. Len(q) |-> FilterStep(q, S, f, n)]
<1> DEFINE T == {k \in Nat : \E f : f = [n \in 0 .. k |-> FilterStep(q, S, f, n)]}
<1>1. 0 \in T
  <2> DEFINE f == [n \in 0 .. 0 |-> <<>>]
  <2>1. f = [n \in 0 .. 0 |-> FilterStep(q, S, f, n)]
    BY DEF FilterStep
  <2> QED BY <2>1
<1>2. ASSUME NEW k \in Nat, k \in T PROVE k + 1 \in T
  <2>1. PICK f : f = [n \in 0 .. k |-> FilterStep(q, S, f, n)]
    BY <1>2
  <2>2. \A n \in 0 .. k : f[n] = FilterStep(q, S, f, n)
    BY <2>1
  <2> DEFINE g == [n \in 0 .. k + 1 |-> IF n <= k THEN f[n] ELSE FilterStep(q, S, f, n)]
  <2>3. ASSUME NEW n \in 0 .. k + 1 PROVE g[n] = FilterStep(q, S, g, n)
    <3>1. g[n] = FilterStep(q, S, f, n)
      BY <2>2
    <3>2. n # 0 => n - 1 \in 0 .. k /\ g[n - 1] = f[n - 1]
      OBVIOUS
    <3> QED BY <3>1, <3>2 DEF FilterStep
  <2>4. g = [n \in 0 .. k + 1 |-> g[n]]
    OBVIOUS
  <2> HIDE DEF g
  <2>5. g = [n \in 0 .. k + 1 |-> FilterStep(q, S, g, n)]
    BY <2>3, <2>4
  <2> QED BY <2>5
<1>3. Nat \subseteq T
  <2> HIDE DEF T
  <2> QED BY <1>1, <1>2, InductionOnNat
<1> QED BY <1>3

LEMMA FilteredDef ==
  ASSUME NEW q, NEW S, Len(q) \in Nat
  PROVE  \A n \in 0 .. Len(q) : Filtered(q, S)[n] = FilterStep(q, S, Filtered(q, S), n)
<1> DEFINE Steps(f) == [n \in 0 .. Len(q) |-> FilterStep(q, S, f, n)]
           F == CHOOSE f : f = Steps(f)
<1>1. Filtered(q, S) = F
  BY DEF Filtered, FilterStep
<1>2. \E f : f = Steps(f)
  BY FilteredExists
<1>3. F = Steps(F)
  <2> HIDE DEF Steps
  <2> QED BY <1>2
<1>4. \A n \in 0 .. Len(q) : Steps(F)[n] = FilterStep(q, S, F, n)
  <2> HIDE DEF F
  <2> QED OBVIOUS
<1> HIDE DEF F, Steps
<1> QED BY <1>1, <1>3, <1>4

\* r has those of the first n elements of q that are in S, and no others.
Selects(q, S, n, r) ==
  /\ \A i \in 1 .. n : q[i] \in S => \E k \in DOMAIN r : r[k] = q[i]
  /\ \A k \in DOMAIN r : \E i \in 1 .. n : r[k] = q[i]

LEMMA FilteredType ==
  ASSUME NEW T, NEW q \in Seq(T), NEW S
  PROVE  \A n \in 0 .. Len(q) :
           Filtered(q, S)[n] \in Seq(T \cap S) /\ Selects(q, S, n, Filtered(q, S)[n])
<1> USE DEF Selects
<1> DEFINE F == Filtered(q, S)
           P(n) == F[n] \in Seq(T \cap S) /\ Selects(q, S, n, F[n])
           N == {n \in Nat : n <= Len(q) => P(n)}
<1>1. Len(q) \in Nat /\ \A i \in 1 .. Len(q) : q[i] \in T
  OBVIOUS
<1>2. \A n \in 0 .. Len(q) : F[n] = FilterStep(q, S, F, n)
  BY <1>1, FilteredDef
<1> HIDE DEF F
<1>3. 0 \in N
  <2>1. F[0] = <<>>
    BY <1>1, <1>2 DEF FilterStep
  <2>2. <<>> \in Seq(T \cap S) /\ DOMAIN <<>> = 1 .. 0
    OBVIOUS
  <2>3. P(0)
    BY <2>1, <2>2
  <2> QED BY <2>3
<1>4. ASSUME NEW n \in Nat, n \in N PROVE n + 1 \in N
  <2> SUFFICES ASSUME n + 1 <= Len(q) PROVE P(n + 1)
    OBVIOUS
  <2>1. P(n)
    BY <1>4
  <2>2. F[n + 1] = IF q[n + 1] \in S THEN Append(F[n], q[n + 1]) ELSE F[n]
    BY <1>1, <1>2 DEF FilterStep
  <2>3. CASE q[n + 1] \notin S
    BY <2>1, <2>2, <2>3
  <2>4. CASE q[n + 1] \in S
    <3> DEFINE f == F[n]
               x == q[n + 1]
    <3>1. f \in Seq(T \cap S) /\ x \in T \cap S /\ F[n + 1] = Append(f, x)
      BY <1>1, <2>1, <2>2, <2>4
    <3>2. /\ F[n + 1] \in Seq(T \cap S)
          /\ DOMAIN F[n + 1] = 1 .. Len(f) + 1 /\ DOMAIN f = 1 .. Len(f) /\ Len(f) \in Nat
          /\ \A k \in 1 .. Len(f) : F[n + 1][k] = f[k]
          /\ F[n + 1][Len(f) + 1] = x
      BY <3>1
    <3>3. ASSUME NEW i \in 1 .. n + 1, q[i] \in S
          PROVE  \E k \in DOMAIN F[n + 1] : F[n + 1][k] = q[i]
      <4>1. CASE i = n + 1
        BY <3>2, <4>1
      <4>2. CASE i \in 1 .. n
        <5>1. PICK k \in DOMAIN f : f[k] = q[i]
          BY <2>1, <3>3, <4>2
        <5> QED BY <3>2, <5>1
      <4> QED BY <4>1, <4>2
    <3>4. ASSUME NEW k \in DOMAIN F[n + 1]
          PROVE  \E i \in 1 .. n + 1 : F[n + 1][k] = q[i]
      <4>1. CASE k = Len(f) + 1
        BY <3>2, <4>1
      <4>2. CASE k \in 1 .. Len(f)
        <5>1. PICK i \in 1 .. n : f[k] = q[i]
          BY <2>1, <3>2, <4>2
        <5> QED BY <3>2, <4>2, <5>1
      <4> QED BY <3>2, <4>1, <4>2
    <3> QED BY <3>2, <3>3, <3>4
  <2> QED BY <2>3, <2>4
<1>5. Nat \subseteq N
  <2> HIDE DEF N
  <2> QED BY <1>3, <1>4, InductionOnNat
<1> QED BY <1>1, <1>5 DEF F

\* Filtering keeps the elements of S and no others.
THEOREM AmongElements ==
  ASSUME NEW T, NEW q \in Seq(T), NEW S
  PROVE  Among(q, S) \in Seq(T \cap S) /\ Selects(q, S, Len(q), Among(q, S))
<1>1. Len(q) \in Nat /\ Len(q) \in 0 .. Len(q)
  OBVIOUS
<1> QED BY <1>1, FilteredType DEF Among

\* c has the elements of a and those of b, and no others.
Joins(a, b, c) ==
  /\ \A i \in DOMAIN a : \E k \in DOMAIN c : c[k] = a[i]
  /\ \A i \in DOMAIN b : \E k \in DOMAIN c : c[k] = b[i]
  /\ \A k \in DOMAIN c : \/ \E i \in DOMAIN a : c[k] = a[i]
                         \/ \E i \in DOMAIN b : c[k] = b[i]

THEOREM ConcatElements ==
  ASSUME NEW T, NEW a \in Seq(T), NEW b \in Seq(T)
  PROVE  a \o b \in Seq(T) /\ Joins(a, b, a \o b)
<1> DEFINE c == a \o b
<1>1. /\ c \in Seq(T) /\ DOMAIN a = 1..Len(a) /\ DOMAIN b = 1..Len(b)
      /\ Len(a) \in Nat /\ Len(b) \in Nat /\ Len(c) = Len(a) + Len(b)
      /\ \A k \in 1..Len(c) : c[k] = IF k <= Len(a) THEN a[k] ELSE b[k - Len(a)]
  BY ConcatProperties
<1>5. DOMAIN c = 1..Len(a) + Len(b)
  BY <1>1
<1> HIDE DEF c
<1>2. \A k \in DOMAIN a : k \in DOMAIN c /\ c[k] = a[k]
  BY <1>1, <1>5
<1>3. ASSUME NEW k \in DOMAIN b PROVE Len(a) + k \in DOMAIN c /\ c[Len(a) + k] = b[k]
  <2>1. /\ Len(a) + k \in 1..Len(c) /\ ~ (Len(a) + k <= Len(a))
        /\ (Len(a) + k) - Len(a) = k
    BY <1>1
  <2> QED BY <1>1, <1>5, <2>1
<1>4. ASSUME NEW k \in DOMAIN c
      PROVE  \/ k \in DOMAIN a /\ c[k] = a[k]
             \/ k - Len(a) \in DOMAIN b /\ c[k] = b[k - Len(a)]
  BY <1>1, <1>5
<1>6. Joins(a, b, c)
  BY <1>2, <1>3, <1>4 DEF Joins
<1> QED BY <1>1, <1>6 DEF c

-----------------------------------------------------------------------------
One(b) == IF b THEN 1 ELSE 0

\* The indices of t in q are finitely many.
LEMMA TimesType ==
  ASSUME NEW T, NEW q \in Seq(T), NEW t
  PROVE  /\ {i \in DOMAIN q : q[i] = t} \in SUBSET (1 .. Len(q))
         /\ IsFiniteSet({i \in DOMAIN q : q[i] = t})
         /\ Times(t, q) \in Nat
<1>1. DOMAIN q = 1 .. Len(q) /\ Len(q) \in Nat
  OBVIOUS
<1>2. IsFiniteSet(1 .. Len(q))
  BY <1>1, FS_Interval
<1>3. {i \in DOMAIN q : q[i] = t} \subseteq 1 .. Len(q)
  BY <1>1
<1> QED BY <1>2, <1>3, FS_Subset, FS_CardinalityType DEF Times

LEMMA TimesEmpty ==
  ASSUME NEW t PROVE Times(t, <<>>) = 0
<1>1. {i \in DOMAIN <<>> : <<>>[i] = t} = {}
  OBVIOUS
<1> QED BY <1>1, FS_EmptySet DEF Times

\* A thread that is appended is there once more.
LEMMA TimesAppend ==
  ASSUME NEW T, NEW q \in Seq(T), NEW x \in T, NEW t
  PROVE  Times(t, Append(q, x)) = Times(t, q) + One(x = t)
<1> DEFINE n == Len(q)
           p == Append(q, x)
           before == {i \in DOMAIN q : q[i] = t}
           after  == {i \in DOMAIN p : p[i] = t}
<1>1. /\ n \in Nat /\ DOMAIN q = 1 .. n /\ DOMAIN p = 1 .. n + 1
      /\ \A i \in 1 .. n : p[i] = q[i]
      /\ p[n + 1] = x
  OBVIOUS
<1>2. IsFiniteSet(before) /\ Cardinality(before) \in Nat
  BY TimesType, FS_CardinalityType
<1>3. n + 1 \notin before
  BY <1>1
<1>4. CASE x = t
  <2>1. after = before \cup {n + 1}
    BY <1>1, <1>4
  <2> QED BY <1>2, <1>3, <1>4, <2>1, FS_AddElement DEF Times, One
<1>5. CASE x # t
  <2>1. after = before
    BY <1>1, <1>5
  <2>2. Times(t, p) = Cardinality(after) /\ Times(t, q) = Cardinality(before)
    BY DEF Times
  <2> HIDE DEF p, before, after
  <2> QED BY <1>2, <1>5, <2>1, <2>2 DEF One, p
<1> QED BY <1>4, <1>5

\* The first thread of a queue is there once less in the rest.
LEMMA TimesTail ==
  ASSUME NEW T, NEW q \in Seq(T), q # <<>>, NEW t
  PROVE  /\ Head(q) \in T /\ Tail(q) \in Seq(T)
         /\ Times(t, q) = Times(t, Tail(q)) + One(Head(q) = t)
<1> DEFINE n == Len(q)
           p == Tail(q)
           all  == {i \in DOMAIN q : q[i] = t}
           rest == {i \in DOMAIN p : p[i] = t}
           late == {i \in 2 .. n : q[i] = t}
<1>1. /\ n \in Nat \ {0} /\ DOMAIN q = 1 .. n /\ DOMAIN p = 1 .. n - 1
      /\ \A i \in 1 .. n - 1 : p[i] = q[i + 1]
      /\ Head(q) = q[1] /\ Head(q) \in T /\ p \in Seq(T)
  OBVIOUS
<1>2. IsFiniteSet(rest) /\ Cardinality(rest) \in Nat
  BY <1>1, TimesType, FS_CardinalityType
<1>3. IsFiniteSet(late) /\ Cardinality(late) = Cardinality(rest)
  <2> DEFINE f == [i \in rest |-> i + 1]
  <2>1. f \in Bijection(rest, late)
    <3>1. f \in [rest -> late]
      BY <1>1
    <3>2. \A i, j \in rest : f[i] = f[j] => i = j
      BY <1>1
    <3>3. \A k \in late : \E i \in rest : f[i] = k
      <4> SUFFICES ASSUME NEW k \in late PROVE k - 1 \in rest /\ f[k - 1] = k
        OBVIOUS
      <4> QED BY <1>1
    <3> QED BY <3>1, <3>2, <3>3, Fun_IsBij
  <2>2. ExistsBijection(rest, late)
    BY <2>1 DEF ExistsBijection
  <2> QED BY <1>2, <2>2, FS_Bijection
<1>4. 1 \notin late
  OBVIOUS
<1>5. CASE Head(q) = t
  <2>1. all = late \cup {1}
    BY <1>1, <1>5
  <2> QED BY <1>1, <1>2, <1>3, <1>4, <1>5, <2>1, FS_AddElement DEF Times, One
<1>6. CASE Head(q) # t
  <2>1. all = late
    BY <1>1, <1>6
  <2>2. Times(t, q) = Cardinality(all) /\ Times(t, p) = Cardinality(rest)
    BY DEF Times
  <2> HIDE DEF p, all, late, rest
  <2> QED BY <1>1, <1>2, <1>3, <1>6, <2>1, <2>2 DEF One, p
<1> QED BY <1>5, <1>6

-----------------------------------------------------------------------------
(***************************************************************************)
(* The operations.                                                         *)
(***************************************************************************)

LEMMA PlacesType ==
  ASSUME NEW T, NEW s \in SchedulerStates(T), NEW t
  PROVE  Places(s, t) \in Nat
<1>1. s.rdyQ1 \in Seq(T) /\ s.rdyQ2 \in Seq(T)
  BY DEF SchedulerStates
<1>2. Times(t, s.rdyQ1) \in Nat /\ Times(t, s.rdyQ2) \in Nat
  BY <1>1, TimesType
<1> QED BY <1>2 DEF Places

\* Critical sections are entered and left on the processor.
LEMMA PlacesBegin ==
  ASSUME NEW T, NEW s \in SchedulerStates(T)
  PROVE  /\ atomicBegin(s) \in SchedulerStates(T)
         /\ atomicBegin(s).atomic = s.atomic + 1 /\ atomicBegin(s).cur = s.cur
         /\ \A t : Places(atomicBegin(s), t) = Places(s, t)
<1> DEFINE r == atomicBegin(s)
           n == s.atomic + 1
<1>1. n \in Nat /\ r = [s EXCEPT !.atomic = n]
  BY DEF SchedulerStates, atomicBegin
<1> HIDE DEF r, n
<1>2. /\ r \in SchedulerStates(T) /\ r.atomic = n /\ r.cur = s.cur
      /\ r.rdyQ1 = s.rdyQ1 /\ r.rdyQ2 = s.rdyQ2
  BY <1>1 DEF SchedulerStates
<1> QED BY <1>2 DEF Places, r, n

LEMMA PlacesEnd ==
  ASSUME NEW T, NEW s \in SchedulerStates(T), s.atomic > 0
  PROVE  /\ atomicEnd(s) \in SchedulerStates(T)
         /\ atomicEnd(s).atomic = s.atomic - 1 /\ atomicEnd(s).cur = s.cur
         /\ \A t : Places(atomicEnd(s), t) = Places(s, t)
<1> DEFINE r == atomicEnd(s)
           n == s.atomic - 1
<1>1. n \in Nat /\ r = [s EXCEPT !.atomic = n]
  BY DEF SchedulerStates, atomicEnd
<1> HIDE DEF r, n
<1>2. /\ r \in SchedulerStates(T) /\ r.atomic = n /\ r.cur = s.cur
      /\ r.rdyQ1 = s.rdyQ1 /\ r.rdyQ2 = s.rdyQ2
  BY <1>1 DEF SchedulerStates
<1> QED BY <1>2 DEF Places, r, n

LEMMA PlacesMarked ==
  ASSUME NEW T, NEW s \in SchedulerStates(T), NEW m \in SUBSET T,
         NEW r, r = [s EXCEPT !.marked = m]
  PROVE  /\ r \in SchedulerStates(T) /\ r.atomic = s.atomic /\ r.cur = s.cur
         /\ \A t : Places(r, t) = Places(s, t)
<1>1. /\ r \in SchedulerStates(T) /\ r.atomic = s.atomic /\ r.cur = s.cur
      /\ r.rdyQ1 = s.rdyQ1 /\ r.rdyQ2 = s.rdyQ2
  BY DEF SchedulerStates
<1> QED BY <1>1 DEF Places

\* Thread x is made ready.
LEMMA PlacesReady ==
  ASSUME NEW T, NEW s \in SchedulerStates(T), NEW x \in T
  PROVE  /\ ready(s, x) \in SchedulerStates(T)
         /\ ready(s, x).atomic = s.atomic /\ ready(s, x).cur = s.cur
         /\ \A t : Places(ready(s, x), t) = Places(s, t) + One(x = t)
<1>1. s.rdyQ1 \in Seq(T) /\ s.rdyQ2 \in Seq(T)
  BY DEF SchedulerStates
<1>2. /\ ready(s, x) \in SchedulerStates(T)
      /\ ready(s, x).atomic = s.atomic /\ ready(s, x).cur = s.cur
      /\ ready(s, x).rdyQ1 = Append(s.rdyQ1, x) /\ ready(s, x).rdyQ2 = s.rdyQ2
  <2> DEFINE y == Append(s.rdyQ1, x)
             r == ready(s, x)
  <2>1. y \in Seq(T) /\ r = [s EXCEPT !.rdyQ1 = y]
    BY <1>1 DEF ready
  <2> HIDE DEF y, r
  <2>2. /\ r \in SchedulerStates(T) /\ r.atomic = s.atomic /\ r.cur = s.cur
        /\ r.rdyQ1 = y /\ r.rdyQ2 = s.rdyQ2
    BY <2>1 DEF SchedulerStates
  <2> QED BY <2>2 DEF y, r
<1>3. ASSUME NEW t PROVE Places(ready(s, x), t) = Places(s, t) + One(x = t)
  <2>1. Times(t, Append(s.rdyQ1, x)) = Times(t, s.rdyQ1) + One(x = t)
    BY <1>1, TimesAppend
  <2>2. Times(t, s.rdyQ1) \in Nat /\ Times(t, s.rdyQ2) \in Nat
    BY <1>1, TimesType
  <2> QED BY <1>2, <2>1, <2>2 DEF Places, One
<1> QED BY <1>2, <1>3

\* The processor passes from s.cur to x.
LEMMA PlacesSwitch ==
  ASSUME NEW T, NEW s \in SchedulerStates(T), NEW x \in T \cup {NoThread},
         s.cur \in T, s.atomic > 0
  PROVE  /\ atomicSwitch(s, x) \in SchedulerStates(T)
         /\ atomicSwitch(s, x).atomic = s.atomic - 1 /\ atomicSwitch(s, x).cur = x
         /\ \A t : Places(atomicSwitch(s, x), t) =
                     Places(s, t) - One(s.cur = t) + One(x = t)
<1>1. s.rdyQ1 \in Seq(T) /\ s.rdyQ2 \in Seq(T)
  BY DEF SchedulerStates
<1>2. /\ atomicSwitch(s, x) \in SchedulerStates(T)
      /\ atomicSwitch(s, x).atomic = s.atomic - 1 /\ atomicSwitch(s, x).cur = x
      /\ atomicSwitch(s, x).rdyQ1 = s.rdyQ1 /\ atomicSwitch(s, x).rdyQ2 = s.rdyQ2
  <2> DEFINE m == s.marked \cup {s.cur}
             n == s.atomic - 1
             r == atomicSwitch(s, x)
  <2>1. m \in SUBSET T /\ n \in Nat /\ r = [s EXCEPT !.marked = m, !.cur = x, !.atomic = n]
    BY DEF SchedulerStates, atomicSwitch
  <2> HIDE DEF m, n, r
  <2>2. /\ r \in SchedulerStates(T) /\ r.atomic = n /\ r.cur = x
        /\ r.rdyQ1 = s.rdyQ1 /\ r.rdyQ2 = s.rdyQ2
    BY <2>1 DEF SchedulerStates
  <2> QED BY <2>2 DEF n, r
<1>3. ASSUME NEW t
      PROVE  Places(atomicSwitch(s, x), t) = Places(s, t) - One(s.cur = t) + One(x = t)
  <2>1. Times(t, s.rdyQ1) \in Nat /\ Times(t, s.rdyQ2) \in Nat
    BY <1>1, TimesType
  <2> QED BY <1>2, <2>1 DEF Places, One
<1> QED BY <1>2, <1>3

\* The next thread leaves its queue.
LEMMA PlacesDequeued ==
  ASSUME NEW T, NoThread \notin T, NEW s \in SchedulerStates(T)
  PROVE  /\ dequeued(s) \in SchedulerStates(T) /\ next(s) \in T \cup {NoThread}
         /\ dequeued(s).atomic = s.atomic /\ dequeued(s).cur = s.cur
         /\ \A t \in T : Places(dequeued(s), t) = Places(s, t) - One(next(s) = t)
<1>1. s.rdyQ1 \in Seq(T) /\ s.rdyQ2 \in Seq(T)
  BY DEF SchedulerStates
<1>2. \A t : Times(t, s.rdyQ1) \in Nat /\ Times(t, s.rdyQ2) \in Nat
  BY <1>1, TimesType
<1>3. CASE s.rdyQ1 # <<>>
  <2>1. /\ Head(s.rdyQ1) \in T /\ Tail(s.rdyQ1) \in Seq(T)
        /\ \A t : /\ Times(t, Tail(s.rdyQ1)) \in Nat
                  /\ Times(t, s.rdyQ1) = Times(t, Tail(s.rdyQ1)) + One(Head(s.rdyQ1) = t)
    BY <1>1, <1>3, TimesTail, TimesType
  <2>2. /\ dequeued(s) \in SchedulerStates(T) /\ next(s) = Head(s.rdyQ1)
        /\ dequeued(s).atomic = s.atomic /\ dequeued(s).cur = s.cur
        /\ dequeued(s).rdyQ1 = Tail(s.rdyQ1) /\ dequeued(s).rdyQ2 = s.rdyQ2
    <3> DEFINE y == Tail(s.rdyQ1)
               r == dequeued(s)
    <3>1. y \in Seq(T) /\ r = [s EXCEPT !.rdyQ1 = y] /\ next(s) = Head(s.rdyQ1)
      BY <1>3, <2>1 DEF dequeued, next
    <3> HIDE DEF y, r
    <3>2. /\ r \in SchedulerStates(T) /\ r.atomic = s.atomic /\ r.cur = s.cur
          /\ r.rdyQ1 = y /\ r.rdyQ2 = s.rdyQ2
      BY <3>1 DEF SchedulerStates
    <3> QED BY <3>1, <3>2 DEF y, r
  <2>3. ASSUME NEW t \in T PROVE Places(dequeued(s), t) = Places(s, t) - One(next(s) = t)
    BY <1>2, <2>1, <2>2 DEF Places, One
  <2> QED BY <2>1, <2>2, <2>3
<1>4. CASE s.rdyQ1 = <<>> /\ s.rdyQ2 # <<>>
  <2>1. /\ Head(s.rdyQ2) \in T /\ Tail(s.rdyQ2) \in Seq(T)
        /\ \A t : /\ Times(t, Tail(s.rdyQ2)) \in Nat
                  /\ Times(t, s.rdyQ2) = Times(t, Tail(s.rdyQ2)) + One(Head(s.rdyQ2) = t)
    BY <1>1, <1>4, TimesTail, TimesType
  <2>2. /\ dequeued(s) \in SchedulerStates(T) /\ next(s) = Head(s.rdyQ2)
        /\ dequeued(s).atomic = s.atomic /\ dequeued(s).cur = s.cur
        /\ dequeued(s).rdyQ1 = s.rdyQ1 /\ dequeued(s).rdyQ2 = Tail(s.rdyQ2)
    <3> DEFINE y == Tail(s.rdyQ2)
               r == dequeued(s)
    <3>1. y \in Seq(T) /\ r = [s EXCEPT !.rdyQ2 = y] /\ next(s) = Head(s.rdyQ2)
      BY <1>4, <2>1 DEF dequeued, next
    <3> HIDE DEF y, r
    <3>2. /\ r \in SchedulerStates(T) /\ r.atomic = s.atomic /\ r.cur = s.cur
          /\ r.rdyQ2 = y /\ r.rdyQ1 = s.rdyQ1
      BY <3>1 DEF SchedulerStates
    <3> QED BY <3>1, <3>2 DEF y, r
  <2>3. ASSUME NEW t \in T PROVE Places(dequeued(s), t) = Places(s, t) - One(next(s) = t)
    BY <1>2, <2>1, <2>2 DEF Places, One
  <2> QED BY <2>1, <2>2, <2>3
<1>5. CASE s.rdyQ1 = <<>> /\ s.rdyQ2 = <<>>
  <2>1. dequeued(s) = s /\ next(s) = NoThread
    BY <1>5 DEF dequeued, next
  <2>2. \A t : Places(s, t) \in Nat
    BY PlacesType
  <2> QED BY <2>1, <2>2 DEF One
<1> QED BY <1>3, <1>4, <1>5

\* The processor passes from s.cur to the next thread.
LEMMA PlacesSwitchToNext ==
  ASSUME NEW T, NoThread \notin T, NEW s \in SchedulerStates(T), s.cur \in T, s.atomic > 0
  PROVE  /\ atomicSwitchToNext(s) \in SchedulerStates(T)
         /\ atomicSwitchToNext(s).atomic = s.atomic - 1
         /\ \A t \in T : Places(atomicSwitchToNext(s), t) = Places(s, t) - One(s.cur = t)
<1> DEFINE d == dequeued(s)
<1>1. /\ d \in SchedulerStates(T) /\ next(s) \in T \cup {NoThread}
      /\ d.atomic = s.atomic /\ d.cur = s.cur
      /\ \A t \in T : Places(d, t) = Places(s, t) - One(next(s) = t)
  BY PlacesDequeued
<1> HIDE DEF d
<1>2. /\ atomicSwitch(d, next(s)) \in SchedulerStates(T)
      /\ atomicSwitch(d, next(s)).atomic = d.atomic - 1
      /\ \A t : Places(atomicSwitch(d, next(s)), t) =
                  Places(d, t) - One(d.cur = t) + One(next(s) = t)
  BY <1>1, PlacesSwitch
<1>3. \A t : Places(s, t) \in Nat
  BY PlacesType
<1> QED BY <1>1, <1>2, <1>3 DEF atomicSwitchToNext, One, d

\* The end of a quantum.
LEMMA PlacesPreempt ==
  ASSUME NEW T, NoThread \notin T, NEW s \in SchedulerStates(T), s.cur \in T
  PROVE  /\ alrmHandler(s) \in SchedulerStates(T) /\ alrmHandler(s).atomic = s.atomic
         /\ \A t \in T : Places(alrmHandler(s), t) = Places(s, t)
<1> DEFINE p == preempt(s)
<1>1. /\ s.rdyQ1 \in Seq(T) /\ s.rdyQ2 \in Seq(T)
      /\ \A t : Times(t, s.rdyQ1) \in Nat /\ Times(t, s.rdyQ2) \in Nat
  BY TimesType DEF SchedulerStates
<1>2. /\ p \in SchedulerStates(T) /\ p.atomic = s.atomic /\ p.cur = s.cur
      /\ \A t : Places(p, t) = Places(s, t) + One(s.cur = t)
  <2>1. CASE s.cur \in s.marked
    <3> DEFINE u == [s EXCEPT !.marked = @ \ {s.cur}]
    <3>1. /\ u \in SchedulerStates(T) /\ u.atomic = s.atomic /\ u.cur = s.cur
          /\ u.rdyQ1 = s.rdyQ1 /\ u.rdyQ2 = s.rdyQ2
      <4> DEFINE m == s.marked \ {s.cur}
      <4>1. m \in SUBSET T /\ u = [s EXCEPT !.marked = m]
        BY DEF SchedulerStates
      <4> HIDE DEF m, u
      <4> QED BY <4>1 DEF SchedulerStates
    <3>2. p = ready(promote(u), s.cur)
      BY <2>1 DEF preempt
    <3>3. /\ promote(u) \in SchedulerStates(T)
          /\ promote(u).atomic = s.atomic /\ promote(u).cur = s.cur
          /\ \A t : Places(promote(u), t) = Places(s, t)
      <4> HIDE DEF u
      <4>1. CASE s.rdyQ2 = <<>>
        BY <3>1, <4>1 DEF promote, Places
      <4>2. CASE s.rdyQ2 # <<>>
        <5>1. /\ Head(s.rdyQ2) \in T /\ Tail(s.rdyQ2) \in Seq(T)
              /\ \A t : /\ Times(t, Tail(s.rdyQ2)) \in Nat
                        /\ Times(t, s.rdyQ2) = Times(t, Tail(s.rdyQ2)) + One(Head(s.rdyQ2) = t)
          BY <1>1, <4>2, TimesTail, TimesType
        <5>2. \A t : Times(t, Append(s.rdyQ1, Head(s.rdyQ2))) =
                      Times(t, s.rdyQ1) + One(Head(s.rdyQ2) = t)
          BY <1>1, <5>1, TimesAppend
        <5>3. /\ promote(u) \in SchedulerStates(T)
              /\ promote(u).atomic = s.atomic /\ promote(u).cur = s.cur
              /\ promote(u).rdyQ1 = Append(s.rdyQ1, Head(s.rdyQ2))
              /\ promote(u).rdyQ2 = Tail(s.rdyQ2)
          <6> DEFINE y == Append(s.rdyQ1, Head(s.rdyQ2))
                     z == Tail(s.rdyQ2)
                     r == promote(u)
          <6>1. y \in Seq(T) /\ z \in Seq(T) /\ r = [u EXCEPT !.rdyQ1 = y, !.rdyQ2 = z]
            <7>1. s.rdyQ1 \in Seq(T) /\ z \in Seq(T) /\ Head(s.rdyQ2) \in T
              BY <1>1, <5>1
            <7>2. y \in Seq(T)
              BY <7>1, AppendProperties
            <7>3. u.rdyQ1 = s.rdyQ1 /\ u.rdyQ2 = s.rdyQ2 /\ u.rdyQ2 # <<>>
              BY <3>1, <4>2
            <7>4. r = [u EXCEPT !.rdyQ1 = Append(@, Head(u.rdyQ2)), !.rdyQ2 = Tail(@)]
              BY <7>3 DEF promote
            <7>5. r = [u EXCEPT !.rdyQ1 = y, !.rdyQ2 = z]
              BY <7>3, <7>4
            <7> HIDE DEF y, z, r
            <7> QED BY <7>1, <7>2, <7>5
          <6> HIDE DEF y, z, r
          <6>2. /\ r \in SchedulerStates(T) /\ r.atomic = s.atomic /\ r.cur = s.cur
                /\ r.rdyQ1 = y /\ r.rdyQ2 = z
            BY <3>1, <6>1 DEF SchedulerStates
          <6> QED BY <6>2 DEF y, z, r
        <5> QED BY <1>1, <5>1, <5>2, <5>3 DEF Places, One
      <4> QED BY <4>1, <4>2
    <3> HIDE DEF p, u
    <3> QED BY <3>2, <3>3, PlacesReady
  <2>2. CASE s.cur \notin s.marked
    <3>1. /\ p \in SchedulerStates(T) /\ p.atomic = s.atomic /\ p.cur = s.cur
          /\ p.rdyQ1 = s.rdyQ1 /\ p.rdyQ2 = Append(s.rdyQ2, s.cur)
      <4> DEFINE y == Append(s.rdyQ2, s.cur)
      <4>1. y \in Seq(T) /\ p = [s EXCEPT !.rdyQ2 = y]
        BY <1>1, <2>2 DEF preempt
      <4> HIDE DEF y, p
      <4>2. /\ p \in SchedulerStates(T) /\ p.atomic = s.atomic /\ p.cur = s.cur
            /\ p.rdyQ1 = s.rdyQ1 /\ p.rdyQ2 = y
        BY <4>1 DEF SchedulerStates
      <4> QED BY <4>2 DEF y
    <3>2. \A t : Times(t, Append(s.rdyQ2, s.cur)) = Times(t, s.rdyQ2) + One(s.cur = t)
      BY <1>1, TimesAppend
    <3> QED BY <1>1, <3>1, <3>2 DEF Places, One
  <2> QED BY <2>1, <2>2
<1> DEFINE d == dequeued(p)
<1> HIDE DEF p
<1>3. /\ d \in SchedulerStates(T) /\ next(p) \in T \cup {NoThread}
      /\ d.atomic = p.atomic /\ d.cur = p.cur
      /\ \A t \in T : Places(d, t) = Places(p, t) - One(next(p) = t)
  BY <1>2, PlacesDequeued
<1> HIDE DEF d
<1>4. alrmHandler(s) = [d EXCEPT !.cur = next(p)]
  BY DEF alrmHandler, d, p
<1> DEFINE r == alrmHandler(s)
           n == next(p)
<1> HIDE DEF r, n
<1>5. /\ r \in SchedulerStates(T) /\ r.atomic = d.atomic /\ r.cur = n
      /\ r.rdyQ1 = d.rdyQ1 /\ r.rdyQ2 = d.rdyQ2
  <2>1. n \in T \cup {NoThread} /\ r = [d EXCEPT !.cur = n]
    BY <1>3, <1>4 DEF r, n
  <2> QED BY <1>3, <2>1 DEF SchedulerStates
<1>6. \A t : Places(r, t) = Places(d, t) - One(d.cur = t) + One(n = t)
  <2>1. \A t : Times(t, d.rdyQ1) \in Nat /\ Times(t, d.rdyQ2) \in Nat
    BY <1>3, TimesType DEF SchedulerStates
  <2> QED BY <1>5, <2>1 DEF Places, One
<1>7. \A t : Places(s, t) \in Nat
  BY PlacesType
<1> QED BY <1>2, <1>3, <1>5, <1>6, <1>7 DEF One, r, n

\* RunCML.doit: each thread has one place, in whatever order they start.
OnePlaceEach(s, T, o, n) ==
  /\ s \in SchedulerStates(T) /\ s.atomic = 0
  /\ \A e : /\ (\E i \in 1 .. n : o[i] = e) => Places(s, e) = 1
            /\ (\A i \in 1 .. n : o[i] # e) => Places(s, e) = 0

LEMMA PlacesStarted ==
  ASSUME NEW T, NEW n \in Nat \ {0}, NEW o \in [1 .. n -> T],
         \A i, j \in 1 .. n : o[i] = o[j] => i = j,
         NEW q \in Seq(T), DOMAIN q = 1 .. (n - 1), \A i \in 1 .. (n - 1) : q[i] = o[i + 1],
         NEW s, s = Started(o[1], q)
  PROVE  OnePlaceEach(s, T, o, n)
<1>1. /\ q \in Seq(T) /\ DOMAIN q = 1 .. (n - 1)
      /\ \A i \in 1 .. (n - 1) : q[i] = o[i + 1]
  OBVIOUS
<1>2. /\ s.cur = o[1] /\ s.rdyQ1 = q /\ s.rdyQ2 = <<>>
      /\ s.atomic = 0 /\ s \in SchedulerStates(T)
  <2> QED BY <1>1 DEF Started, SchedulerStates
<1>3. ASSUME NEW e 
      PROVE  /\ (\E i \in 1 .. n : o[i] = e) => Places(s, e) = 1
             /\ (\A i \in 1 .. n : o[i] # e) => Places(s, e) = 0
  <2> DEFINE I == {i \in DOMAIN q : q[i] = e}
  <2>1. Places(s, e) = One(o[1] = e) + Cardinality(I)
    <3>1. Times(e, q) \in Nat
      BY <1>1, TimesType
    <3>2. Times(e, <<>>) = 0
      BY TimesEmpty
    <3>3. Times(e, q) = Cardinality(I)
      BY DEF Times
    <3> HIDE DEF I
    <3> QED BY <1>2, <3>1, <3>2, <3>3 DEF Places, One
  <2>2. CASE \A i \in 1 .. n : o[i] # e
    <3>1. I = {} /\ o[1] # e
      BY <1>1, <2>2
    <3> HIDE DEF I
    <3> QED BY <2>1, <2>2, <3>1, FS_EmptySet DEF One
  <2>3. CASE \E i \in 1 .. n : o[i] = e
    <3>1. PICK k \in 1 .. n : o[k] = e
      BY <2>3
    <3>2. \A i \in 1 .. n : o[i] = e <=> i = k
      BY <3>1
    <3>3. CASE k = 1
      <4>1. I = {} /\ o[1] = e
        BY <1>1, <3>2, <3>3
      <4> HIDE DEF I
      <4> QED BY <2>1, <2>3, <4>1, FS_EmptySet DEF One
    <3>4. CASE k # 1
      <4>1. I = {k - 1}
        BY <1>1, <3>2, <3>4
      <4>2. o[1] # e
        BY <3>2, <3>4
      <4> HIDE DEF I
      <4>3. Cardinality(I) = 1
        BY <4>1, FS_Singleton
      <4> QED BY <2>1, <2>3, <4>2, <4>3 DEF One
    <3> QED BY <3>3, <3>4
  <2> QED BY <2>2, <2>3
<1> QED BY <1>2, <1>3 DEF OnePlaceEach

-----------------------------------------------------------------------------
(***************************************************************************)
(* Filtering and reversing, by induction on sequences.                     *)
(***************************************************************************)
LEMMA InductionOnSeq ==
  ASSUME NEW X, NEW T, <<>> \in T,
         \A s \in Seq(X) : \A e \in X : s \in T => Append(s, e) \in T
  PROVE  Seq(X) \subseteq T
<1> DEFINE N == {n \in Nat : \A s \in Seq(X) : Len(s) = n => s \in T}
<1>1. 0 \in N
  <2>1. \A s \in Seq(X) : Len(s) = 0 => s = <<>>
    BY EmptySeq
  <2> QED BY <2>1
<1>2. ASSUME NEW n \in Nat, n \in N PROVE n + 1 \in N
  <2> SUFFICES ASSUME NEW s \in Seq(X), Len(s) = n + 1 PROVE s \in T
    OBVIOUS
  <2>1. s # <<>>
    BY EmptySeq
  <2>2. PICK r \in Seq(X), e \in X : s = Append(r, e)
    BY <2>1, SequenceEmptyOrAppend
  <2>3. Len(s) = Len(r) + 1 /\ Len(r) \in Nat
    BY <2>2, AppendProperties, LenProperties
  <2>4. Len(r) = n
    BY <2>3
  <2> QED BY <1>2, <2>2, <2>4
<1>3. Nat \subseteq N
  <2> HIDE DEF N
  <2> QED BY <1>1, <1>2, InductionOnNat
<1> QED BY <1>3, LenProperties

LEMMA AmongAppend ==
  ASSUME NEW X, NEW q \in Seq(X), NEW x \in X, NEW S
  PROVE  Among(Append(q, x), S) = IF x \in S THEN Append(Among(q, S), x) ELSE Among(q, S)
<1> DEFINE r == Append(q, x)
           F == Filtered(q, S)
           G == Filtered(r, S)
           N == {n \in Nat : n <= Len(q) => G[n] = F[n]}
<1>1. /\ Len(q) \in Nat /\ Len(r) = Len(q) + 1 /\ Len(r) \in Nat /\ r[Len(q) + 1] = x
      /\ \A i \in 1 .. Len(q) : r[i] = q[i]
  BY AppendProperties, LenProperties
<1>2. /\ \A n \in 0 .. Len(q) : F[n] = FilterStep(q, S, F, n)
      /\ \A n \in 0 .. Len(r) : G[n] = FilterStep(r, S, G, n)
  BY <1>1, FilteredDef
<1> HIDE DEF r, F, G
<1>3. 0 \in N
  BY <1>1, <1>2 DEF FilterStep
<1>4. ASSUME NEW n \in Nat, n \in N PROVE n + 1 \in N
  <2> SUFFICES ASSUME n + 1 <= Len(q) PROVE G[n + 1] = F[n + 1]
    OBVIOUS
  <2>1. /\ n + 1 \in 0 .. Len(q) /\ n + 1 \in 0 .. Len(r) /\ n + 1 \in 1 .. Len(q) /\ n + 1 # 0
        /\ (n + 1) - 1 = n /\ n <= Len(q)
    BY <1>1
  <2> QED BY <1>1, <1>2, <1>4, <2>1 DEF FilterStep
<1>5. Nat \subseteq N
  <2> HIDE DEF N
  <2> QED BY <1>3, <1>4, InductionOnNat
<1>6. G[Len(q)] = F[Len(q)]
  BY <1>1, <1>5
<1>7. G[Len(q) + 1] = IF x \in S THEN Append(G[Len(q)], x) ELSE G[Len(q)]
  <2>1. Len(q) + 1 \in 0 .. Len(r) /\ Len(q) + 1 # 0 /\ (Len(q) + 1) - 1 = Len(q)
    BY <1>1
  <2> QED BY <1>1, <1>2, <2>1 DEF FilterStep
<1>8. Among(r, S) = G[Len(q) + 1] /\ Among(q, S) = F[Len(q)]
  BY <1>1 DEF Among, F, G
<1> QED BY <1>6, <1>7, <1>8 DEF r

LEMMA AmongEmpty == ASSUME NEW S PROVE Among(<<>>, S) = <<>>
<1>1. Len(<<>>) = 0
  OBVIOUS
<1>2. Filtered(<<>>, S)[0] = FilterStep(<<>>, S, Filtered(<<>>, S), 0)
  BY <1>1, FilteredDef
<1> QED BY <1>1, <1>2 DEF Among, FilterStep

\* Filtering distributes over concatenation.
LEMMA AmongConcat ==
  ASSUME NEW X, NEW a \in Seq(X), NEW b \in Seq(X), NEW S
  PROVE  Among(a \o b, S) = Among(a, S) \o Among(b, S)
<1> DEFINE T == {c \in Seq(X) : Among(a \o c, S) = Among(a, S) \o Among(c, S)}
<1>1. \A c \in Seq(X) : Among(c, S) \in Seq(X)
  <2>1. \A c \in Seq(X) : Among(c, S) \in Seq(X \cap S)
    BY AmongElements
  <2> QED BY <2>1, SeqMonotonic
<1>2. <<>> \in T
  BY <1>1, AmongEmpty, ConcatEmptySeq, EmptySeq
<1>3. ASSUME NEW c \in Seq(X), NEW e \in X, c \in T PROVE Append(c, e) \in T
  <2>1. \A d \in Seq(X) : Append(d, e) = d \o <<e>> /\ Append(d, e) \in Seq(X)
    BY AppendIsConcat, AppendProperties
  <2>2. <<e>> \in Seq(X) /\ a \o c \in Seq(X)
    BY ConcatProperties
  <2>3. a \o Append(c, e) = Append(a \o c, e)
    BY <2>1, <2>2, ConcatAssociative
  <2>4. Among(Append(c, e), S) = IF e \in S THEN Append(Among(c, S), e) ELSE Among(c, S)
    BY AmongAppend
  <2>5. Among(Append(a \o c, e), S) =
          IF e \in S THEN Append(Among(a \o c, S), e) ELSE Among(a \o c, S)
    BY <2>2, AmongAppend
  <2>6. Among(a, S) \o Append(Among(c, S), e) = Append(Among(a, S) \o Among(c, S), e)
    <3>1. Among(a, S) \in Seq(X) /\ Among(c, S) \in Seq(X)
      BY <1>1
    <3>2. Among(a, S) \o Among(c, S) \in Seq(X)
      BY <3>1, ConcatProperties
    <3> QED BY <2>1, <2>2, <3>1, <3>2, ConcatAssociative
  <2> QED BY <1>3, <2>1, <2>3, <2>4, <2>5, <2>6
<1>4. Seq(X) \subseteq T
  <2> HIDE DEF T
  <2> QED BY <1>2, <1>3, InductionOnSeq
<1> QED BY <1>4

LEMMA ReverseFacts ==
  ASSUME NEW X, NEW q \in Seq(X)
  PROVE  /\ Reverse(q) \in Seq(X) /\ Len(Reverse(q)) = Len(q)
         /\ \A i \in 1 .. Len(q) : Reverse(q)[i] = q[(Len(q) - i) + 1]
         /\ Reverse(q) = <<>> <=> q = <<>>
<1> DEFINE n == Len(q)
<1>1. n \in Nat /\ \A i \in 1 .. n : q[i] \in X
  BY LenProperties
<1>2. Reverse(q) = [i \in 1 .. n |-> q[(n - i) + 1]]
  BY DEF Reverse
<1> HIDE DEF n
<1>3. \A i \in 1 .. n : (n - i) + 1 \in 1 .. n
  BY <1>1
<1>4. Reverse(q) \in [1 .. n -> X]
  BY <1>1, <1>2, <1>3
<1>5. Reverse(q) \in Seq(X)
  BY <1>1, <1>4, SeqDef
<1>6. DOMAIN Reverse(q) = 1 .. Len(Reverse(q)) /\ Len(Reverse(q)) \in Nat
  BY <1>5, LenProperties
<1>7. DOMAIN Reverse(q) = 1 .. n
  BY <1>2
<1>8. Len(Reverse(q)) = n
  <2>1. \A k, m \in Nat : 1 .. k = 1 .. m => k = m
    OBVIOUS
  <2> QED BY <1>1, <1>6, <1>7, <2>1
<1>9. Reverse(q) = <<>> <=> q = <<>>
  <2>1. \A s \in Seq(X) : s = <<>> <=> Len(s) = 0
    BY EmptySeq
  <2> QED BY <1>5, <1>8, <2>1 DEF n
<1> QED BY <1>2, <1>5, <1>8, <1>9 DEF n

LEMMA ReverseAppend ==
  ASSUME NEW X, NEW q \in Seq(X), NEW x \in X
  PROVE  Reverse(Append(q, x)) = <<x>> \o Reverse(q)
<1> DEFINE r == Append(q, x)
           n == Len(q)
           u == Reverse(r)
           v == <<x>> \o Reverse(q)
<1>1. /\ n \in Nat /\ r \in Seq(X) /\ Len(r) = n + 1 /\ r[n + 1] = x
      /\ \A i \in 1 .. n : r[i] = q[i]
  BY AppendProperties, LenProperties
<1>2. /\ u \in Seq(X) /\ Len(u) = n + 1
      /\ \A i \in 1 .. (n + 1) : u[i] = r[((n + 1) - i) + 1]
  <2> HIDE DEF r, n
  <2>1. /\ u \in Seq(X) /\ Len(u) = Len(r)
        /\ \A i \in 1 .. Len(r) : u[i] = r[(Len(r) - i) + 1]
    BY <1>1, ReverseFacts
  <2> QED BY <1>1, <2>1
<1>3. /\ <<x>> \in Seq(X) /\ Len(<<x>>) = 1 /\ <<x>>[1] = x
      /\ Reverse(q) \in Seq(X) /\ Len(Reverse(q)) = n
      /\ \A i \in 1 .. n : Reverse(q)[i] = q[(n - i) + 1]
  BY ReverseFacts
<1>4. /\ v \in Seq(X) /\ Len(v) = 1 + n
      /\ \A i \in 1 .. (1 + n) : v[i] = IF i <= 1 THEN <<x>>[i] ELSE Reverse(q)[i - 1]
  BY <1>3, ConcatProperties
<1> HIDE DEF r, u, v, n
<1>5. ASSUME NEW i \in 1 .. (n + 1) PROVE u[i] = v[i]
  <2>1. CASE i = 1
    <3>1. ((n + 1) - 1) + 1 = n + 1 /\ 1 \in 1 .. (1 + n)
      BY <1>1
    <3> QED BY <1>1, <1>2, <1>3, <1>4, <2>1, <3>1
  <2>2. CASE i # 1
    <3>1. /\ i - 1 \in 1 .. n /\ ((n + 1) - i) + 1 \in 1 .. n /\ ~ (i <= 1) /\ i \in 1 .. (1 + n)
          /\ (n - (i - 1)) + 1 = ((n + 1) - i) + 1
      BY <1>1, <2>2
    <3> QED BY <1>1, <1>2, <1>3, <1>4, <3>1
  <2> QED BY <2>1, <2>2
<1>6. n + 1 = 1 + n
  BY <1>1
<1>7. u = v
  BY <1>2, <1>4, <1>5, <1>6, SeqEqual
<1> QED BY <1>7 DEF u, v, r

LEMMA ReverseCons ==
  ASSUME NEW X, NEW q \in Seq(X), NEW x \in X
  PROVE  Reverse(<<x>> \o q) = Append(Reverse(q), x)
<1> DEFINE T == {c \in Seq(X) : Reverse(<<x>> \o c) = Append(Reverse(c), x)}
<1>1. <<x>> \in Seq(X)
  OBVIOUS
<1>2. <<>> \in T
  <2>1. Reverse(<<>>) = <<>>
    BY EmptySeq, ReverseFacts
  <2>2. <<x>> = Append(<<>>, x)
    OBVIOUS
  <2>3. Reverse(<<x>>) = <<x>>
    <3>1. <<>> \in Seq(X)
      BY EmptySeq
    <3>2. Reverse(Append(<<>>, x)) = <<x>> \o Reverse(<<>>)
      BY <3>1, ReverseAppend
    <3>3. <<x>> \o <<>> = <<x>>
      BY <1>1, ConcatEmptySeq
    <3> QED BY <2>1, <2>2, <3>2, <3>3
  <2> QED BY <1>1, <2>1, <2>2, <2>3, EmptySeq, ConcatEmptySeq
<1>3. ASSUME NEW c \in Seq(X), NEW e \in X, c \in T PROVE Append(c, e) \in T
  <2>1. \A d \in Seq(X) : \A y \in X : Append(d, y) = d \o <<y>> /\ Append(d, y) \in Seq(X)
    BY AppendIsConcat, AppendProperties
  <2>2. <<e>> \in Seq(X) /\ <<x>> \o c \in Seq(X) /\ Reverse(c) \in Seq(X)
        /\ <<e>> \o Reverse(c) \in Seq(X)
    BY <1>1, ConcatProperties, ReverseFacts
  <2>3. <<x>> \o Append(c, e) = Append(<<x>> \o c, e)
    BY <1>1, <2>1, <2>2, ConcatAssociative
  <2>4. Reverse(Append(<<x>> \o c, e)) = <<e>> \o Reverse(<<x>> \o c)
    BY <2>2, ReverseAppend
  <2>5. Reverse(Append(c, e)) = <<e>> \o Reverse(c)
    BY ReverseAppend
  <2>6. <<e>> \o Append(Reverse(c), x) = Append(<<e>> \o Reverse(c), x)
    BY <1>1, <2>1, <2>2, ConcatAssociative
  <2> QED BY <1>3, <2>1, <2>3, <2>4, <2>5, <2>6
<1>4. Seq(X) \subseteq T
  <2> HIDE DEF T
  <2> QED BY <1>2, <1>3, InductionOnSeq
<1> QED BY <1>4

\* Filtering commutes with reversing: filterRev is filter of the reverse.
LEMMA AmongReverse ==
  ASSUME NEW X, NEW q \in Seq(X), NEW S
  PROVE  Among(Reverse(q), S) = Reverse(Among(q, S))
<1> DEFINE T == {c \in Seq(X) : Among(Reverse(c), S) = Reverse(Among(c, S))}
<1>1. \A c \in Seq(X) : Among(c, S) \in Seq(X)
  <2>1. \A c \in Seq(X) : Among(c, S) \in Seq(X \cap S)
    BY AmongElements
  <2> QED BY <2>1, SeqMonotonic
<1>2. <<>> \in T
  <2>1. Reverse(<<>>) = <<>>
    BY EmptySeq, ReverseFacts
  <2> QED BY <2>1, EmptySeq, AmongEmpty
<1>3. ASSUME NEW c \in Seq(X), NEW e \in X, c \in T PROVE Append(c, e) \in T
  <2>1. <<e>> \in Seq(X) /\ Reverse(c) \in Seq(X) /\ Append(c, e) \in Seq(X)
        /\ Among(Reverse(c), S) \in Seq(X)
    BY <1>1, ReverseFacts, AppendProperties
  <2>2. Among(Reverse(Append(c, e)), S) = Among(<<e>>, S) \o Among(Reverse(c), S)
    <3>1. Reverse(Append(c, e)) = <<e>> \o Reverse(c)
      BY ReverseAppend
    <3>2. Among(<<e>> \o Reverse(c), S) = Among(<<e>>, S) \o Among(Reverse(c), S)
      <4> DEFINE a == <<e>>
                 b == Reverse(c)
      <4>1. a \in Seq(X) /\ b \in Seq(X)
        BY <2>1
      <4> HIDE DEF a, b
      <4>2. Among(a \o b, S) = Among(a, S) \o Among(b, S)
        BY <4>1, AmongConcat
      <4> QED BY <4>2 DEF a, b
    <3> QED BY <3>1, <3>2
  <2>3. Among(<<e>>, S) = IF e \in S THEN <<e>> ELSE <<>>
    <3>1. <<e>> = Append(<<>>, e)
      OBVIOUS
    <3>2. <<>> \in Seq(X) /\ Among(<<>>, S) = <<>>
      BY EmptySeq, AmongEmpty
    <3>3. Among(Append(<<>>, e), S) =
            IF e \in S THEN Append(Among(<<>>, S), e) ELSE Among(<<>>, S)
      BY <3>2, AmongAppend
    <3>4. Among(<<e>>, S) = IF e \in S THEN <<e>> ELSE <<>>
      BY <3>1, <3>2, <3>3, Zenon
    <3> QED BY <3>4
  <2>4. Among(Append(c, e), S) = IF e \in S THEN Append(Among(c, S), e) ELSE Among(c, S)
    BY AmongAppend
  <2>5. Reverse(Append(Among(c, S), e)) = <<e>> \o Reverse(Among(c, S))
    BY <1>1, ReverseAppend
  <2> QED BY <1>3, <2>1, <2>2, <2>3, <2>4, <2>5, ConcatEmptySeq
<1>4. Seq(X) \subseteq T
  <2> HIDE DEF T
  <2> QED BY <1>2, <1>3, InductionOnSeq
<1> QED BY <1>4

LEMMA HeadTailConcat ==
  ASSUME NEW X, NEW p \in Seq(X), NEW q \in Seq(X), p # <<>>
  PROVE  Head(p \o q) = Head(p) /\ Tail(p \o q) = Tail(p) \o q /\ p \o q # <<>>
<1> DEFINE T == {c \in Seq(X) : /\ Head(p \o c) = Head(p) /\ Tail(p \o c) = Tail(p) \o c
                                /\ p \o c # <<>>}
<1>1. Tail(p) \in Seq(X)
  BY HeadTailProperties
<1>2. <<>> \in T
  BY <1>1, EmptySeq, ConcatEmptySeq
<1>3. ASSUME NEW c \in Seq(X), NEW e \in X, c \in T PROVE Append(c, e) \in T
  <2>1. \A d \in Seq(X) : Append(d, e) = d \o <<e>> /\ Append(d, e) \in Seq(X)
    BY AppendIsConcat, AppendProperties
  <2>2. <<e>> \in Seq(X) /\ p \o c \in Seq(X) /\ Tail(p) \o c \in Seq(X)
    BY <1>1, ConcatProperties
  <2>3. p \o Append(c, e) = Append(p \o c, e)
    BY <2>1, <2>2, ConcatAssociative
  <2>4. Tail(p) \o Append(c, e) = Append(Tail(p) \o c, e)
    BY <1>1, <2>1, <2>2, ConcatAssociative
  <2>5. /\ Head(Append(p \o c, e)) = Head(p)
        /\ Tail(Append(p \o c, e)) = Append(Tail(p \o c), e)
        /\ Append(p \o c, e) # <<>>
    <3> DEFINE s == p \o c
    <3>1. s \in Seq(X) /\ s # <<>>
      BY <1>3, <2>2
    <3> HIDE DEF s
    <3>2. Head(Append(s, e)) = Head(s) /\ Tail(Append(s, e)) = Append(Tail(s), e)
      BY <3>1, HeadTailAppend
    <3>3. Append(s, e) # <<>>
      BY <3>1, AppendProperties
    <3>4. Head(s) = Head(p)
      BY <1>3 DEF s
    <3> QED BY <3>2, <3>3, <3>4 DEF s
  <2> QED BY <1>3, <2>1, <2>3, <2>4, <2>5
<1>4. Seq(X) \subseteq T
  <2> HIDE DEF T
  <2> QED BY <1>2, <1>3, InductionOnSeq
<1> QED BY <1>4
=============================================================================
