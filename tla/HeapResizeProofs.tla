-------------------------- MODULE HeapResizeProofs --------------------------
(***************************************************************************)
(* Whatever memory the operating system refuses, grants or moves, for any  *)
(* page size, limits, ratios and amounts of live data: no unit of the live *)
(* data is lost, the sizes are pages that add up, and with ratios of 1.1   *)
(* and more the mutator has the room it asked for.                         *)
(*                                                                         *)
(* The arithmetic comes first: pages, maps and the inverse of their size,  *)
(* the ratios, and the search, which stays within its bounds because the   *)
(* bias divides no more than a page.  SizesInv then says what is where in  *)
(* each phase; a step of the runtime preserves it.                         *)
(***************************************************************************)
EXTENDS HeapResize, WellFoundedInduction, TLAPS

\* The values the bias of a search takes.
Biased(F) ==
  /\ F \in SUBSET (1 .. Page) /\ Factor \in F
  /\ \A f \in F : f < Page => 2 * f \in F

LEMMA Constants ==
  /\ Page \in Nat \ {0} /\ CardPages \in Nat \ {0} /\ Chunk \in Nat \ {0}
  /\ Rounds \in Nat \ {0} /\ InitialLive \in Nat \ {0} /\ SizeMax \in Nat
  /\ Allocations \subseteq Nat /\ Requests \subseteq Nat
  /\ \E F : Biased(F)
  /\ Ratios.live \in Nat /\ Ratios.grow \in Nat /\ Ratios.copy \in Nat /\ Ratios.markCompact \in Nat
  /\ Ratios.live >= 100 /\ Ratios.copy >= 100 /\ Ratios.markCompact >= 100
  /\ \A c \in Settings : c.ram \in Nat /\ c.fixedHeap \in Nat /\ c.maxHeap \in Nat
  /\ NoAddress \notin Addresses
<1>1. \E F : Biased(F)
  BY HeapAssumption DEF Biased
<1> QED BY <1>1, HeapAssumption

LEMMA LeastOfNat ==
  ASSUME NEW T, T \subseteq Nat, T # {}
  PROVE  \E n \in T : \A m \in T : n <= m
<1> DEFINE R == OpToRel(<, Nat)
<1>1. IsWellFoundedOn(R, Nat)
  BY NatLessThanWellFounded
<1>2. R = {p \in Nat \X Nat : p[1] < p[2]}
  BY DEF OpToRel
<1> HIDE DEF R
<1>3. PICK n \in T : \A m \in T : <<m, n>> \notin R
  BY <1>1, WFMin
<1>4. ASSUME NEW m \in T PROVE n <= m
  <2>1. <<m, n>> \notin {p \in Nat \X Nat : p[1] < p[2]}
    BY <1>2, <1>3
  <2>2. m \in Nat /\ n \in Nat
    OBVIOUS
  <2>3. ~ (m < n)
    BY <2>1, <2>2
  <2> QED BY <2>2, <2>3
<1> QED BY <1>3, <1>4

LEMMA DivFacts ==
  ASSUME NEW n \in Int, NEW d \in Nat \ {0}
  PROVE  /\ n \div d \in Int /\ n % d \in 0 .. d - 1 /\ n % d \in Int
         /\ n = d * (n \div d) + (n % d)
  OBVIOUS

LEMMA TimesMonotone ==
  ASSUME NEW d \in Nat, NEW i \in Int, NEW j \in Int, i <= j
  PROVE  d * i <= d * j
  OBVIOUS

LEMMA TimesNext ==
  ASSUME NEW d \in Nat, NEW i \in Int
  PROVE  d * (i + 1) = d * i + d
  OBVIOUS

LEMMA DivUnique ==
  ASSUME NEW d \in Nat \ {0}, NEW n \in Int, NEW q \in Int, d * q <= n, n < d * q + d
  PROVE  n \div d = q
<1> DEFINE p == n \div d
<1>1. p \in Int /\ d * p <= n /\ n < d * p + d
  BY DivFacts
<1> HIDE DEF p
<1>2. CASE p < q
  <2>1. d * (p + 1) <= d * q
    BY <1>1, <1>2, TimesMonotone
  <2> QED BY <1>1, <2>1, TimesNext
<1>3. CASE q < p
  <2>1. d * (q + 1) <= d * p
    BY <1>1, <1>3, TimesMonotone
  <2> QED BY <1>1, <2>1, TimesNext
<1> QED BY <1>1, <1>2, <1>3 DEF p

LEMMA MultipleMod ==
  ASSUME NEW d \in Nat \ {0}, NEW k \in Int
  PROVE  (d * k) % d = 0 /\ (d * k) \div d = k
<1> DEFINE n == d * k
<1>1. n \in Int /\ d * k <= n /\ n < d * k + d
  OBVIOUS
<1> HIDE DEF n
<1>2. n \div d = k
  BY <1>1, DivUnique
<1>3. n = d * (n \div d) + (n % d) /\ n % d \in Int
  BY <1>1, DivFacts
<1> QED BY <1>2, <1>3 DEF n

-----------------------------------------------------------------------------
(***************************************************************************)
(* Pages.                                                                  *)
(***************************************************************************)
Paged(n) == n \in Int /\ n % Page = 0

LEMMA PagedFacts ==
  ASSUME NEW m, Paged(m)
  PROVE  m \in Int /\ m \div Page \in Int /\ m = Page * (m \div Page)
<1>1. Page \in Nat \ {0} /\ m \in Int
  BY Constants DEF Paged
<1> QED BY <1>1, DivFacts DEF Paged

\* Two multiples of a page are a page apart or equal.
LEMMA PagesApart ==
  ASSUME NEW m, NEW n, Paged(m), Paged(n), m < n
  PROVE  m + Page <= n
<1> DEFINE i == m \div Page
           j == n \div Page
<1>1. /\ m \in Int /\ n \in Int /\ Page \in Nat /\ Page # 0
      /\ i \in Int /\ j \in Int /\ m = Page * i /\ n = Page * j
  BY PagedFacts, Constants
<1> HIDE DEF i, j
<1>2. i < j
  <2>1. j <= i => Page * j <= Page * i
    BY <1>1, TimesMonotone
  <2> QED BY <1>1, <2>1
<1>3. Page * (i + 1) <= Page * j
  BY <1>1, <1>2, TimesMonotone
<1> QED BY <1>1, <1>3, TimesNext

LEMMA TimesPaged ==
  ASSUME NEW k \in Int
  PROVE  Paged(Page * k)
BY MultipleMod, Constants DEF Paged

LEMMA PagedSums ==
  ASSUME NEW m, NEW n, Paged(m), Paged(n)
  PROVE  Paged(m + n) /\ Paged(m - n) /\ Paged(m + Page) /\ Paged(m - Page) /\ Paged(Page)
         /\ Paged(0)
<1> DEFINE i == m \div Page
           j == n \div Page
<1>1. /\ m \in Int /\ n \in Int /\ Page \in Nat /\ Page # 0
      /\ i \in Int /\ j \in Int /\ m = Page * i /\ n = Page * j
  BY PagedFacts, Constants
<1> HIDE DEF i, j
<1>2. /\ m + n = Page * (i + j) /\ m - n = Page * (i - j) /\ m + Page = Page * (i + 1)
      /\ m - Page = Page * (i - 1) /\ Page = Page * 1 /\ 0 = Page * 0
  BY <1>1
<1>3. i + j \in Int /\ i - j \in Int /\ i + 1 \in Int /\ i - 1 \in Int /\ 1 \in Int /\ 0 \in Int
  BY <1>1
<1> QED BY <1>2, <1>3, TimesPaged

LEMMA CeilingFacts ==
  ASSUME NEW n \in Int, NEW d \in Nat \ {0}
  PROVE  /\ Ceiling(n, d) \in Int
         /\ n <= d * Ceiling(n, d) /\ d * Ceiling(n, d) < n + d
<1> DEFINE m == (n + d) - 1
<1>1. Ceiling(n, d) = m \div d
  BY DEF Ceiling
<1>2. m \in Int /\ m \div d \in Int /\ m % d \in 0 .. d - 1 /\ m = d * (m \div d) + (m % d)
  BY DivFacts
<1> QED BY <1>1, <1>2

LEMMA AlignFacts ==
  ASSUME NEW n \in Int
  PROVE  /\ Paged(align(n)) /\ align(n) \in Int /\ n <= align(n) /\ align(n) < n + Page
         /\ n \in Nat => align(n) \in Nat
         /\ \A m : Paged(m) /\ n <= m => align(n) <= m
         /\ Paged(n) => align(n) = n
<1> DEFINE c == Ceiling(n, Page)
<1>1. Page \in Nat \ {0} /\ c \in Int /\ align(n) = Page * c /\ n <= align(n) /\ align(n) < n + Page
  BY CeilingFacts, Constants DEF align
<1>2. Paged(align(n)) /\ align(n) \in Int
  BY <1>1, TimesPaged DEF Paged
<1>3. ASSUME NEW m, Paged(m), n <= m PROVE align(n) <= m
  <2>1. m \in Int /\ (m < align(n) => m + Page <= align(n))
    BY <1>2, <1>3, PagesApart DEF Paged
  <2> QED BY <1>1, <1>2, <1>3, <2>1
<1> QED BY <1>1, <1>2, <1>3

LEMMA AlignDownFacts ==
  ASSUME NEW n \in Int
  PROVE  /\ Paged(alignDown(n)) /\ alignDown(n) \in Int /\ alignDown(n) <= n
         /\ n < alignDown(n) + Page
         /\ \A m : Paged(m) /\ m <= n => m <= alignDown(n)
<1> DEFINE q == n \div Page
<1>1. /\ Page \in Nat \ {0} /\ q \in Int /\ n % Page \in 0 .. Page - 1
      /\ n = Page * q + (n % Page) /\ alignDown(n) = n - (n % Page)
  BY DivFacts, Constants DEF alignDown
<1>2. alignDown(n) = Page * q
  BY <1>1
<1>3. Paged(alignDown(n)) /\ alignDown(n) \in Int /\ alignDown(n) <= n /\ n < alignDown(n) + Page
  BY <1>1, <1>2, TimesPaged DEF Paged
<1>4. ASSUME NEW m, Paged(m), m <= n PROVE m <= alignDown(n)
  <2>1. m \in Int /\ (alignDown(n) < m => alignDown(n) + Page <= m)
    BY <1>3, <1>4, PagesApart DEF Paged
  <2> QED BY <1>1, <1>3, <1>4, <2>1
<1> QED BY <1>3, <1>4

-----------------------------------------------------------------------------
(***************************************************************************)
(* Heaps with their maps.                                                  *)
(***************************************************************************)
LEMMA CeilingMonotone ==
  ASSUME NEW d \in Nat \ {0}, NEW m \in Int, NEW n \in Int, m <= n
  PROVE  Ceiling(m, d) <= Ceiling(n, d)
<1> DEFINE i == Ceiling(m, d)
           j == Ceiling(n, d)
<1>1. /\ i \in Int /\ j \in Int /\ d * i < m + d /\ n <= d * j
  BY CeilingFacts
<1> HIDE DEF i, j
<1>2. j < i => d * (j + 1) <= d * i
  BY <1>1, TimesMonotone
<1>3. d * (j + 1) = d * j + d
  BY <1>1, TimesNext
<1>4. d * i \in Int /\ d * j \in Int
  BY <1>1
<1> QED BY <1>1, <1>2, <1>3, <1>4 DEF i, j

LEMMA TimesTwoPages ==
  ASSUME NEW c \in Int
  PROVE  2 * Page * c = Page * (2 * c)
BY Constants

LEMMA MapsFacts ==
  ASSUME NEW n \in Int
  PROVE  /\ Paged(sizeofCardMapAndCrossMap(n)) /\ sizeofCardMapAndCrossMap(n) \in Int
         /\ n \in Nat => 0 <= sizeofCardMapAndCrossMap(n)
         /\ \A m \in Int : m <= n => sizeofCardMapAndCrossMap(m) <= sizeofCardMapAndCrossMap(n)
<1> DEFINE d == Page * CardPages
           C(m) == Ceiling(m, d)
           M(m) == sizeofCardMapAndCrossMap(m)
<1>1. d \in Nat \ {0}
  BY Constants
<1> HIDE DEF d
<1>2. \A m \in Int : C(m) \in Int /\ M(m) = Page * (2 * C(m))
  <2> SUFFICES ASSUME NEW m \in Int PROVE C(m) \in Int /\ M(m) = Page * (2 * C(m))
    OBVIOUS
  <2>1. C(m) \in Int
    BY <1>1, CeilingFacts
  <2>2. M(m) = 2 * Page * C(m)
    BY DEF sizeofCardMapAndCrossMap, d
  <2> QED BY <2>1, <2>2, TimesTwoPages
<1>3. \A m \in Int : m <= n => M(m) <= M(n)
  <2> SUFFICES ASSUME NEW m \in Int, m <= n PROVE M(m) <= M(n)
    OBVIOUS
  <2>1. C(m) <= C(n)
    BY <1>1, CeilingMonotone
  <2>2. 2 * C(m) <= 2 * C(n) /\ 2 * C(m) \in Int /\ 2 * C(n) \in Int /\ Page \in Nat
    BY <1>2, <2>1, Constants
  <2>3. Page * (2 * C(m)) <= Page * (2 * C(n))
    BY <2>2, TimesMonotone
  <2> QED BY <1>2, <2>3
<1>4. Paged(M(n)) /\ M(n) \in Int
  <2>1. 2 * C(n) \in Int
    BY <1>2
  <2> QED BY <1>2, <2>1, TimesPaged DEF Paged
<1>5. n \in Nat => 0 <= M(n)
  <2> SUFFICES ASSUME n \in Nat PROVE 0 <= M(n)
    OBVIOUS
  <2>1. n <= d * C(n) /\ C(n) \in Int
    BY <1>1, CeilingFacts
  <2>2. 0 <= C(n)
    <3> DEFINE c == C(n)
    <3>1. c < 0 => d * (c + 1) <= d * 0
      BY <1>1, <2>1, TimesMonotone
    <3>2. d * (c + 1) = d * c + d
      BY <1>1, <2>1, TimesNext
    <3>3. n <= d * c /\ c \in Int /\ d * c \in Int /\ d * 0 = 0
      BY <1>1, <2>1
    <3> HIDE DEF c
    <3>4. ~ (c < 0)
      BY <1>1, <3>1, <3>2, <3>3
    <3> QED BY <3>3, <3>4 DEF c
  <2>3. Page * 0 <= Page * (2 * C(n)) /\ Page * 0 = 0
    <3>1. 0 <= 2 * C(n) /\ 2 * C(n) \in Int /\ Page \in Nat
      BY <2>1, <2>2, Constants
    <3> QED BY <3>1, TimesMonotone
  <2> QED BY <1>2, <2>3
<1> QED BY <1>3, <1>4, <1>5

\* A heap of more pages needs more memory.
LEMMA WithMapsFacts ==
  ASSUME NEW n \in Int
  PROVE  /\ WithMaps(n) \in Int
         /\ Paged(n) => Paged(WithMaps(n))
         /\ n \in Nat => n <= WithMaps(n)
         /\ \A m \in Int : m <= n => WithMaps(m) <= WithMaps(n)
         /\ \A m \in Int : m < n => WithMaps(m) < WithMaps(n)
<1>1. /\ sizeofCardMapAndCrossMap(n) \in Int /\ WithMaps(n) = n + sizeofCardMapAndCrossMap(n)
      /\ Paged(sizeofCardMapAndCrossMap(n))
      /\ n \in Nat => 0 <= sizeofCardMapAndCrossMap(n)
  BY MapsFacts DEF WithMaps
<1>2. Paged(n) => Paged(WithMaps(n))
  BY <1>1, PagedSums
<1>3. ASSUME NEW m \in Int, m <= n
      PROVE  WithMaps(m) <= WithMaps(n) /\ (m < n => WithMaps(m) < WithMaps(n))
  <2>1. /\ sizeofCardMapAndCrossMap(m) <= sizeofCardMapAndCrossMap(n)
        /\ sizeofCardMapAndCrossMap(m) \in Int
        /\ WithMaps(m) = m + sizeofCardMapAndCrossMap(m)
    BY <1>3, MapsFacts DEF WithMaps
  <2> QED BY <1>1, <1>3, <2>1
<1> QED BY <1>1, <1>2, <1>3

LEMMA WithMapsOrder ==
  ASSUME NEW m \in Int, NEW n \in Int, WithMaps(m) < WithMaps(n)
  PROVE  m < n
<1>1. n <= m => WithMaps(n) <= WithMaps(m)
  BY WithMapsFacts
<1>2. WithMaps(m) \in Int /\ WithMaps(n) \in Int
  BY WithMapsFacts
<1> QED BY <1>1, <1>2

-----------------------------------------------------------------------------
(***************************************************************************)
(* The largest heap that fits with its maps.                               *)
(***************************************************************************)
\* One step of Grown, as a function of what it is elsewhere.
GrowStep(w, f, n) == IF WithMaps(n + Page) <= w THEN f[n + Page] ELSE n

\* The steps from n after which one more page does not fit, and the first of them.
Stops(w, n) == {k \in Nat : w < WithMaps((n + Page * k) + Page)}
First(w, n) == CHOOSE k \in Stops(w, n) : \A m \in Stops(w, n) : k <= m

LEMMA FirstFacts ==
  ASSUME NEW w \in Int, NEW n \in Nat
  PROVE  First(w, n) \in Stops(w, n) /\ \A m \in Stops(w, n) : First(w, n) <= m
<1> DEFINE k == IF w < 0 THEN 0 ELSE w
           s == (n + Page * k) + Page
<1>1. Page \in Nat /\ Page > 0 /\ k \in Nat /\ w <= k
  BY Constants
<1>2. s \in Nat /\ w < s
  <2> HIDE DEF k
  <2>1. 1 <= Page /\ k * 1 <= k * Page /\ k * Page = Page * k /\ k * 1 = k /\ Page * k \in Nat
    <3>1. k * 1 <= k * Page
      BY <1>1, TimesMonotone
    <3> QED BY <1>1, <3>1
  <2> DEFINE x == Page * k
  <2>2. x \in Nat /\ k <= x /\ s = (n + x) + Page
    BY <2>1
  <2> HIDE DEF x, s
  <2> QED BY <1>1, <2>2
<1>3. s <= WithMaps(s) /\ WithMaps(s) \in Int
  BY <1>2, WithMapsFacts
<1>4. k \in Stops(w, n)
  <2> HIDE DEF k
  <2>1. w < WithMaps((n + Page * k) + Page)
    <3> HIDE DEF s
    <3>1. w < WithMaps(s)
      BY <1>2, <1>3
    <3> QED BY <3>1 DEF s
  <2> QED BY <1>1, <2>1 DEF Stops
<1>5. Stops(w, n) \subseteq Nat /\ Stops(w, n) # {}
  BY <1>4 DEF Stops
<1>6. \E m \in Stops(w, n) : \A i \in Stops(w, n) : m <= i
  BY <1>5, LeastOfNat
<1> QED BY <1>6 DEF First

LEMMA FirstNext ==
  ASSUME NEW w \in Int, NEW n \in Nat
  PROVE  /\ First(w, n) \in Nat /\ n + Page \in Nat /\ First(w, n + Page) \in Nat
         /\ w < WithMaps(n + Page) => First(w, n) = 0
         /\ WithMaps(n + Page) <= w => First(w, n) = First(w, n + Page) + 1
<1> DEFINE k == First(w, n)
           l == First(w, n + Page)
<1>1. Page \in Nat /\ n + Page \in Nat /\ WithMaps(n + Page) \in Int
  <2>1. Page \in Nat
    BY Constants
  <2> QED BY <2>1, WithMapsFacts
<1>2. k \in Stops(w, n) /\ l \in Stops(w, n + Page)
      /\ (\A m \in Stops(w, n) : k <= m) /\ (\A m \in Stops(w, n + Page) : l <= m)
  BY <1>1, FirstFacts
<1> HIDE DEF k, l
<1>3. k \in Nat /\ l \in Nat
  BY <1>2 DEF Stops
<1>4. 0 \in Stops(w, n) <=> w < WithMaps(n + Page)
  <2>1. (n + Page * 0) + Page = n + Page
    BY <1>1
  <2> QED BY <2>1 DEF Stops
<1>5. \A i \in Nat : i \in Stops(w, n + Page) <=> i + 1 \in Stops(w, n)
  <2> SUFFICES ASSUME NEW i \in Nat
               PROVE  i \in Stops(w, n + Page) <=> i + 1 \in Stops(w, n)
    OBVIOUS
  <2>1. ((n + Page) + Page * i) + Page = (n + Page * (i + 1)) + Page
    <3>1. Page * (i + 1) = Page * i + Page /\ Page * i \in Int
      BY <1>1, TimesNext
    <3> QED BY <1>1, <3>1
  <2> QED BY <2>1 DEF Stops
<1>6. ASSUME w < WithMaps(n + Page) PROVE k = 0
  BY <1>2, <1>3, <1>4, <1>6
<1>7. ASSUME WithMaps(n + Page) <= w PROVE k = l + 1
  <2>1. k # 0
    BY <1>1, <1>2, <1>4, <1>7
  <2>2. k - 1 \in Nat /\ (k - 1) + 1 = k
    BY <1>3, <2>1
  <2>3. k - 1 \in Stops(w, n + Page) /\ l + 1 \in Stops(w, n)
    BY <1>2, <1>3, <1>5, <2>2
  <2>4. l <= k - 1 /\ k <= l + 1
    BY <1>2, <2>3
  <2> QED BY <1>3, <2>4
<1> QED BY <1>1, <1>3, <1>6, <1>7 DEF k, l

LEMMA GrownExists ==
  ASSUME NEW w \in Int
  PROVE  \E f : f = [n \in Nat |-> GrowStep(w, f, n)]
<1> DEFINE f == [n \in Nat |-> n + Page * First(w, n)]
<1>1. ASSUME NEW n \in Nat PROVE f[n] = GrowStep(w, f, n)
  <2> DEFINE k == First(w, n)
             l == First(w, n + Page)
  <2>1. k \in Nat /\ l \in Nat /\ n + Page \in Nat /\ Page \in Nat /\ WithMaps(n + Page) \in Int
    <3>1. k \in Nat /\ l \in Nat /\ n + Page \in Nat /\ Page \in Nat
      BY FirstNext, Constants
    <3> HIDE DEF k, l
    <3> QED BY <3>1, WithMapsFacts
  <2>2. f[n] = n + Page * k /\ f[n + Page] = (n + Page) + Page * l
    BY <2>1
  <2>3. (w < WithMaps(n + Page) => k = 0) /\ (WithMaps(n + Page) <= w => k = l + 1)
    BY FirstNext
  <2> HIDE DEF k, l, f
  <2>4. CASE w < WithMaps(n + Page)
    <3>1. f[n] = n
      BY <2>1, <2>2, <2>3, <2>4
    <3>2. ~ (WithMaps(n + Page) <= w)
      BY <2>1, <2>4
    <3> QED BY <3>1, <3>2 DEF GrowStep
  <2>5. CASE WithMaps(n + Page) <= w
    <3>1. Page * (l + 1) = Page * l + Page /\ Page * l \in Int
      BY <2>1, TimesNext
    <3>2. f[n] = f[n + Page]
      BY <2>1, <2>2, <2>3, <2>5, <3>1
    <3> QED BY <2>5, <3>2 DEF GrowStep
  <2> QED BY <2>1, <2>4, <2>5
<1>2. f = [n \in Nat |-> f[n]]
  OBVIOUS
<1> HIDE DEF f
<1>3. f = [n \in Nat |-> GrowStep(w, f, n)]
  BY <1>1, <1>2
<1> QED BY <1>3

\* What the loop ends with: the last size that fits, or where it begins if none does.
LEMMA GrownFacts ==
  ASSUME NEW w \in Int, NEW f, \A n \in Nat : f[n] = GrowStep(w, f, n)
  PROVE  \A n \in Nat : Paged(n) =>
           /\ Paged(f[n]) /\ f[n] \in Nat /\ n <= f[n] /\ w < WithMaps(f[n] + Page)
           /\ f[n] = n \/ WithMaps(f[n]) <= w
<1> DEFINE Good(n) == /\ Paged(f[n]) /\ f[n] \in Nat /\ n <= f[n] /\ w < WithMaps(f[n] + Page)
                      /\ f[n] = n \/ WithMaps(f[n]) <= w
           T == {k \in Nat : \E n \in Nat : Paged(n) /\ First(w, n) = k /\ ~ Good(n)}
<1> SUFFICES ASSUME NEW m \in Nat, Paged(m), ~ Good(m) PROVE FALSE
  OBVIOUS
<1>1. First(w, m) \in T
  <2>1. First(w, m) \in Nat
    BY FirstNext
  <2> HIDE DEF Good
  <2> QED BY <2>1
<1>2. PICK k \in T : \A i \in T : k <= i
  <2>1. T \subseteq Nat /\ T # {}
    BY <1>1
  <2> HIDE DEF T
  <2> QED BY <2>1, LeastOfNat
<1>3. PICK n \in Nat : Paged(n) /\ First(w, n) = k /\ ~ Good(n)
  <2> HIDE DEF Good
  <2> QED BY <1>2
<1>4. /\ n + Page \in Nat /\ Paged(n + Page) /\ Page \in Nat /\ WithMaps(n + Page) \in Int
      /\ First(w, n + Page) \in Nat /\ k \in Nat
  <2>1. Paged(n + Page) /\ n + Page \in Nat /\ Page \in Nat
    BY <1>3, PagedSums, FirstNext, Constants
  <2> QED BY <1>3, <2>1, FirstNext, WithMapsFacts
<1>5. CASE w < WithMaps(n + Page)
  <2>1. ~ (WithMaps(n + Page) <= w)
    BY <1>4, <1>5
  <2>2. f[n] = n
    BY <2>1 DEF GrowStep
  <2> QED BY <1>3, <1>5, <2>2
<1>6. CASE WithMaps(n + Page) <= w
  <2>1. f[n] = f[n + Page]
    BY <1>6 DEF GrowStep
  <2>2. k = First(w, n + Page) + 1
    BY <1>3, <1>6, FirstNext
  <2>3. ~ (k <= First(w, n + Page))
    BY <1>4, <2>2
  <2>4. Good(n + Page)
    <3> HIDE DEF Good
    <3>1. First(w, n + Page) \notin T
      <4> HIDE DEF T
      <4> QED BY <1>2, <2>3
    <3> QED BY <1>4, <3>1
  <2>5. f[n] \in Nat /\ n + Page <= f[n]
    BY <2>1, <2>4
  <2>6. n <= f[n]
    BY <1>4, <2>5
  <2>7. WithMaps(f[n]) <= w
    BY <1>6, <2>1, <2>4
  <2>8. Good(n)
    BY <2>1, <2>4, <2>6, <2>7
  <2> QED BY <1>3, <2>8
<1> QED BY <1>4, <1>5, <1>6

\* Where the loop begins.
Estimate(w) ==
  IF w <= 3 * Page THEN 0
  ELSE Larger(alignDown((CardPages * (w - 3 * Page) - 2 * Page) \div (CardPages + 2)), 0)

LEMMA InvertDef ==
  ASSUME NEW w \in Int
  PROVE  \E f : /\ \A n \in Nat : f[n] = GrowStep(w, f, n)
               /\ invertSizeofCardMapAndCrossMap(w) = f[Estimate(w)]
<1> DEFINE Steps(f) == [n \in Nat |-> GrowStep(w, f, n)]
           F == CHOOSE f : f = Steps(f)
<1>1. invertSizeofCardMapAndCrossMap(w) = F[Estimate(w)]
  BY DEF invertSizeofCardMapAndCrossMap, GrowStep, Estimate
<1>2. \E f : f = Steps(f)
  BY GrownExists
<1>3. F = Steps(F)
  <2> HIDE DEF Steps
  <2> QED BY <1>2
<1>4. \A n \in Nat : Steps(F)[n] = GrowStep(w, F, n)
  <2> HIDE DEF F
  <2> QED OBVIOUS
<1> HIDE DEF F, Steps
<1> QED BY <1>1, <1>3, <1>4
\* The estimate is from below: c stands for the pages of cards, e for the estimate.
LEMMA EstimateFits ==
  ASSUME NEW w \in Int, NEW e \in Int,
         (CardPages + 2) * e <= CardPages * (w - 3 * Page) - 2 * Page
  PROVE  WithMaps(e) <= w
<1> DEFINE d == Page * CardPages
           c == Ceiling(e, d)
           x == Page * c
           y == CardPages * e
           z == CardPages * x
           t == CardPages * w
           u == CardPages * Page
<1>1. Page \in Nat \ {0} /\ CardPages \in Nat \ {0} /\ d \in Nat \ {0}
  BY Constants
<1>2. c \in Int /\ d * c < e + d
  <2> HIDE DEF d
  <2> QED BY <1>1, CeilingFacts
<1>3. x \in Int /\ y \in Int /\ z \in Int /\ t \in Int /\ u \in Int /\ d = u /\ d * c = z
  <2> HIDE DEF c
  <2> QED BY <1>1, <1>2
<1>4. WithMaps(e) = e + 2 * x
  <2>1. WithMaps(e) = e + 2 * Page * c
    BY DEF WithMaps, sizeofCardMapAndCrossMap
  <2> HIDE DEF c
  <2> QED BY <1>1, <1>2, <2>1
<1>5. (CardPages + 2) * e = y + 2 * e /\ CardPages * (w - 3 * Page) = t - 3 * u
  BY <1>1
<1>6. CardPages * (e + 2 * x) = y + 2 * z
  <2> HIDE DEF c, x
  <2> QED BY <1>1, <1>3
<1>7. y + 2 * z < t
  <2>1. y + 2 * e <= t - 3 * u - 2 * Page /\ z < e + u
    BY <1>2, <1>3, <1>5
  <2>2. u \in Nat /\ Page > 0
    BY <1>1
  <2> HIDE DEF d, c, x, y, z, t, u
  <2> QED BY <1>1, <1>3, <2>1, <2>2
<1>8. CardPages * (e + 2 * x) < CardPages * w
  BY <1>6, <1>7
<1>9. ~ (w < e + 2 * x)
  <2> SUFFICES ASSUME w < e + 2 * x PROVE FALSE
    OBVIOUS
  <2>1. CardPages \in Nat /\ e + 2 * x \in Int /\ w <= e + 2 * x
    <3> HIDE DEF x
    <3> QED BY <1>1, <1>3
  <2> DEFINE v == e + 2 * x
  <2>2. v \in Int /\ w <= v /\ CardPages * v < CardPages * w
    BY <1>8, <2>1
  <2> HIDE DEF v
  <2>3. CardPages * w <= CardPages * v
    BY <2>1, <2>2, TimesMonotone
  <2> QED BY <1>1, <2>2, <2>3
<1> HIDE DEF x
<1> QED BY <1>3, <1>4, <1>9

LEMMA EstimateFacts ==
  ASSUME NEW w \in Int
  PROVE  /\ Estimate(w) \in Nat /\ Paged(Estimate(w))
         /\ Estimate(w) = 0 \/ WithMaps(Estimate(w)) <= w
<1> DEFINE n == CardPages * (w - 3 * Page) - 2 * Page
           d == CardPages + 2
           e == alignDown(n \div d)
<1>1. Page \in Nat /\ CardPages \in Nat \ {0} /\ n \in Int /\ d \in Nat \ {0}
  BY Constants
<1>2. Estimate(w) = IF w <= 3 * Page THEN 0 ELSE Larger(e, 0)
  BY DEF Estimate
<1> HIDE DEF n, d
<1>3. n \div d \in Int /\ n = d * (n \div d) + (n % d) /\ n % d \in Nat
  <2>1. n % d \in 0 .. d - 1 => n % d \in Nat
    BY <1>1
  <2> QED BY <1>1, <2>1, DivFacts
<1>4. e \in Int /\ Paged(e) /\ e <= n \div d
  BY <1>3, AlignDownFacts
<1> DEFINE q == n \div d
<1>5. d * e <= d * q /\ d * q <= n
  <2>1. d \in Nat /\ q \in Int /\ e \in Int /\ e <= q
    BY <1>1, <1>3, <1>4
  <2> HIDE DEF e, q
  <2>2. d * e <= d * q
    BY <2>1, TimesMonotone
  <2>3. d * q <= n
    BY <1>1, <1>3, <2>1 DEF q
  <2> QED BY <2>2, <2>3
<1>6. d * e <= n
  <2>1. d * e \in Int /\ d * q \in Int
    <3>1. d \in Int /\ e \in Int /\ q \in Int
      BY <1>1, <1>3, <1>4
    <3> HIDE DEF e, q
    <3> QED BY <3>1
  <2> HIDE DEF e, q
  <2> QED BY <1>1, <1>5, <2>1
<1>7. WithMaps(e) <= w
  <2> HIDE DEF e
  <2>1. (CardPages + 2) * e <= CardPages * (w - 3 * Page) - 2 * Page
    BY <1>6 DEF n, d
  <2> QED BY <1>4, <2>1, EstimateFits
<1>8. Paged(0)
  BY <1>4, PagedSums
<1> HIDE DEF e
<1> QED BY <1>2, <1>4, <1>7, <1>8 DEF Larger

\* What the comment of invertSizeofCardMapAndCrossMap says, and that the result is pages.
LEMMA InvertFacts ==
  ASSUME NEW w \in Int
  PROVE  /\ invertSizeofCardMapAndCrossMap(w) \in Nat
         /\ Paged(invertSizeofCardMapAndCrossMap(w))
         /\ Inverts(w)
<1> DEFINE size == invertSizeofCardMapAndCrossMap(w)
<1>1. PICK f : (\A n \in Nat : f[n] = GrowStep(w, f, n)) /\ size = f[Estimate(w)]
  BY InvertDef
<1>2. /\ Estimate(w) \in Nat /\ Paged(Estimate(w))
      /\ Estimate(w) = 0 \/ WithMaps(Estimate(w)) <= w
  BY EstimateFacts
<1> HIDE DEF size
<1>3. /\ Paged(size) /\ size \in Nat /\ w < WithMaps(size + Page)
      /\ size = Estimate(w) \/ WithMaps(size) <= w
  BY <1>1, <1>2, GrownFacts
<1>4. WithMaps(size) <= w \/ size = 0
  BY <1>2, <1>3
<1> QED BY <1>3, <1>4 DEF Inverts, size

\* A heap fits exactly if it is not larger than the inverse says.
LEMMA FitsIffNotLarger ==
  ASSUME NEW w \in Int, NEW n \in Nat, Paged(n)
  PROVE  /\ WithMaps(n) <= w => n <= invertSizeofCardMapAndCrossMap(w)
         /\ n <= invertSizeofCardMapAndCrossMap(w) => WithMaps(n) <= w \/ n = 0
<1> DEFINE size == invertSizeofCardMapAndCrossMap(w)
<1>1. /\ size \in Nat /\ Paged(size)
      /\ WithMaps(size) <= w \/ size = 0
      /\ w < WithMaps(size + Page)
  BY InvertFacts DEF Inverts
<1> HIDE DEF size
<1>2. /\ Page \in Nat /\ size + Page \in Nat /\ WithMaps(size + Page) \in Int
      /\ WithMaps(n) \in Int /\ WithMaps(size) \in Int
  <2>1. Page \in Nat /\ size + Page \in Nat
    BY <1>1, Constants
  <2> QED BY <1>1, <2>1, WithMapsFacts
<1>3. ASSUME WithMaps(n) <= w PROVE n <= size
  <2>1. WithMaps(n) < WithMaps(size + Page)
    BY <1>1, <1>2, <1>3
  <2>2. n < size + Page
    BY <1>2, <2>1, WithMapsOrder
  <2>3. size < n => size + Page <= n
    BY <1>1, PagesApart
  <2> QED BY <1>1, <1>2, <2>2, <2>3
<1>4. ASSUME n <= size PROVE WithMaps(n) <= w \/ n = 0
  <2>1. WithMaps(n) <= WithMaps(size)
    BY <1>1, <1>4, WithMapsFacts
  <2> QED BY <1>1, <1>2, <1>4, <2>1
<1> QED BY <1>3, <1>4 DEF size
\* What a heap holds is what fits into its memory.
LEMMA InvertsWithMaps ==
  ASSUME NEW n \in Nat, Paged(n)
  PROVE  invertSizeofCardMapAndCrossMap(WithMaps(n)) = n
<1> DEFINE w == WithMaps(n)
           size == invertSizeofCardMapAndCrossMap(w)
<1>1. w \in Int
  BY WithMapsFacts
<1> HIDE DEF w
<1>2. /\ size \in Nat
      /\ WithMaps(size) <= w \/ size = 0
  BY <1>1, InvertFacts DEF Inverts
<1>3. w <= w => n <= size
  BY <1>1, FitsIffNotLarger DEF w
<1> HIDE DEF size
<1>4. n < size => w < WithMaps(size)
  BY <1>2, WithMapsFacts DEF w
<1>5. WithMaps(size) \in Int
  BY <1>2, WithMapsFacts
<1> QED BY <1>1, <1>2, <1>3, <1>4, <1>5 DEF size, w

-----------------------------------------------------------------------------
(***************************************************************************)
(* The size desired.                                                       *)
(***************************************************************************)
\* The ratios with which a heap that keeps its size has room for what is live.
RoomyRatios == Ratios.live >= 110 /\ Ratios.copy >= 110

LEMMA RatioOf ==
  ASSUME NEW n \in Nat, NEW r \in Nat
  PROVE  /\ (n * r) \div 100 \in Nat /\ 100 * ((n * r) \div 100) <= n * r /\ n * r \in Nat
         /\ r >= 100 => n <= (n * r) \div 100
         /\ r >= 110 => 11 * n < 10 * ((n * r) \div 100) + 10
<1> DEFINE x == n * r
           q == x \div 100
<1>1. x \in Nat
  OBVIOUS
<1>2. (r >= 100 => 100 * n <= x) /\ (r >= 110 => 110 * n <= x)
  <2>1. (r >= 100 => n * 100 <= n * r) /\ (r >= 110 => n * 110 <= n * r)
    BY TimesMonotone
  <2>2. n * 100 = 100 * n /\ n * 110 = 110 * n
    OBVIOUS
  <2> QED BY <2>1, <2>2
<1> HIDE DEF x
<1>3. q \in Nat /\ 100 * q <= x /\ x < 100 * q + 100
  BY <1>1
<1> HIDE DEF q
<1> QED BY <1>1, <1>2, <1>3 DEF q, x

\* What is left of RAM holds what is live with the ratio for copying.
LEMMA RemainingHolds ==
  ASSUME NEW ram \in Nat, NEW n \in Nat, NEW c \in Nat, NEW g \in Nat, 100 * ram >= (c + g) * n
  PROVE  /\ ram - (n * g) \div 100 \in Int
         /\ c >= 100 => n <= ram - (n * g) \div 100
         /\ c >= 110 => 11 * n <= 10 * (ram - (n * g) \div 100)
<1> DEFINE q == (n * g) \div 100
           x == n * g
           y == n * c
<1>1. q \in Nat /\ 100 * q <= x /\ x \in Nat
  BY RatioOf
<1>2. y \in Nat /\ (c + g) * n = y + x
  OBVIOUS
<1>3. (c >= 100 => 100 * n <= y) /\ (c >= 110 => 110 * n <= y)
  <2>1. (c >= 100 => n * 100 <= n * c) /\ (c >= 110 => n * 110 <= n * c)
    BY TimesMonotone
  <2>2. n * 100 = 100 * n /\ n * 110 = 110 * n
    OBVIOUS
  <2> QED BY <2>1, <2>2
<1> HIDE DEF q, x, y
<1>4. 100 * ram >= y + x
  BY <1>2
<1>5. 100 * (ram - q) >= y
  BY <1>1, <1>2, <1>4
<1> QED BY <1>1, <1>2, <1>3, <1>5 DEF q

\* The ratios leave room for what is live, or leave the heap as it is.
LEMMA RatioFacts ==
  ASSUME controls \in Settings, NEW live \in Nat, Paged(live), NEW current \in Nat,
         live <= SystemLimit
  PROVE  /\ DesiredByRatio(live, current) \in Int
         /\ live <= DesiredByRatio(live, current) \/ DesiredByRatio(live, current) = current
         /\ RoomyRatios => live <= DesiredByRatio(live, current)
<1> DEFINE ram == controls.ram
           RamHolds(ratio) == 100 * ram >= ratio * live
           Wanted(size, least) ==
             IF least /\ 10 * size <= 11 * current THEN current ELSE align(size)
           preferred == (live * Ratios.live) \div 100
           remaining == ram - (live * Ratios.grow) \div 100
           required == (live * Ratios.markCompact) \div 100
           half == alignDown(ram \div 2)
           size == DesiredByRatio(live, current)
           a == RamHolds(Ratios.live + Ratios.grow)
           b == Ratios.grow >= Ratios.copy /\ RamHolds(2 * Ratios.copy)
           c == RamHolds(Ratios.copy + Ratios.grow)
           d == RamHolds(Ratios.markCompact)
<1>1. size = IF a THEN Wanted(preferred, current <= 2 * preferred)
             ELSE IF b THEN half
             ELSE IF c THEN Wanted(remaining, current <= remaining)
             ELSE IF d THEN ram ELSE Smaller(align(required), SystemLimit)
  BY DEF DesiredByRatio
<1>2. /\ ram \in Nat /\ SystemLimit \in Int
      /\ Ratios.live \in Nat /\ Ratios.grow \in Nat /\ Ratios.copy \in Nat
      /\ Ratios.markCompact \in Nat /\ Ratios.live >= 100 /\ Ratios.copy >= 100
      /\ Ratios.markCompact >= 100
  <2>1. SystemLimit \in Int
    BY Constants, AlignDownFacts DEF SystemLimit
  <2> QED BY <2>1, Constants
<1>3. ASSUME a PROVE /\ size \in Int
                     /\ live <= size \/ size = current
                     /\ RoomyRatios => live <= size
  <2>1. /\ preferred \in Nat /\ live <= preferred
        /\ Ratios.live >= 110 => 11 * live < 10 * preferred + 10
    BY <1>2, RatioOf
  <2> HIDE DEF preferred
  <2>2. align(preferred) \in Int /\ preferred <= align(preferred)
    BY <2>1, AlignFacts
  <2>3. size = Wanted(preferred, current <= 2 * preferred)
    BY <1>1, <1>3
  <2>4. size = align(preferred) \/ (size = current /\ 10 * preferred <= 11 * current)
    BY <2>3
  <2> HIDE DEF size
  <2> QED BY <2>1, <2>2, <2>4 DEF RoomyRatios
<1>4. ASSUME ~ a, b PROVE size \in Int /\ live <= size
  <2>1. size = half
    BY <1>1, <1>4
  <2> DEFINE y == live * Ratios.copy
             r == ram \div 2
  <2>2. 100 * live <= y /\ y \in Nat /\ 100 * ram >= 2 * y
    <3>1. 2 * Ratios.copy * live = 2 * y /\ y \in Nat
      BY <1>2
    <3>2. live * 100 <= live * Ratios.copy /\ live * 100 = 100 * live
      BY <1>2, TimesMonotone
    <3> QED BY <1>4, <3>1, <3>2
  <2> HIDE DEF y
  <2>3. live <= r /\ r \in Int
    <3> HIDE DEF ram
    <3> QED BY <1>2, <2>2
  <2> HIDE DEF r
  <2>4. live <= alignDown(r) /\ alignDown(r) \in Int
    BY <2>3, AlignDownFacts
  <2> QED BY <2>1, <2>4 DEF r
<1>5. ASSUME ~ a, ~ b, c PROVE /\ size \in Int
                               /\ live <= size \/ size = current
                               /\ RoomyRatios => live <= size
  <2>1. /\ remaining \in Int /\ live <= remaining
        /\ Ratios.copy >= 110 => 11 * live <= 10 * remaining
    <3>1. 100 * ram >= (Ratios.copy + Ratios.grow) * live
      BY <1>5
    <3> HIDE DEF ram
    <3> QED BY <1>2, <3>1, RemainingHolds
  <2> HIDE DEF remaining
  <2>2. align(remaining) \in Int /\ remaining <= align(remaining)
    BY <2>1, AlignFacts
  <2>3. size = Wanted(remaining, current <= remaining)
    BY <1>1, <1>5
  <2>4. size = align(remaining) \/ (size = current /\ 10 * remaining <= 11 * current)
    BY <2>3
  <2> HIDE DEF size
  <2> QED BY <2>1, <2>2, <2>4 DEF RoomyRatios
<1>6. ASSUME ~ a, ~ b, ~ c, d PROVE size \in Int /\ live <= size
  <2>1. size = ram
    BY <1>1, <1>6
  <2> DEFINE y == live * Ratios.markCompact
  <2>2. 100 * live <= y /\ y \in Nat /\ 100 * ram >= y
    <3>1. Ratios.markCompact * live = y /\ y \in Nat
      BY <1>2
    <3>2. live * 100 <= live * Ratios.markCompact /\ live * 100 = 100 * live
      BY <1>2, TimesMonotone
    <3> QED BY <1>6, <3>1, <3>2
  <2> HIDE DEF y, ram, size
  <2> QED BY <1>2, <2>1, <2>2
<1>7. ASSUME ~ a, ~ b, ~ c, ~ d PROVE size \in Int /\ live <= size
  <2>1. size = Smaller(align(required), SystemLimit)
    BY <1>1, <1>7
  <2>2. required \in Nat /\ live <= required
    BY <1>2, RatioOf
  <2> HIDE DEF required, size
  <2>3. align(required) \in Int /\ live <= align(required)
    <3>1. align(required) \in Int /\ required <= align(required)
      BY <2>2, AlignFacts
    <3> QED BY <2>2, <3>1
  <2> QED BY <1>2, <2>1, <2>3 DEF Smaller
<1> HIDE DEF a, b, c, d, size
<1> QED BY <1>3, <1>4, <1>5, <1>6, <1>7 DEF size
LEMMA LimitedFacts ==
  ASSUME controls \in Settings, NEW size \in Int
  PROVE  /\ Limited(size) \in Int
         /\ controls.fixedHeap + controls.maxHeap > 0 \/ Limited(size) = size
         /\ controls.fixedHeap + controls.maxHeap \in Nat
<1>1. controls.fixedHeap \in Nat /\ controls.maxHeap \in Nat
  BY Constants
<1>2. controls.fixedHeap \div 2 \in Int
  BY <1>1
<1>3. CASE controls.fixedHeap > 0
  <2>1. Limited(size) = IF size > controls.fixedHeap \div 2 THEN controls.fixedHeap
                        ELSE controls.fixedHeap \div 2
    BY <1>1, <1>3 DEF Limited
  <2> QED BY <1>1, <1>2, <1>3, <2>1
<1>4. CASE controls.fixedHeap = 0 /\ controls.maxHeap > 0
  <2>1. Limited(size) = Smaller(size, controls.maxHeap)
    BY <1>1, <1>4 DEF Limited
  <2> QED BY <1>1, <1>4, <2>1 DEF Smaller
<1>5. CASE controls.fixedHeap = 0 /\ controls.maxHeap = 0
  <2>1. Limited(size) = size
    BY <1>1, <1>5 DEF Limited
  <2> QED BY <1>1, <1>5, <2>1
<1> QED BY <1>1, <1>3, <1>4, <1>5

\* Unless the program dies, the heap desired holds what is live, or is the current one.
LEMMA DesiredFacts ==
  ASSUME controls \in Settings, NEW live \in Nat \ {0}, NEW current \in Nat, Paged(current),
         NEW desired, desired = sizeofHeapDesired(live, current)
  PROVE  /\ desired \in Int
         /\ desired # Die =>
              /\ desired \in Nat /\ Paged(desired)
              /\ align(live) <= desired \/ desired = current
              /\ RoomyRatios => align(live) <= desired
<1> DEFINE n == align(live)
           w == WithMaps(n)
           x == WithMaps(current)
           ratio == DesiredByRatio(w, x)
           size == Limited(ratio)
<1>1. n \in Nat /\ n # 0 /\ Paged(n)
  <2>1. n \in Nat /\ live <= n /\ Paged(n)
    BY AlignFacts
  <2> HIDE DEF n
  <2> QED BY <2>1
<1>2. w \in Nat /\ Paged(w) /\ x \in Nat
  <2>1. w \in Int /\ Paged(w) /\ n <= w /\ x \in Int /\ current <= x
    <3> HIDE DEF n
    <3> QED BY <1>1, WithMapsFacts
  <2> HIDE DEF n, w, x
  <2> QED BY <1>1, <2>1
<1>3. desired = IF \/ n > invertSizeofCardMapAndCrossMap(SystemLimit)
                  \/ (controls.fixedHeap + controls.maxHeap > 0 /\ size < w)
               THEN Die ELSE invertSizeofCardMapAndCrossMap(size)
  BY DEF sizeofHeapDesired
<1> SUFFICES ASSUME desired # Die
             PROVE  /\ desired \in Nat /\ Paged(desired)
                    /\ n <= desired \/ desired = current
                    /\ RoomyRatios => n <= desired
  <2>1. Die \in Int
    BY DEF Die
  <2> HIDE DEF n
  <2> QED BY <2>1 DEF n
<1> HIDE DEF n, w, x
<1>4. w <= SystemLimit
  <2>1. SystemLimit \in Int
    BY Constants, AlignDownFacts DEF SystemLimit
  <2>2. invertSizeofCardMapAndCrossMap(SystemLimit) \in Nat
    BY <2>1, InvertFacts
  <2>3. n <= invertSizeofCardMapAndCrossMap(SystemLimit)
    BY <1>1, <1>3, <2>2
  <2> QED BY <1>1, <2>1, <2>3, FitsIffNotLarger DEF w
<1>5. /\ ratio \in Int
      /\ w <= ratio \/ ratio = x
      /\ RoomyRatios => w <= ratio
  BY <1>2, <1>4, RatioFacts
<1> HIDE DEF ratio
<1>6. /\ size \in Int
      /\ controls.fixedHeap + controls.maxHeap > 0 \/ size = ratio
  BY <1>5, LimitedFacts
<1> HIDE DEF size
<1>7. /\ desired = invertSizeofCardMapAndCrossMap(size)
      /\ controls.fixedHeap + controls.maxHeap > 0 => w <= size
  BY <1>2, <1>3, <1>6
<1>8. desired \in Nat /\ Paged(desired)
  BY <1>6, <1>7, InvertFacts
<1>9. w <= size => n <= desired
  BY <1>1, <1>6, <1>7, FitsIffNotLarger DEF w
<1>10. size = x => desired = current
  BY <1>7, InvertsWithMaps DEF x
<1> QED BY <1>5, <1>6, <1>7, <1>8, <1>9, <1>10

-----------------------------------------------------------------------------
(***************************************************************************)
(* Heaps.                                                                  *)
(***************************************************************************)
\* A heap of pages, with room for its maps.
HeapOk(h) ==
  /\ h.start \in Addresses /\ h.size \in Nat \ {0} /\ Paged(h.size)
  /\ h.withMaps = WithMaps(h.size)

\* A heap or none.
MaybeHeap(h) == h = NoHeap \/ HeapOk(h)

LEMMA NoHeapFacts ==
  /\ NoHeap.start = NoAddress /\ NoHeap.size = 0 /\ NoHeap.withMaps = 0 /\ Paged(0)
  /\ \A h : HeapOk(h) => h # NoHeap /\ h.start # NoAddress
<1>1. NoHeap.start = NoAddress /\ NoHeap.size = 0 /\ NoHeap.withMaps = 0
  BY DEF NoHeap
<1>2. Paged(0)
  BY MultipleMod, Constants DEF Paged
<1> QED BY <1>1, <1>2, Constants DEF HeapOk

LEMMA MaybeHeapFacts ==
  ASSUME NEW h, MaybeHeap(h)
  PROVE  /\ h.size \in Nat /\ Paged(h.size)
         /\ h.size = 0 => h = NoHeap
         /\ h = NoHeap => h.size = 0
         /\ h # NoHeap => HeapOk(h)
BY NoHeapFacts DEF MaybeHeap, HeapOk

LEMMA NewHeapFacts ==
  ASSUME NEW a \in Addresses, NEW size \in Nat \ {0}, Paged(size)
  PROVE  /\ HeapOk(NewHeap(a, size)) /\ NewHeap(a, size).start = a
         /\ NewHeap(a, size).size = size
BY DEF NewHeap, HeapOk

\* A heap that is shrunk keeps its address and what was to be kept, if anything was.
LEMMA ShrinkFacts ==
  ASSUME NEW h, MaybeHeap(h), NEW keep \in Nat, NEW g, g = ShrinkHeap(h, keep)
  PROVE  /\ MaybeHeap(g)
         /\ g # NoHeap => g.start = h.start
         /\ g.size <= h.size
         /\ keep <= h.size => keep <= g.size
         /\ keep = 0 => g = NoHeap
         /\ keep > 0 /\ h # NoHeap => g # NoHeap
         /\ keep > 0 /\ Paged(keep) /\ keep <= h.size => g.size = keep
<1>1. /\ h.size \in Nat /\ Paged(h.size)
      /\ h.size = 0 => h = NoHeap
      /\ h = NoHeap => h.size = 0
      /\ h # NoHeap => HeapOk(h)
  BY MaybeHeapFacts
<1>2. CASE keep = 0
  <2>1. g = NoHeap /\ g.size = 0
    BY <1>2, NoHeapFacts DEF ShrinkHeap
  <2> QED BY <1>1, <1>2, <2>1 DEF MaybeHeap
<1>3. CASE keep # 0 /\ align(keep) < h.size
  <2>1. /\ align(keep) \in Nat /\ keep <= align(keep) /\ Paged(align(keep))
        /\ Paged(keep) => align(keep) = keep
    BY AlignFacts
  <2>2. align(keep) \in Nat \ {0} /\ h # NoHeap
    BY <1>1, <1>3, <2>1
  <2>3. g = NewHeap(h.start, align(keep)) /\ h.start \in Addresses
    BY <1>1, <1>3, <2>2 DEF ShrinkHeap, HeapOk
  <2>4. HeapOk(g) /\ g.start = h.start /\ g.size = align(keep)
    BY <2>1, <2>2, <2>3, NewHeapFacts
  <2>5. g # NoHeap
    BY <2>4, NoHeapFacts
  <2> QED BY <1>1, <1>3, <2>1, <2>4, <2>5 DEF MaybeHeap
<1>4. CASE keep # 0 /\ ~ (align(keep) < h.size)
  <2>1. g = h
    BY <1>4 DEF ShrinkHeap
  <2>2. align(keep) \in Nat /\ (Paged(keep) => align(keep) = keep)
    BY AlignFacts
  <2> QED BY <1>1, <1>4, <2>1, <2>2 DEF MaybeHeap
<1> QED BY <1>2, <1>3, <1>4

-----------------------------------------------------------------------------
(***************************************************************************)
(* The search.  What it tries next is between its bounds, however the      *)
(* divisions by the bias are rounded, because the bias is at most a page.  *)
(***************************************************************************)
SearchStates(F) ==
  [low : Int, high : Int, try : Int, factor : F, failures : Nat, found : BOOLEAN]

\* As long as there is something to try, it is pages, between the bounds.
SearchFrom(F, s) ==
  /\ s \in SearchStates(F) /\ 0 < s.low
  /\ s.low <= s.high =>
       /\ Paged(s.low) /\ Paged(s.high) /\ Paged(s.try)
       /\ s.low <= s.try /\ s.try <= s.high

LEMMA NextTryFacts ==
  ASSUME NEW s, NEW low, NEW high, NEW f, s.low = low, s.high = high, s.factor = f,
         f \in 1 .. Page, Paged(low), Paged(high), low <= high
  PROVE  Paged(NextTry(s)) /\ low <= NextTry(s) /\ NextTry(s) <= high
<1> DEFINE h == high \div f
           l == low \div f
           m == (f - 1) * h + l
<1>1. low \in Int /\ high \in Int /\ f \in Nat \ {0} /\ f <= Page /\ Page \in Nat
  BY Constants DEF Paged
<1>2. /\ h \in Int /\ f * h <= high /\ high < f * h + f
      /\ l \in Int /\ f * l <= low /\ low < f * l + f
  <2>1. ASSUME NEW n \in Int PROVE n \div f \in Int /\ f * (n \div f) <= n /\ n < f * (n \div f) + f
    <3> DEFINE q == n \div f
               r == n % f
    <3>1. q \in Int /\ r \in 0 .. f - 1 /\ n = f * q + r
      BY <1>1, DivFacts
    <3> HIDE DEF q, r
    <3>2. f * q \in Int
      BY <1>1, <3>1
    <3>3. f * q <= n /\ n < f * q + f
      BY <1>1, <3>1, <3>2
    <3> QED BY <3>1, <3>3 DEF q
  <2> QED BY <1>1, <2>1
<1> HIDE DEF h, l
<1>3. l <= h
  <2>1. h + 1 <= l => f * (h + 1) <= f * l
    BY <1>1, <1>2, TimesMonotone
  <2>2. f * (h + 1) = f * h + f /\ f * h \in Int /\ f * l \in Int
    BY <1>1, <1>2, TimesNext
  <2> QED BY <1>1, <1>2, <2>1, <2>2
<1>4. m \in Int /\ f * l <= m /\ m <= f * h
  <2> DEFINE g == f - 1
  <2>1. g \in Nat /\ f = g + 1
    BY <1>1
  <2>2. g * l <= g * h
    BY <1>2, <1>3, <2>1, TimesMonotone
  <2>3. f * l = g * l + l /\ f * h = g * h + h /\ g * l \in Int /\ g * h \in Int
    <3> HIDE DEF g
    <3> QED BY <1>2, <2>1
  <2> DEFINE x == g * l
             y == g * h
  <2>4. m = y + l
    OBVIOUS
  <2> HIDE DEF g, m, x, y
  <2>5. x <= y /\ x \in Int /\ y \in Int /\ f * l = x + l /\ f * h = y + h
    BY <2>2, <2>3 DEF x, y
  <2> QED BY <1>2, <1>3, <2>4, <2>5
<1>5. NextTry(s) = align(m)
  BY DEF NextTry, h, l
<1> HIDE DEF m
<1> DEFINE n == align(m)
<1>6. Paged(n) /\ n \in Int /\ m <= n /\ (m <= high => n <= high)
  BY <1>4, AlignFacts
<1> HIDE DEF n
<1>7. m <= high /\ low < m + Page
  <2>1. f * h \in Int /\ f * l \in Int
    BY <1>1, <1>2
  <2> QED BY <1>1, <1>2, <1>4, <2>1
<1>8. n < low => n + Page <= low
  BY <1>6, PagesApart
<1>9. low <= n
  BY <1>1, <1>4, <1>6, <1>7, <1>8
<1> QED BY <1>5, <1>6, <1>7, <1>9 DEF n

LEMMA SearchBegins ==
  ASSUME NEW F, Biased(F), NEW desired \in Int, NEW min \in Nat \ {0},
         NEW s, s = Search(desired, min)
  PROVE  /\ SearchFrom(F, s) /\ min <= s.low /\ s.found = FALSE
         /\ s.low = align(min) /\ s.high = align(Larger(desired, min))
<1> DEFINE d == Larger(desired, min)
<1>1. d \in Int /\ min <= d
  BY DEF Larger
<1> HIDE DEF d
<1>2. /\ Paged(align(min)) /\ align(min) \in Int /\ min <= align(min)
      /\ Paged(align(d)) /\ align(d) \in Int /\ d <= align(d)
      /\ \A m : Paged(m) /\ min <= m => align(min) <= m
  BY <1>1, AlignFacts
<1>3. align(min) <= align(d)
  <2>1. min <= align(d)
    BY <1>1, <1>2
  <2> QED BY <1>2, <2>1
<1>4. s = [low |-> align(min), high |-> align(d), try |-> align(d),
           factor |-> Factor, failures |-> 0, found |-> FALSE]
  BY DEF Search, d
<1>5. Factor \in F
  BY DEF Biased
<1>6. s \in SearchStates(F)
  BY <1>2, <1>4, <1>5 DEF SearchStates
<1>7. s.low = align(min) /\ s.high = align(d) /\ s.try = align(d) /\ s.found = FALSE
  BY <1>4
<1>8. 0 < s.low
  BY <1>2, <1>7
<1> QED BY <1>2, <1>3, <1>6, <1>7, <1>8 DEF SearchFrom, d

LEMMA NoSearchFacts ==
  ASSUME NEW F, Biased(F)
  PROVE  SearchFrom(F, NoSearch) /\ ~ (NoSearch.low <= NoSearch.high) /\ NoSearch.found = FALSE
<1>1. NoSearch \in SearchStates(F)
  BY DEF NoSearch, SearchStates, Biased
<1>2. NoSearch.low = 1 /\ NoSearch.high = 0 /\ NoSearch.found = FALSE
  BY DEF NoSearch
<1> QED BY <1>1, <1>2 DEF SearchFrom

LEMMA RefusedFacts ==
  ASSUME NEW F, Biased(F), SearchFrom(F, search), Searching, NEW grows, Refused(grows)
  PROVE  /\ SearchFrom(F, search') /\ search'.low = search.low /\ search'.found = search.found
         /\ search'.high < search.high
<1> DEFINE lower == [search EXCEPT !.high = search.try - Page, !.failures = (@ + 1) % Rounds]
           f == IF grows /\ lower.factor < Page /\ lower.failures = 0 THEN 2 * lower.factor
                ELSE lower.factor
<1>1. /\ search \in SearchStates(F) /\ 0 < search.low
      /\ Paged(search.low) /\ Paged(search.high) /\ Paged(search.try)
      /\ search.low <= search.try /\ search.try <= search.high
  BY DEF SearchFrom, Searching
<1>2. /\ search.low \in Int /\ search.high \in Int /\ search.try \in Int /\ search.factor \in F
      /\ search.failures \in Nat /\ search.found \in BOOLEAN
  BY <1>1 DEF SearchStates
<1>3. Page \in Nat \ {0} /\ (search.failures + 1) % Rounds \in Nat
  <2>1. Rounds \in Nat \ {0} /\ Page \in Nat \ {0}
    BY Constants
  <2> QED BY <1>2, <2>1
<1>4. /\ lower \in SearchStates(F) /\ lower.low = search.low /\ lower.high = search.try - Page
      /\ lower.factor = search.factor /\ lower.found = search.found
  <2> DEFINE i == search.try - Page
             k == (search.failures + 1) % Rounds
             x == [search EXCEPT !.high = i]
  <2>1. i \in Int /\ k \in Nat
    BY <1>2, <1>3
  <2> HIDE DEF i, k
  <2>2. /\ x \in SearchStates(F) /\ x.low = search.low /\ x.high = i
        /\ x.factor = search.factor /\ x.found = search.found
    BY <1>1, <2>1 DEF SearchStates
  <2>3. lower = [x EXCEPT !.failures = k]
    BY <1>1, <2>2 DEF SearchStates, i, k
  <2> HIDE DEF x, lower
  <2>4. /\ lower \in SearchStates(F) /\ lower.low = x.low /\ lower.high = x.high
        /\ lower.factor = x.factor /\ lower.found = x.found
    BY <2>1, <2>2, <2>3 DEF SearchStates
  <2> QED BY <2>2, <2>4 DEF i
<1>5. F \subseteq 1 .. Page /\ \A g \in F : g < Page => 2 * g \in F
  BY DEF Biased
<1>6. f \in F
  <2> HIDE DEF lower
  <2> QED BY <1>2, <1>4, <1>5
<1>7. search' = [lower EXCEPT !.try = NextTry(lower), !.factor = f]
  BY DEF Refused
<1> HIDE DEF lower, f
<1>8. Paged(lower.high)
  BY <1>1, <1>4, PagedSums
<1>9. lower.low <= lower.high =>
        Paged(NextTry(lower)) /\ lower.low <= NextTry(lower) /\ NextTry(lower) <= lower.high
  BY <1>1, <1>2, <1>4, <1>5, <1>8, NextTryFacts
<1>10. NextTry(lower) \in Int
  <2>1. ASSUME NEW n \in Int, NEW d \in Nat \ {0} PROVE n \div d \in Int
    BY <2>1, DivFacts
  <2>2. lower.factor \in Nat \ {0} /\ lower.low \in Int /\ lower.high \in Int
    <3>1. lower.factor \in 1 .. Page /\ lower.low \in Int /\ lower.high \in Int
      BY <1>2, <1>4, <1>5, <1>8 DEF Paged
    <3> QED BY <1>3, <3>1
  <2> DEFINE h == lower.high \div lower.factor
             l == lower.low \div lower.factor
  <2>3. h \in Int /\ l \in Int
    BY <2>1, <2>2
  <2> HIDE DEF h, l
  <2>4. (lower.factor - 1) * h + l \in Int
    BY <2>2, <2>3
  <2> QED BY <2>4, AlignFacts DEF NextTry, h, l
<1>11. /\ search' \in SearchStates(F) /\ search'.low = lower.low /\ search'.high = lower.high
       /\ search'.try = NextTry(lower) /\ search'.found = lower.found
  BY <1>4, <1>6, <1>7, <1>10 DEF SearchStates
<1>12. search'.high < search.high
  BY <1>1, <1>2, <1>3, <1>4, <1>11
<1> QED BY <1>1, <1>4, <1>8, <1>9, <1>11, <1>12 DEF SearchFrom

LEMMA GrantedFacts ==
  ASSUME NEW F, Biased(F), SearchFrom(F, search), Searching, Granted
  PROVE  /\ SearchFrom(F, search') /\ search.low <= search'.low /\ search'.found = TRUE
         /\ search'.high = search.high /\ search'.low = search.try + Page
<1> DEFINE higher == [search EXCEPT !.low = search.try + Page, !.found = TRUE]
<1>1. /\ search \in SearchStates(F) /\ 0 < search.low
      /\ Paged(search.low) /\ Paged(search.high) /\ Paged(search.try)
      /\ search.low <= search.try /\ search.try <= search.high
  BY DEF SearchFrom, Searching
<1>2. /\ search.low \in Int /\ search.high \in Int /\ search.try \in Int /\ search.factor \in F
      /\ search.failures \in Nat /\ search.found \in BOOLEAN
  BY <1>1 DEF SearchStates
<1>3. Page \in Nat \ {0} /\ F \subseteq 1 .. Page
  BY Constants DEF Biased
<1>4. /\ higher \in SearchStates(F) /\ higher.low = search.try + Page /\ higher.high = search.high
      /\ higher.factor = search.factor /\ higher.found = TRUE
  <2> DEFINE i == search.try + Page
             x == [search EXCEPT !.low = i]
  <2>1. i \in Int
    BY <1>2, <1>3
  <2> HIDE DEF i
  <2>2. /\ x \in SearchStates(F) /\ x.low = i /\ x.high = search.high
        /\ x.factor = search.factor
    BY <1>1, <2>1 DEF SearchStates
  <2>3. higher = [x EXCEPT !.found = TRUE]
    BY DEF i
  <2> HIDE DEF x, higher
  <2>4. /\ higher \in SearchStates(F) /\ higher.low = x.low /\ higher.high = x.high
        /\ higher.factor = x.factor /\ higher.found = TRUE
    BY <2>2, <2>3 DEF SearchStates
  <2> QED BY <2>2, <2>4 DEF i
<1>5. search' = [higher EXCEPT !.try = NextTry(higher)]
  BY DEF Granted
<1> HIDE DEF higher
<1>6. Paged(higher.low)
  BY <1>1, <1>4, PagedSums
<1>7. higher.low <= higher.high =>
        Paged(NextTry(higher)) /\ higher.low <= NextTry(higher) /\ NextTry(higher) <= higher.high
  BY <1>1, <1>2, <1>3, <1>4, <1>6, NextTryFacts
<1>8. NextTry(higher) \in Int
  <2>1. ASSUME NEW n \in Int, NEW d \in Nat \ {0} PROVE n \div d \in Int
    BY <2>1, DivFacts
  <2>2. higher.factor \in Nat \ {0} /\ higher.low \in Int /\ higher.high \in Int
    <3>1. higher.factor \in 1 .. Page /\ higher.low \in Int /\ higher.high \in Int
      BY <1>2, <1>3, <1>4, <1>6 DEF Paged
    <3> QED BY <1>3, <3>1
  <2> DEFINE h == higher.high \div higher.factor
             l == higher.low \div higher.factor
  <2>3. h \in Int /\ l \in Int
    BY <2>1, <2>2
  <2> HIDE DEF h, l
  <2>4. (higher.factor - 1) * h + l \in Int
    BY <2>2, <2>3
  <2> QED BY <2>4, AlignFacts DEF NextTry, h, l
<1>9. /\ search' \in SearchStates(F) /\ search'.low = higher.low /\ search'.high = higher.high
      /\ search'.try = NextTry(higher) /\ search'.found = TRUE
  BY <1>4, <1>5, <1>8 DEF SearchStates
<1>10. search.low <= search'.low /\ 0 < search'.low
  BY <1>1, <1>2, <1>3, <1>4, <1>9
<1> QED BY <1>1, <1>4, <1>6, <1>7, <1>9, <1>10 DEF SearchFrom

-----------------------------------------------------------------------------
(***************************************************************************)
(* The inductive invariant: what is where in each phase.                   *)
(***************************************************************************)
Settled == {"mutator", "choose", "secondary", "copy", "compact", "resize", "resizeSecondary",
            "secondaryRemap", "pack"}
Growing == {"remap", "new", "moving", "disk", "translate"}

GrowStates ==
  [desired : Int, min : Nat, useCurrent : BOOLEAN, origStart : Addresses \cup {NoAddress},
   remaining : Nat]
RequestStates == [bytes : Nat, op : {"none", "collect", "pack", "unpack"}]

\* Two heaps have different addresses.
Apart(g, h) == g = NoHeap \/ h = NoHeap \/ g.start # h.start

TypeInv ==
  /\ controls \in Settings
  /\ MaybeHeap(heap) /\ MaybeHeap(secondary) /\ MaybeHeap(newHeap)
  /\ Apart(heap, secondary) /\ Apart(heap, newHeap) /\ Apart(secondary, newHeap)
  /\ oldGenSize \in Nat /\ bytesLive \in Nat \ {0} /\ kept \in Nat /\ copied \in Nat
  /\ base \in Addresses \cup {NoAddress}
  /\ phase \in Settled \cup Growing \cup {"init", "died"}
  /\ grow \in GrowStates /\ request \in RequestStates

\* What the search settles for is enough for what the phase asks.
SearchInv(F) ==
  /\ SearchFrom(F, search)
  /\ phase = "init" /\ Searching => bytesLive <= search.low
  /\ phase = "secondary" /\ Searching => oldGenSize <= search.low
  /\ phase \in {"remap", "new", "disk"} /\ Searching => grow.min <= search.low
  /\ phase = "remap" /\ search.found => MinSize <= heap.size
  /\ phase = "secondaryRemap" /\ Searching => search.low = heap.size /\ search.high = heap.size
  /\ phase = "secondaryRemap" /\ search.found => secondary.size = heap.size

\* The live data are in the heap, unless they are being moved or are in a file.
DataInv ==
  /\ phase \notin {"init", "died"} => 0 < oldGenSize /\ (onDisk <=> phase = "disk")
  /\ phase \in Settled \cup {"remap", "new", "translate"} =>
       kept = oldGenSize /\ copied = oldGenSize /\ oldGenSize <= heap.size
  /\ phase = "moving" =>
       /\ copied = grow.remaining /\ grow.remaining <= kept /\ grow.remaining <= heap.size
       /\ newHeap # NoHeap /\ grow.min <= newHeap.size
  /\ phase = "disk" => heap = NoHeap /\ copied = oldGenSize
  /\ phase # "moving" => newHeap = NoHeap
  /\ phase = "init" => heap = NoHeap /\ ~ onDisk

\* A heap that grows will have the room that is needed, and the pointers are into the
\* heap as it was.
GrowInv ==
  /\ phase \in Growing => MinSize <= grow.min /\ base = grow.origStart
  /\ phase \in Settled \cup {"init"} => base = heap.start
  /\ phase \in {"remap", "new"} /\ grow.useCurrent => MinSize <= heap.size
  /\ phase = "translate" => MinSize <= heap.size

\* The secondary heap is as large as the heap, or has room for a copy.
SecondaryInv ==
  /\ phase \in Growing \cup {"init", "secondary"} => secondary = NoHeap
  /\ phase \in {"mutator", "choose"} => secondary = NoHeap \/ secondary.size = heap.size
  /\ phase = "copy" => secondary # NoHeap /\ oldGenSize <= secondary.size
  /\ phase = "secondaryRemap" => secondary # NoHeap

\* What was asked for is there when the heap has been resized.
RoomInv ==
  /\ request.op # "collect" => request.bytes = 0
  /\ phase = "init" => request.bytes = 0
  /\ phase = "pack" => request.op = "pack"
  /\ RoomyRatios /\ phase \in {"resizeSecondary", "secondaryRemap", "pack", "mutator"} =>
       MinSize <= heap.size

SizesInv(F) == TypeInv /\ SearchInv(F) /\ DataInv /\ GrowInv /\ SecondaryInv /\ RoomInv

LEMMA SizesInit ==
  ASSUME NEW F, Biased(F), Init
  PROVE  SizesInv(F)
<1>1. /\ controls \in Settings /\ heap = NoHeap /\ secondary = NoHeap /\ newHeap = NoHeap
      /\ oldGenSize = 0 /\ bytesLive = InitialLive /\ InitialLive \in Nat \ {0}
      /\ kept = 0 /\ copied = 0 /\ onDisk = FALSE /\ base = NoAddress
      /\ grow = NoGrow /\ request = NoRequest
  BY Constants DEF Init
<1>2. /\ phase \in {"init", "died"} /\ SearchFrom(F, search) /\ search.found = FALSE
      /\ phase = "init" => bytesLive <= search.low
  <2> DEFINE desired == sizeofHeapDesired(InitialLive, 0)
  <2>1. desired \in Int
    BY <1>1, DesiredFacts, NoHeapFacts
  <2>2. \/ phase = "died" /\ search = NoSearch
        \/ phase = "init" /\ search = Search(desired, InitialLive)
    BY DEF Init
  <2> HIDE DEF desired
  <2> QED BY <1>1, <2>1, <2>2, NoSearchFacts, SearchBegins
<1>3. heap.start = NoAddress
  BY <1>1, NoHeapFacts
<1>4. TypeInv
  <2>1. grow \in GrowStates /\ request \in RequestStates
    BY <1>1 DEF NoGrow, NoRequest, GrowStates, RequestStates
  <2> QED BY <1>1, <1>2, <2>1 DEF TypeInv, MaybeHeap, Apart
<1>5. SearchInv(F)
  BY <1>2 DEF SearchInv
<1>6. DataInv /\ GrowInv /\ SecondaryInv
  BY <1>1, <1>2, <1>3 DEF DataInv, GrowInv, SecondaryInv, Settled, Growing
<1>7. RoomInv
  BY <1>1, <1>2 DEF RoomInv, NoRequest
<1> QED BY <1>4, <1>5, <1>6, <1>7 DEF SizesInv

-----------------------------------------------------------------------------
(***************************************************************************)
(* The operating system refuses or grants a size.                          *)
(***************************************************************************)
LEMMA RefuseStep ==
  ASSUME NEW F, Biased(F), SizesInv(F), RefuseCreate \/ RefuseRemap
  PROVE  SizesInv(F)'
<1>1. PICK grows : Refused(grows)
  BY DEF RefuseCreate, RefuseRemap
<1>2. /\ Searching
      /\ UNCHANGED <<controls, heapVars, dataVars, phase, grow, request, majors>>
  BY DEF RefuseCreate, RefuseRemap
<1>3. /\ SearchFrom(F, search') /\ search'.low = search.low /\ search'.found = search.found
      /\ search'.high < search.high
  BY <1>1, <1>2, RefusedFacts DEF SizesInv, SearchInv
<1>4. TypeInv' /\ DataInv' /\ GrowInv' /\ SecondaryInv' /\ RoomInv'
  BY <1>2 DEF SizesInv, TypeInv, DataInv, GrowInv, SecondaryInv, RoomInv, Apart, MaybeHeap, HeapOk,
              heapVars, dataVars, MinSize
<1>5. SearchInv(F)'
  <2>1. search.low \in Int /\ search.high \in Int /\ search'.high \in Int /\ Searching
    BY <1>2, <1>3 DEF SizesInv, SearchInv, SearchFrom, SearchStates
  <2>2. /\ phase' = "init" /\ Searching' => bytesLive' <= search'.low
        /\ phase' = "secondary" /\ Searching' => oldGenSize' <= search'.low
    BY <1>2, <1>3, <2>1 DEF SizesInv, SearchInv, heapVars
  <2>3. phase' \in {"remap", "new", "disk"} /\ Searching' => grow'.min <= search'.low
    BY <1>2, <1>3, <2>1 DEF SizesInv, SearchInv
  <2>4. phase' = "remap" /\ search'.found => MinSize' <= heap'.size
    BY <1>2, <1>3 DEF SizesInv, SearchInv, MinSize, heapVars
  <2>5. phase' = "secondaryRemap" => ~ Searching'
    BY <1>2, <1>3, <2>1 DEF SizesInv, SearchInv, Searching
  <2>6. phase' = "secondaryRemap" /\ search'.found => secondary'.size = heap'.size
    BY <1>2, <1>3 DEF SizesInv, SearchInv, heapVars
  <2> QED BY <1>3, <2>2, <2>3, <2>4, <2>5, <2>6 DEF SearchInv
<1> QED BY <1>4, <1>5 DEF SizesInv

\* A heap of the size that is granted.
LEMMA CreatedFacts ==
  ASSUME NEW F, SearchFrom(F, search), Searching, NEW a \in Addresses,
         NEW h, h = NewHeap(a, search.try)
  PROVE  /\ HeapOk(h) /\ MaybeHeap(h) /\ h # NoHeap /\ h.start = a /\ h.size = search.try
         /\ h.size \in Nat \ {0} /\ search.low <= h.size /\ h.size <= search.high
         /\ search.low \in Int /\ search.high \in Int
<1>1. /\ search.low \in Int /\ search.high \in Int /\ search.try \in Int /\ 0 < search.low
      /\ Paged(search.try) /\ search.low <= search.try /\ search.try <= search.high
  BY DEF SearchFrom, Searching, SearchStates
<1>2. search.try \in Nat \ {0}
  BY <1>1
<1>3. HeapOk(h) /\ h.start = a /\ h.size = search.try
  BY <1>1, <1>2, NewHeapFacts
<1>4. h # NoHeap
  BY <1>3, NoHeapFacts
<1> QED BY <1>1, <1>2, <1>3, <1>4 DEF MaybeHeap

\* The initial heap: the live data of initWorld fit into it.
LEMMA CreateInitialStep ==
  ASSUME NEW F, Biased(F), SizesInv(F), CreateInitial
  PROVE  SizesInv(F)'
<1>1. /\ phase = "init" /\ search' = NoSearch
      /\ UNCHANGED <<controls, secondary, newHeap, bytesLive, onDisk, grow, request, majors>>
  BY DEF CreateInitial
<1>2. /\ heap = NoHeap /\ secondary = NoHeap /\ newHeap = NoHeap /\ ~ onDisk
      /\ bytesLive \in Nat \ {0} /\ SearchFrom(F, search) /\ request.bytes = 0
      /\ Searching => bytesLive <= search.low
  BY <1>1 DEF SizesInv, TypeInv, SearchInv, DataInv, SecondaryInv, RoomInv
<1>3. CASE phase' = "mutator"
  <2>1. /\ Searching /\ \E a \in FreeAddresses : heap' = NewHeap(a, search.try) /\ base' = a
        /\ oldGenSize' = bytesLive /\ kept' = bytesLive /\ copied' = bytesLive
    BY <1>3 DEF CreateInitial
  <2>2. PICK a \in Addresses : heap' = NewHeap(a, search.try) /\ base' = a
    BY <2>1 DEF FreeAddresses
  <2>3. /\ MaybeHeap(heap') /\ heap' # NoHeap /\ heap'.start = a /\ heap'.size \in Nat
        /\ bytesLive <= heap'.size
    <3>1. /\ MaybeHeap(heap') /\ heap' # NoHeap /\ heap'.start = a /\ heap'.size \in Nat
          /\ search.low <= heap'.size /\ search.low \in Int
      BY <1>2, <2>1, <2>2, CreatedFacts
    <3> QED BY <1>2, <2>1, <3>1
  <2>4. TypeInv'
    BY <1>1, <1>2, <1>3, <2>1, <2>2, <2>3 DEF SizesInv, TypeInv, Apart, MaybeHeap, HeapOk, Settled
  <2>5. SearchInv(F)'
    BY <1>1, <1>3, NoSearchFacts DEF SearchInv
  <2>6. DataInv' /\ GrowInv' /\ SecondaryInv'
    BY <1>1, <1>2, <1>3, <2>1, <2>2, <2>3 DEF DataInv, GrowInv, SecondaryInv, Settled, Growing
  <2>7. RoomInv'
    <3>1. MinSize' = bytesLive
      BY <1>1, <1>2, <2>1 DEF MinSize
    <3> QED BY <1>1, <1>3, <2>3, <3>1 DEF SizesInv, RoomInv
  <2> QED BY <2>4, <2>5, <2>6, <2>7 DEF SizesInv
<1>4. CASE phase' = "died" /\ UNCHANGED <<heap, base, oldGenSize, kept, copied>>
  <2>1. TypeInv'
    BY <1>1, <1>4 DEF SizesInv, TypeInv, Apart, MaybeHeap, HeapOk
  <2>2. SearchInv(F)'
    BY <1>1, <1>4, NoSearchFacts DEF SearchInv
  <2>3. DataInv' /\ GrowInv' /\ SecondaryInv' /\ RoomInv'
    BY <1>1, <1>2, <1>4 DEF SizesInv, DataInv, GrowInv, SecondaryInv, RoomInv, Settled, Growing
  <2> QED BY <2>1, <2>2, <2>3 DEF SizesInv
<1> QED BY <1>3, <1>4 DEF CreateInitial

-----------------------------------------------------------------------------
(***************************************************************************)
(* majorGC.                                                                *)
(***************************************************************************)
\* The mutator has allocated; now the heap is collected, or resized for GC_unpack.
LEMMA BeginStep ==
  ASSUME NEW F, Biased(F), SizesInv(F), NEW live \in Nat, NEW bytes \in Nat,
         \/ MajorGC(live, bytes, "collect") \/ (bytes = 0 /\ MajorGC(live, bytes, "pack"))
         \/ (bytes = 0 /\ Unpack(live)),
         oldGenSize <= live
  PROVE  SizesInv(F)'
<1>1. /\ phase = "mutator" /\ live <= heap.size
      /\ oldGenSize' = live /\ kept' = live /\ copied' = live
      /\ phase' \in {"died", "choose", "resize"}
      /\ UNCHANGED <<controls, heap, secondary, newHeap, bytesLive, onDisk, base, search, grow>>
      /\ \E op \in {"collect", "pack", "unpack"} :
           /\ request' = [bytes |-> bytes, op |-> op]
           /\ op # "collect" => bytes = 0
  BY DEF MajorGC, Unpack
<1>2. request' \in RequestStates /\ (request'.op # "collect" => request'.bytes = 0)
  BY <1>1 DEF RequestStates
<1>3. 0 < live /\ ~ onDisk /\ newHeap = NoHeap
  <2>1. 0 < oldGenSize /\ oldGenSize \in Nat /\ ~ onDisk /\ newHeap = NoHeap
    BY <1>1 DEF SizesInv, TypeInv, DataInv
  <2> QED BY <2>1
<1>4. TypeInv'
  BY <1>1, <1>2 DEF SizesInv, TypeInv, Apart, MaybeHeap, HeapOk, Settled
<1>5. SearchInv(F)'
  BY <1>1 DEF SizesInv, SearchInv
<1>6. DataInv' /\ GrowInv' /\ SecondaryInv'
  BY <1>1, <1>3 DEF SizesInv, DataInv, GrowInv, SecondaryInv, Settled, Growing
<1>7. RoomInv'
  BY <1>1, <1>2 DEF RoomInv
<1> QED BY <1>4, <1>5, <1>6, <1>7 DEF SizesInv

LEMMA CollectStep ==
  ASSUME NEW F, Biased(F), SizesInv(F), Collect
  PROVE  SizesInv(F)'
<1>1. PICK more \in Allocations :
        \/ \E bytes \in Requests : MajorGC(oldGenSize + more, bytes, "collect")
        \/ MajorGC(oldGenSize + more, 0, "pack") \/ Unpack(oldGenSize + more)
  BY DEF Collect
<1>2. /\ oldGenSize + more \in Nat /\ oldGenSize <= oldGenSize + more /\ Requests \subseteq Nat
  <2>1. oldGenSize \in Nat /\ Allocations \subseteq Nat /\ Requests \subseteq Nat
    BY Constants DEF SizesInv, TypeInv
  <2> QED BY <2>1
<1> QED BY <1>1, <1>2, BeginStep

LEMMA ChooseStep ==
  ASSUME NEW F, Biased(F), SizesInv(F), NEW hash \in BOOLEAN, ChooseMajor(hash)
  PROVE  SizesInv(F)'
<1> DEFINE desired == sizeofHeapDesired(bytesLive + request.bytes, 0)
<1>1. /\ phase = "choose"
      /\ UNCHANGED <<controls, heapVars, dataVars, grow, request, majors>>
      /\ \/ phase' = "compact" /\ search' = search
         \/ phase' = "copy" /\ search' = search /\ secondary # NoHeap
         \/ phase' = "secondary" /\ search' = Search(desired, oldGenSize) /\ secondary = NoHeap
  BY DEF ChooseMajor
<1>2. /\ oldGenSize \in Nat \ {0} /\ oldGenSize <= heap.size /\ ~ onDisk /\ newHeap = NoHeap
      /\ SearchFrom(F, search) /\ (secondary = NoHeap \/ secondary.size = heap.size)
  BY <1>1 DEF SizesInv, TypeInv, DataInv, SearchInv, SecondaryInv, Settled
<1>3. desired \in Int
  <2>1. bytesLive + request.bytes \in Nat \ {0} /\ controls \in Settings
    BY DEF SizesInv, TypeInv, RequestStates
  <2> QED BY <2>1, DesiredFacts, NoHeapFacts
<1> HIDE DEF desired
<1>4. /\ SearchFrom(F, search')
      /\ phase' = "secondary" => oldGenSize <= search'.low
  BY <1>1, <1>2, <1>3, SearchBegins
<1>5. TypeInv' /\ DataInv' /\ GrowInv' /\ RoomInv'
  BY <1>1, <1>2 DEF SizesInv, TypeInv, DataInv, GrowInv, RoomInv, Apart, MaybeHeap, HeapOk,
     heapVars, dataVars, Settled, Growing
<1>6. SearchInv(F)'
  BY <1>1, <1>4 DEF SearchInv, heapVars
<1>7. SecondaryInv'
  BY <1>1, <1>2 DEF SecondaryInv, heapVars, Growing
<1> QED BY <1>5, <1>6, <1>7 DEF SizesInv

LEMMA CreateSecondaryStep ==
  ASSUME NEW F, Biased(F), SizesInv(F), CreateSecondary
  PROVE  SizesInv(F)'
<1>1. /\ phase = "secondary" /\ search' = NoSearch
      /\ UNCHANGED <<controls, heap, newHeap, oldGenSize, bytesLive, dataVars, grow, request, majors>>
      /\ \/ /\ Searching /\ phase' = "copy"
            /\ \E a \in FreeAddresses : secondary' = NewHeap(a, search.try)
         \/ phase' = "compact" /\ UNCHANGED secondary
  BY DEF CreateSecondary
<1>2. /\ oldGenSize \in Nat \ {0} /\ newHeap = NoHeap /\ ~ onDisk /\ SearchFrom(F, search)
      /\ Searching => oldGenSize <= search.low
  BY <1>1 DEF SizesInv, TypeInv, DataInv, SearchInv
<1>3. /\ MaybeHeap(secondary') /\ Apart(heap, secondary')
      /\ phase' = "copy" => secondary' # NoHeap /\ oldGenSize <= secondary'.size
  <2>1. CASE phase' = "copy"
    <3>1. PICK a \in FreeAddresses : secondary' = NewHeap(a, search.try)
      BY <1>1, <2>1
    <3>2. a \in Addresses /\ a # heap.start
      BY DEF FreeAddresses
    <3>3. /\ MaybeHeap(secondary') /\ secondary' # NoHeap /\ secondary'.start = a
          /\ search.low <= secondary'.size /\ search.low \in Int /\ secondary'.size \in Nat
      BY <1>1, <1>2, <2>1, <3>1, <3>2, CreatedFacts
    <3>4. oldGenSize <= secondary'.size
      BY <1>1, <1>2, <2>1, <3>3
    <3> QED BY <3>2, <3>3, <3>4 DEF Apart
  <2>2. CASE phase' = "compact" /\ secondary' = secondary
    BY <2>2 DEF SizesInv, TypeInv
  <2> QED BY <1>1, <2>1, <2>2
<1>4. TypeInv'
  BY <1>1, <1>2, <1>3 DEF SizesInv, TypeInv, Apart, MaybeHeap, HeapOk, dataVars, Settled
<1>5. SearchInv(F)'
  BY <1>1, NoSearchFacts DEF SearchInv
<1>6. DataInv' /\ GrowInv' /\ RoomInv'
  BY <1>1, <1>2 DEF SizesInv, DataInv, GrowInv, RoomInv, dataVars, Settled, Growing
<1>7. SecondaryInv'
  BY <1>1, <1>3 DEF SecondaryInv, Growing
<1> QED BY <1>4, <1>5, <1>6, <1>7 DEF SizesInv

\* Half of what is live, rounded up, may survive.
LEMMA SurvivorFacts ==
  ASSUME oldGenSize \in Nat \ {0}, NEW live \in Survivors
  PROVE  live \in Nat \ {0} /\ live <= oldGenSize
BY DEF Survivors

\* The heaps are swapped: what survives has room in the other one.
LEMMA CopyStep ==
  ASSUME NEW F, Biased(F), SizesInv(F), NEW live \in Survivors, Copy(live)
  PROVE  SizesInv(F)'
<1>1. /\ phase = "copy" /\ heap' = secondary /\ secondary' = heap /\ base' = secondary.start
      /\ oldGenSize' = live /\ bytesLive' = live
      /\ kept' = Smaller(live, secondary.size) /\ copied' = live
      /\ phase' = AfterMajor
      /\ UNCHANGED <<controls, newHeap, onDisk, search, grow, request, majors>>
  BY DEF Copy
<1>2. /\ oldGenSize \in Nat \ {0} /\ oldGenSize <= secondary.size /\ newHeap = NoHeap /\ ~ onDisk
      /\ secondary # NoHeap /\ SearchFrom(F, search)
  BY <1>1 DEF SizesInv, TypeInv, DataInv, SecondaryInv, SearchInv
<1>3. /\ live \in Nat \ {0} /\ secondary.size \in Nat /\ live <= secondary.size
      /\ HeapOk(secondary)
  <2>1. live \in Nat \ {0} /\ live <= oldGenSize /\ secondary.size \in Nat /\ HeapOk(secondary)
    BY <1>2, SurvivorFacts, MaybeHeapFacts DEF SizesInv, TypeInv
  <2> QED BY <1>2, <2>1
<1>4. kept' = live
  BY <1>1, <1>3 DEF Smaller
<1>5. /\ phase' \in {"resize", "resizeSecondary"}
      /\ phase' = "resizeSecondary" => request.op # "collect"
  BY <1>1 DEF AfterMajor
<1>6. TypeInv'
  <2>1. secondary.start \in Addresses
    BY <1>3 DEF HeapOk
  <2>2. MaybeHeap(heap') /\ MaybeHeap(secondary') /\ Apart(heap', secondary')
    BY <1>1 DEF SizesInv, TypeInv, Apart
  <2>3. Apart(heap', newHeap') /\ Apart(secondary', newHeap')
    BY <1>1, <1>2 DEF Apart
  <2> QED BY <1>1, <1>3, <1>4, <1>5, <2>1, <2>2, <2>3 DEF SizesInv, TypeInv, Settled, Apart, MaybeHeap, HeapOk
<1>7. SearchInv(F)'
  BY <1>1, <1>2, <1>5 DEF SearchInv
<1>8. DataInv' /\ GrowInv' /\ SecondaryInv'
  BY <1>1, <1>2, <1>3, <1>4, <1>5 DEF DataInv, GrowInv, SecondaryInv, Settled, Growing
<1>9. RoomInv'
  <2>1. phase' = "resizeSecondary" => MinSize' <= heap'.size
    BY <1>1, <1>3, <1>5 DEF SizesInv, RoomInv, MinSize
  <2> QED BY <1>1, <1>5, <2>1 DEF SizesInv, RoomInv
<1> QED BY <1>6, <1>7, <1>8, <1>9 DEF SizesInv

LEMMA CompactStep ==
  ASSUME NEW F, Biased(F), SizesInv(F), NEW live \in Survivors, Compact(live)
  PROVE  SizesInv(F)'
<1>1. /\ phase = "compact" /\ oldGenSize' = live /\ bytesLive' = live /\ kept' = live /\ copied' = live
      /\ phase' = AfterMajor
      /\ UNCHANGED <<controls, heap, secondary, newHeap, onDisk, base, search, grow, request, majors>>
  BY DEF Compact
<1>2. /\ oldGenSize \in Nat \ {0} /\ oldGenSize <= heap.size /\ newHeap = NoHeap /\ ~ onDisk
      /\ SearchFrom(F, search) /\ base = heap.start
  BY <1>1 DEF SizesInv, TypeInv, DataInv, SearchInv, GrowInv, Settled
<1>3. live \in Nat \ {0} /\ heap.size \in Nat /\ live <= heap.size
  <2>1. live \in Nat \ {0} /\ live <= oldGenSize /\ heap.size \in Nat
    BY <1>2, SurvivorFacts, MaybeHeapFacts DEF SizesInv, TypeInv
  <2> QED BY <1>2, <2>1
<1>4. /\ phase' \in {"resize", "resizeSecondary"}
      /\ phase' = "resizeSecondary" => request.op # "collect"
  BY <1>1 DEF AfterMajor
<1>5. TypeInv'
  BY <1>1, <1>3, <1>4 DEF SizesInv, TypeInv, Apart, MaybeHeap, HeapOk, Settled
<1>6. SearchInv(F)'
  BY <1>1, <1>2, <1>4 DEF SearchInv
<1>7. DataInv' /\ GrowInv' /\ SecondaryInv'
  BY <1>1, <1>2, <1>3, <1>4 DEF DataInv, GrowInv, SecondaryInv, Settled, Growing
<1>8. RoomInv'
  <2>1. phase' = "resizeSecondary" => MinSize' <= heap'.size
    BY <1>1, <1>3, <1>4 DEF SizesInv, RoomInv, MinSize
  <2> QED BY <1>1, <1>4, <2>1 DEF SizesInv, RoomInv
<1> QED BY <1>5, <1>6, <1>7, <1>8 DEF SizesInv

-----------------------------------------------------------------------------
(***************************************************************************)
(* resizeHeap and growHeap.                                                *)
(***************************************************************************)
\* What is to be made room for.
LEMMA MinSizeFacts ==
  ASSUME oldGenSize \in Nat, request \in RequestStates
  PROVE  /\ MinSize \in Nat /\ oldGenSize <= MinSize /\ request.bytes \in Nat
         /\ 0 < oldGenSize => MinSize \in Nat \ {0}
BY DEF MinSize, RequestStates

\* The heap dies, is shrunk to the size desired, or begins to grow.
LEMMA ResizeStep ==
  ASSUME NEW F, Biased(F), SizesInv(F), ResizeHeap
  PROVE  SizesInv(F)'
<1> DEFINE desired == sizeofHeapDesired(MinSize, heap.size)
           useCurrent == align(MinSize) <= heap.size
           min == IF useCurrent THEN heap.size + Page ELSE align(MinSize)
<1>1. /\ phase = "resize"
      /\ \/ /\ desired = Die /\ phase' = "died"
            /\ UNCHANGED <<heap, kept, secondary, grow, search>>
         \/ /\ desired # Die /\ desired <= heap.size
            /\ heap' = ShrinkHeap(heap, desired) /\ kept' = Smaller(kept, heap'.size)
            /\ phase' = "resizeSecondary"
            /\ UNCHANGED <<secondary, grow, search>>
         \/ /\ desired > heap.size
            /\ secondary' = NoHeap
            /\ grow' = [desired |-> desired, min |-> min, useCurrent |-> useCurrent,
                        origStart |-> heap.start, remaining |-> 0]
            /\ phase' = "remap"
            /\ search' = IF controls.remap THEN Search(desired, min) ELSE NoSearch
            /\ UNCHANGED <<heap, kept>>
      /\ UNCHANGED <<controls, newHeap, oldGenSize, bytesLive, copied, onDisk, base, request, majors>>
  BY DEF ResizeHeap
<1>2. /\ oldGenSize \in Nat \ {0} /\ kept = oldGenSize /\ copied = oldGenSize
      /\ oldGenSize <= heap.size /\ newHeap = NoHeap /\ ~ onDisk
      /\ SearchFrom(F, search) /\ base = heap.start /\ heap.size \in Nat /\ Paged(heap.size)
      /\ MaybeHeap(heap) /\ heap # NoHeap /\ HeapOk(heap)
  <2>1. /\ oldGenSize \in Nat \ {0} /\ kept = oldGenSize /\ copied = oldGenSize
        /\ oldGenSize <= heap.size /\ newHeap = NoHeap /\ ~ onDisk
        /\ SearchFrom(F, search) /\ base = heap.start /\ MaybeHeap(heap)
    BY <1>1 DEF SizesInv, TypeInv, DataInv, SearchInv, GrowInv, Settled
  <2>2. heap.size \in Nat /\ Paged(heap.size) /\ (heap = NoHeap => heap.size = 0)
        /\ (heap # NoHeap => HeapOk(heap))
    BY <2>1, MaybeHeapFacts
  <2> QED BY <2>1, <2>2
<1>3. MinSize \in Nat \ {0} /\ oldGenSize <= MinSize /\ MinSize' = MinSize
  BY <1>1, <1>2, MinSizeFacts DEF SizesInv, TypeInv, MinSize
<1>4. /\ desired \in Int
      /\ desired # Die =>
           /\ desired \in Nat /\ Paged(desired)
           /\ align(MinSize) <= desired \/ desired = heap.size
           /\ RoomyRatios => align(MinSize) <= desired
  BY <1>2, <1>3, DesiredFacts DEF SizesInv, TypeInv
<1>5. align(MinSize) \in Nat /\ MinSize <= align(MinSize) /\ Page \in Nat \ {0}
  BY <1>3, AlignFacts, Constants
<1>6. /\ min \in Nat \ {0} /\ MinSize <= min /\ useCurrent \in BOOLEAN
      /\ useCurrent => MinSize <= heap.size
  BY <1>2, <1>3, <1>5
<1> HIDE DEF desired, useCurrent, min
<1>7. CASE desired = Die /\ phase' = "died" /\ UNCHANGED <<heap, kept, secondary, grow, search>>
  <2>1. TypeInv'
    BY <1>1, <1>7 DEF SizesInv, TypeInv, Apart, MaybeHeap, HeapOk
  <2>2. SearchInv(F)'
    BY <1>2, <1>7 DEF SearchInv
  <2>3. DataInv' /\ GrowInv' /\ SecondaryInv' /\ RoomInv'
    BY <1>1, <1>2, <1>7 DEF SizesInv, DataInv, GrowInv, SecondaryInv, RoomInv, Settled, Growing
  <2> QED BY <2>1, <2>2, <2>3 DEF SizesInv
<1>8. CASE /\ desired # Die /\ desired <= heap.size
           /\ heap' = ShrinkHeap(heap, desired) /\ kept' = Smaller(kept, heap'.size)
           /\ phase' = "resizeSecondary"
           /\ UNCHANGED <<secondary, grow, search>>
  <2>1. desired \in Nat /\ oldGenSize <= desired /\ (RoomyRatios => MinSize <= desired)
    BY <1>2, <1>3, <1>4, <1>5, <1>8
  <2>2. /\ MaybeHeap(heap') /\ desired <= heap'.size
        /\ heap' # NoHeap /\ heap'.start = heap.start /\ heap'.size \in Nat
    <3>1. desired > 0
      BY <1>2, <2>1
    <3>2. /\ MaybeHeap(heap') /\ desired <= heap'.size /\ heap' # NoHeap
          /\ heap'.start = heap.start
      BY <1>2, <1>8, <2>1, <3>1, ShrinkFacts
    <3> QED BY <3>2, MaybeHeapFacts
  <2>3. oldGenSize <= heap'.size /\ kept' = oldGenSize /\ (RoomyRatios => MinSize <= heap'.size)
    BY <1>2, <1>3, <1>8, <2>1, <2>2 DEF Smaller
  <2>4. Apart(heap', secondary) /\ Apart(heap', newHeap)
    BY <1>2, <2>2 DEF SizesInv, TypeInv, Apart
  <2>5. TypeInv'
    BY <1>1, <1>2, <1>8, <2>2, <2>3, <2>4 DEF SizesInv, TypeInv, Apart, MaybeHeap, HeapOk, Settled
  <2>6. SearchInv(F)'
    BY <1>2, <1>8 DEF SearchInv
  <2>7. DataInv' /\ GrowInv' /\ SecondaryInv'
    BY <1>1, <1>2, <1>8, <2>2, <2>3 DEF DataInv, GrowInv, SecondaryInv, Settled, Growing
  <2>8. RoomInv'
    BY <1>1, <1>3, <1>8, <2>3 DEF SizesInv, RoomInv
  <2> QED BY <2>5, <2>6, <2>7, <2>8 DEF SizesInv
<1>9. CASE /\ desired > heap.size /\ secondary' = NoHeap
           /\ grow' = [desired |-> desired, min |-> min, useCurrent |-> useCurrent,
                       origStart |-> heap.start, remaining |-> 0]
           /\ phase' = "remap" /\ search' = IF controls.remap THEN Search(desired, min) ELSE NoSearch
           /\ UNCHANGED <<heap, kept>>
  <2>1. /\ grow' \in GrowStates /\ grow'.min = min /\ grow'.useCurrent = useCurrent
        /\ grow'.origStart = heap.start
    BY <1>2, <1>4, <1>6, <1>9 DEF GrowStates, HeapOk
  <2>2. /\ SearchFrom(F, search') /\ search'.found = FALSE
        /\ Searching' => min <= search'.low
    <3>1. CASE controls.remap
      BY <1>4, <1>6, <1>9, <3>1, SearchBegins
    <3>2. CASE ~ controls.remap
      <4>1. ~ (search'.low <= search'.high) /\ SearchFrom(F, search') /\ search'.found = FALSE
        BY <1>9, <3>2, NoSearchFacts
      <4> QED BY <4>1 DEF Searching
    <3> QED BY <3>1, <3>2
  <2>3. TypeInv'
    BY <1>1, <1>2, <1>9, <2>1 DEF SizesInv, TypeInv, Apart, MaybeHeap, HeapOk, Growing
  <2>4. SearchInv(F)'
    BY <1>9, <2>1, <2>2 DEF SearchInv
  <2>5. DataInv' /\ SecondaryInv'
    BY <1>1, <1>2, <1>9 DEF DataInv, SecondaryInv, Settled, Growing
  <2>6. GrowInv'
    BY <1>1, <1>2, <1>3, <1>6, <1>9, <2>1 DEF GrowInv, Settled, Growing
  <2>7. RoomInv'
    BY <1>1, <1>9 DEF SizesInv, RoomInv
  <2> QED BY <2>3, <2>4, <2>5, <2>6, <2>7 DEF SizesInv
<1> QED BY <1>1, <1>7, <1>8, <1>9

\* Common to the phases of growing.
LEMMA GrowingFacts ==
  ASSUME NEW F, SizesInv(F), phase \in Growing
  PROVE  /\ oldGenSize \in Nat \ {0} /\ copied \in Nat /\ kept \in Nat
         /\ MinSize \in Nat \ {0} /\ oldGenSize <= MinSize
         /\ grow \in GrowStates /\ grow.min \in Nat \ {0} /\ MinSize <= grow.min
         /\ oldGenSize <= grow.min /\ grow.desired \in Int /\ grow.remaining \in Nat
         /\ base = grow.origStart /\ secondary = NoHeap /\ SearchFrom(F, search)
         /\ MaybeHeap(heap) /\ MaybeHeap(newHeap) /\ heap.size \in Nat /\ newHeap.size \in Nat
         /\ search.low \in Int
<1>1. /\ oldGenSize \in Nat \ {0} /\ request \in RequestStates /\ grow \in GrowStates
      /\ MinSize <= grow.min /\ base = grow.origStart /\ secondary = NoHeap /\ SearchFrom(F, search)
      /\ MaybeHeap(heap) /\ MaybeHeap(newHeap) /\ copied \in Nat /\ kept \in Nat
  BY DEF SizesInv, TypeInv, DataInv, GrowInv, SecondaryInv, SearchInv, Growing, Settled
<1>2. MinSize \in Nat \ {0} /\ oldGenSize <= MinSize
  BY <1>1, MinSizeFacts
<1>3. grow.min \in Nat /\ grow.desired \in Int /\ grow.remaining \in Nat
  BY <1>1 DEF GrowStates
<1>4. heap.size \in Nat /\ newHeap.size \in Nat
  BY <1>1, MaybeHeapFacts
<1>5. search.low \in Int
  BY <1>1 DEF SearchFrom, SearchStates
<1> QED BY <1>1, <1>2, <1>3, <1>4, <1>5

LEMMA RemapStep ==
  ASSUME NEW F, Biased(F), SizesInv(F), RemapHeap
  PROVE  SizesInv(F)'
<1>1. /\ phase = "remap" /\ Searching /\ Granted
      /\ UNCHANGED <<controls, secondary, newHeap, oldGenSize, bytesLive, dataVars, phase, grow,
                     request, majors>>
  BY DEF RemapHeap
<1>2. /\ newHeap = NoHeap /\ kept = oldGenSize /\ copied = oldGenSize /\ ~ onDisk
      /\ oldGenSize <= heap.size /\ grow.min <= search.low
  BY <1>1 DEF SizesInv, SearchInv, DataInv, Settled, Growing
<1>3. /\ oldGenSize \in Nat \ {0} /\ MinSize \in Nat \ {0} /\ oldGenSize <= MinSize
      /\ MinSize <= grow.min /\ base = grow.origStart /\ secondary = NoHeap /\ SearchFrom(F, search)
      /\ grow.min \in Nat /\ heap.size \in Nat
  BY <1>1, GrowingFacts DEF Growing
<1>4. PICK a \in Addresses : heap' = NewHeap(a, search.try)
  <2>1. PICK a \in FreeAddresses \cup {heap.start} : heap' = NewHeap(a, search.try)
    BY DEF RemapHeap
  <2>2. HeapOk(heap)
    <3>1. heap # NoHeap
      BY <1>2, <1>3, NoHeapFacts
    <3> QED BY <3>1 DEF SizesInv, TypeInv, MaybeHeap
  <2>3. a \in Addresses
    BY <2>1, <2>2 DEF FreeAddresses, HeapOk
  <2> QED BY <2>1, <2>3
<1>5. /\ MaybeHeap(heap') /\ heap' # NoHeap /\ heap'.size \in Nat /\ search.low <= heap'.size
      /\ search.low \in Int
  BY <1>1, <1>3, <1>4, CreatedFacts
<1>6. MinSize <= heap'.size /\ oldGenSize <= heap'.size /\ MinSize' = MinSize
  <2>1. MinSize' = MinSize
    BY <1>1 DEF MinSize
  <2> QED BY <1>2, <1>3, <1>5, <2>1
<1>7. /\ SearchFrom(F, search') /\ search.low <= search'.low /\ search'.low \in Int
  <2>1. SearchFrom(F, search') /\ search.low <= search'.low
    BY <1>1, <1>3, GrantedFacts
  <2> QED BY <2>1 DEF SearchFrom, SearchStates
<1>8. TypeInv'
  BY <1>1, <1>2, <1>3, <1>5 DEF SizesInv, TypeInv, Apart, MaybeHeap, HeapOk, dataVars
<1>9. SearchInv(F)'
  <2>1. grow'.min <= search'.low
    BY <1>1, <1>2, <1>3, <1>5, <1>7
  <2> QED BY <1>1, <1>6, <1>7, <2>1 DEF SearchInv
<1>10. DataInv' /\ GrowInv' /\ SecondaryInv'
  BY <1>1, <1>2, <1>3, <1>6 DEF DataInv, GrowInv, SecondaryInv, dataVars, Settled, Growing
<1>11. RoomInv'
  BY <1>1 DEF SizesInv, RoomInv
<1> QED BY <1>8, <1>9, <1>10, <1>11 DEF SizesInv

LEMMA EndRemapStep ==
  ASSUME NEW F, Biased(F), SizesInv(F), EndRemap
  PROVE  SizesInv(F)'
<1>1. /\ phase = "remap" /\ ~ Searching
      /\ \/ search.found /\ phase' = "translate" /\ search' = NoSearch /\ UNCHANGED <<heap, kept>>
         \/ /\ heap' = (IF grow.useCurrent THEN heap ELSE ShrinkHeap(heap, oldGenSize))
            /\ kept' = Smaller(kept, heap'.size)
            /\ phase' = "new"
            /\ search' = IF WithMaps(grow.min) <= SizeMax - heap'.withMaps
                         THEN Search(grow.desired, grow.min) ELSE NoSearch
      /\ UNCHANGED <<controls, secondary, newHeap, oldGenSize, bytesLive, copied, onDisk, base, grow,
                     request, majors>>
  BY DEF EndRemap
<1>2. /\ newHeap = NoHeap /\ kept = oldGenSize /\ copied = oldGenSize /\ ~ onDisk
      /\ oldGenSize <= heap.size
      /\ grow.useCurrent => MinSize <= heap.size
      /\ search.found => MinSize <= heap.size
  BY <1>1 DEF SizesInv, SearchInv, DataInv, GrowInv, Settled, Growing
<1>3. /\ oldGenSize \in Nat \ {0} /\ MinSize \in Nat \ {0} /\ oldGenSize <= MinSize
      /\ MinSize <= grow.min /\ base = grow.origStart /\ secondary = NoHeap
      /\ grow.min \in Nat \ {0} /\ grow.desired \in Int /\ heap.size \in Nat /\ MaybeHeap(heap)
  BY <1>1, GrowingFacts DEF Growing
<1>4. MinSize' = MinSize
  BY <1>1 DEF MinSize
<1>5. CASE search.found /\ phase' = "translate" /\ search' = NoSearch /\ UNCHANGED <<heap, kept>>
  <2>1. TypeInv'
    BY <1>1, <1>5 DEF SizesInv, TypeInv, Apart, MaybeHeap, HeapOk, Growing
  <2>2. SearchInv(F)'
    BY <1>5, NoSearchFacts DEF SearchInv
  <2>3. DataInv' /\ GrowInv' /\ SecondaryInv'
    BY <1>1, <1>2, <1>3, <1>4, <1>5 DEF DataInv, GrowInv, SecondaryInv, Settled, Growing
  <2>4. RoomInv'
    BY <1>1, <1>5 DEF SizesInv, RoomInv
  <2> QED BY <2>1, <2>2, <2>3, <2>4 DEF SizesInv
<1>6. CASE /\ heap' = (IF grow.useCurrent THEN heap ELSE ShrinkHeap(heap, oldGenSize))
           /\ kept' = Smaller(kept, heap'.size)
           /\ phase' = "new"
           /\ search' = IF WithMaps(grow.min) <= SizeMax - heap'.withMaps
                        THEN Search(grow.desired, grow.min) ELSE NoSearch
  <2>1. /\ MaybeHeap(heap') /\ oldGenSize <= heap'.size /\ heap'.size \in Nat
        /\ grow.useCurrent => MinSize <= heap'.size
    <3>1. CASE grow.useCurrent
      BY <1>2, <1>3, <1>6, <3>1
    <3>2. CASE ~ grow.useCurrent
      <4>1. MaybeHeap(heap') /\ oldGenSize <= heap'.size
        BY <1>2, <1>3, <1>6, <3>2, ShrinkFacts
      <4> QED BY <3>2, <4>1, MaybeHeapFacts
    <3> QED BY <3>1, <3>2
  <2>2. kept' = oldGenSize
    BY <1>2, <1>3, <1>6, <2>1 DEF Smaller
  <2>3. SearchFrom(F, search') /\ (Searching' => grow.min <= search'.low)
    <3>1. CASE search' = Search(grow.desired, grow.min)
      BY <1>3, <3>1, SearchBegins
    <3>2. CASE search' = NoSearch
      <4>1. ~ (search'.low <= search'.high) /\ SearchFrom(F, search')
        BY <3>2, NoSearchFacts
      <4> QED BY <4>1 DEF Searching
    <3> QED BY <1>6, <3>1, <3>2
  <2>4. TypeInv'
    BY <1>1, <1>2, <1>3, <1>6, <2>1, <2>2 DEF SizesInv, TypeInv, Apart, Growing, MaybeHeap, HeapOk
  <2>5. SearchInv(F)'
    BY <1>1, <1>6, <2>3 DEF SearchInv
  <2>6. DataInv' /\ GrowInv' /\ SecondaryInv'
    BY <1>1, <1>2, <1>3, <1>4, <1>6, <2>1, <2>2 DEF DataInv, GrowInv, SecondaryInv, Settled, Growing
  <2>7. RoomInv'
    BY <1>1, <1>6 DEF SizesInv, RoomInv
  <2> QED BY <2>4, <2>5, <2>6, <2>7 DEF SizesInv
<1> QED BY <1>1, <1>5, <1>6

LEMMA CreateNewStep ==
  ASSUME NEW F, Biased(F), SizesInv(F), CreateNew
  PROVE  SizesInv(F)'
<1>1. /\ phase = "new" /\ Searching
      /\ \E a \in FreeAddresses : newHeap' = NewHeap(a, search.try)
      /\ heap' = ShrinkHeap(heap, oldGenSize) /\ kept' = Smaller(kept, heap'.size)
      /\ grow' = [grow EXCEPT !.remaining = oldGenSize]
      /\ phase' = "moving" /\ search' = NoSearch
      /\ UNCHANGED <<controls, secondary, oldGenSize, bytesLive, copied, onDisk, base, request, majors>>
  BY DEF CreateNew
<1>2. /\ newHeap = NoHeap /\ kept = oldGenSize /\ copied = oldGenSize /\ ~ onDisk
      /\ oldGenSize <= heap.size /\ grow.min <= search.low
  BY <1>1 DEF SizesInv, SearchInv, DataInv, Settled, Growing
<1>3. /\ oldGenSize \in Nat \ {0} /\ MinSize \in Nat \ {0} /\ MinSize <= grow.min
      /\ base = grow.origStart /\ secondary = NoHeap /\ SearchFrom(F, search)
      /\ grow \in GrowStates /\ grow.min \in Nat /\ heap.size \in Nat /\ MaybeHeap(heap)
  BY <1>1, GrowingFacts DEF Growing
<1>4. MinSize' = MinSize
  BY <1>1 DEF MinSize
<1>5. /\ grow' \in GrowStates /\ grow'.min = grow.min /\ grow'.origStart = grow.origStart
      /\ grow'.remaining = oldGenSize
  BY <1>1, <1>3 DEF GrowStates
<1>6. /\ MaybeHeap(heap') /\ oldGenSize <= heap'.size /\ heap'.size \in Nat
      /\ heap' # NoHeap => heap'.start = heap.start
  <2>1. /\ MaybeHeap(heap') /\ oldGenSize <= heap'.size
        /\ heap' # NoHeap => heap'.start = heap.start
    BY <1>1, <1>2, <1>3, ShrinkFacts
  <2> QED BY <2>1, MaybeHeapFacts
<1>7. /\ MaybeHeap(newHeap') /\ newHeap' # NoHeap /\ grow.min <= newHeap'.size
      /\ newHeap'.start # heap.start
  <2>1. PICK a \in FreeAddresses : newHeap' = NewHeap(a, search.try)
    BY <1>1
  <2>2. a \in Addresses /\ a # heap.start
    BY DEF FreeAddresses
  <2>3. /\ MaybeHeap(newHeap') /\ newHeap' # NoHeap /\ newHeap'.start = a
        /\ search.low <= newHeap'.size /\ search.low \in Int /\ newHeap'.size \in Nat
    BY <1>1, <1>3, <2>1, <2>2, CreatedFacts
  <2> QED BY <1>2, <1>3, <2>2, <2>3
<1>8. kept' = oldGenSize
  BY <1>1, <1>2, <1>3, <1>6 DEF Smaller
<1>9. Apart(heap', newHeap')
  BY <1>6, <1>7 DEF Apart
<1>10. TypeInv'
  BY <1>1, <1>3, <1>5, <1>6, <1>7, <1>8, <1>9
     DEF SizesInv, TypeInv, Apart, Growing, MaybeHeap, HeapOk
<1>11. SearchInv(F)'
  BY <1>1, NoSearchFacts DEF SearchInv
<1>12. DataInv' /\ GrowInv' /\ SecondaryInv'
  BY <1>1, <1>2, <1>3, <1>4, <1>5, <1>6, <1>7, <1>8 DEF DataInv, GrowInv, SecondaryInv, Settled, Growing
<1>13. RoomInv'
  BY <1>1 DEF SizesInv, RoomInv
<1> QED BY <1>10, <1>11, <1>12, <1>13 DEF SizesInv

\* A chunk is copied before it is given back.
LEMMA CopyChunkStep ==
  ASSUME NEW F, Biased(F), SizesInv(F), CopyChunk
  PROVE  SizesInv(F)'
<1> DEFINE rest == grow.remaining - Chunk
<1>1. /\ phase = "moving" /\ grow.remaining >= Chunk
      /\ grow' = [grow EXCEPT !.remaining = rest] /\ copied' = rest
      /\ heap' = ShrinkHeap(heap, rest) /\ kept' = Smaller(kept, heap'.size)
      /\ UNCHANGED <<controls, secondary, newHeap, oldGenSize, bytesLive, onDisk, base, phase, search,
                     request, majors>>
  BY DEF CopyChunk
<1>2. /\ copied = grow.remaining /\ grow.remaining <= kept /\ grow.remaining <= heap.size
      /\ newHeap # NoHeap /\ grow.min <= newHeap.size /\ ~ onDisk /\ 0 < oldGenSize
  BY <1>1 DEF SizesInv, DataInv
<1>3. /\ oldGenSize \in Nat \ {0} /\ MinSize <= grow.min /\ kept \in Nat
      /\ base = grow.origStart /\ secondary = NoHeap /\ SearchFrom(F, search)
      /\ grow \in GrowStates /\ heap.size \in Nat /\ grow.remaining \in Nat /\ MaybeHeap(heap)
  BY <1>1, GrowingFacts DEF Growing
<1>4. rest \in Nat /\ rest <= grow.remaining
  BY <1>1, <1>3, Constants
<1> HIDE DEF rest
<1>5. /\ grow' \in GrowStates /\ grow'.min = grow.min /\ grow'.origStart = grow.origStart
      /\ grow'.remaining = rest
  BY <1>1, <1>3, <1>4 DEF GrowStates
<1>6. /\ MaybeHeap(heap') /\ rest <= heap'.size /\ heap'.size \in Nat
      /\ heap' # NoHeap => heap'.start = heap.start /\ heap # NoHeap
  <2>1. rest <= heap.size
    BY <1>2, <1>3, <1>4
  <2>2. /\ MaybeHeap(heap') /\ rest <= heap'.size /\ heap'.size <= heap.size
        /\ heap' # NoHeap => heap'.start = heap.start
    BY <1>1, <1>3, <1>4, <2>1, ShrinkFacts
  <2>3. /\ heap'.size \in Nat
        /\ heap = NoHeap => heap.size = 0
        /\ heap'.size = 0 => heap' = NoHeap
    BY <1>3, <2>2, MaybeHeapFacts
  <2> QED BY <2>2, <2>3
<1>7. kept' \in Nat /\ rest <= kept'
  BY <1>1, <1>2, <1>3, <1>4, <1>6 DEF Smaller
<1>8. Apart(heap', newHeap')
  BY <1>1, <1>2, <1>6 DEF SizesInv, TypeInv, Apart
<1>9. TypeInv'
  BY <1>1, <1>3, <1>4, <1>5, <1>6, <1>7, <1>8
     DEF SizesInv, TypeInv, Apart, MaybeHeap, HeapOk
<1>10. SearchInv(F)'
  BY <1>1, <1>3 DEF SearchInv
<1>11. MinSize' = MinSize
  BY <1>1 DEF MinSize
<1>12. DataInv' /\ GrowInv' /\ SecondaryInv'
  BY <1>1, <1>2, <1>3, <1>5, <1>6, <1>7, <1>11 DEF DataInv, GrowInv, SecondaryInv, Settled, Growing
<1>13. RoomInv'
  BY <1>1 DEF SizesInv, RoomInv
<1> QED BY <1>9, <1>10, <1>12, <1>13 DEF SizesInv

LEMMA CopyLastStep ==
  ASSUME NEW F, Biased(F), SizesInv(F), CopyLast
  PROVE  SizesInv(F)'
<1>1. /\ phase = "moving" /\ heap' = newHeap /\ newHeap' = NoHeap
      /\ kept' = oldGenSize /\ copied' = oldGenSize
      /\ phase' = "translate"
      /\ UNCHANGED <<controls, secondary, oldGenSize, bytesLive, onDisk, base, search, grow, request,
                     majors>>
  BY DEF CopyLast
<1>2. newHeap # NoHeap /\ grow.min <= newHeap.size /\ ~ onDisk
  BY <1>1 DEF SizesInv, DataInv
<1>3. /\ oldGenSize \in Nat \ {0} /\ MinSize <= grow.min /\ MinSize \in Nat /\ grow.min \in Nat
      /\ oldGenSize <= MinSize /\ base = grow.origStart /\ secondary = NoHeap
      /\ SearchFrom(F, search) /\ newHeap.size \in Nat /\ MaybeHeap(newHeap)
  BY <1>1, GrowingFacts DEF Growing
<1>4. MinSize' = MinSize /\ MinSize <= heap'.size /\ oldGenSize <= heap'.size
  <2>1. MinSize' = MinSize
    BY <1>1 DEF MinSize
  <2> QED BY <1>1, <1>2, <1>3, <2>1
<1>5. TypeInv'
  BY <1>1, <1>3, NoHeapFacts DEF SizesInv, TypeInv, Apart, MaybeHeap, HeapOk, Growing
<1>6. SearchInv(F)'
  BY <1>1, <1>3 DEF SearchInv
<1>7. DataInv' /\ GrowInv' /\ SecondaryInv'
  BY <1>1, <1>2, <1>3, <1>4 DEF DataInv, GrowInv, SecondaryInv, Settled, Growing
<1>8. RoomInv'
  BY <1>1 DEF SizesInv, RoomInv
<1> QED BY <1>5, <1>6, <1>7, <1>8 DEF SizesInv

LEMMA NotCreatedStep ==
  ASSUME NEW F, Biased(F), SizesInv(F), NotCreated
  PROVE  SizesInv(F)'
<1>1. /\ phase = "new"
      /\ \/ grow.useCurrent /\ phase' = "translate" /\ UNCHANGED <<heap, kept, onDisk, search>>
         \/ /\ onDisk' = TRUE /\ heap' = NoHeap /\ kept' = 0
            /\ phase' = "disk" /\ search' = Search(grow.desired, grow.min)
         \/ phase' = "died" /\ UNCHANGED <<heap, kept, onDisk, search>>
      /\ UNCHANGED <<controls, secondary, newHeap, oldGenSize, bytesLive, copied, base, grow, request,
                     majors>>
  BY DEF NotCreated
<1>2. /\ newHeap = NoHeap /\ kept = oldGenSize /\ copied = oldGenSize /\ ~ onDisk
      /\ oldGenSize <= heap.size
      /\ grow.useCurrent => MinSize <= heap.size
  BY <1>1 DEF SizesInv, DataInv, GrowInv, Settled, Growing
<1>3. /\ oldGenSize \in Nat \ {0} /\ MinSize <= grow.min /\ base = grow.origStart
      /\ secondary = NoHeap /\ grow.min \in Nat \ {0} /\ grow.desired \in Int
      /\ SearchFrom(F, search)
  BY <1>1, GrowingFacts DEF Growing
<1>4. MinSize' = MinSize
  BY <1>1 DEF MinSize
<1>5. CASE grow.useCurrent /\ phase' = "translate" /\ UNCHANGED <<heap, kept, onDisk, search>>
  <2>1. TypeInv'
    BY <1>1, <1>5 DEF SizesInv, TypeInv, Apart, MaybeHeap, HeapOk, Growing
  <2>2. SearchInv(F)'
    BY <1>3, <1>5 DEF SearchInv
  <2>3. DataInv' /\ GrowInv' /\ SecondaryInv'
    BY <1>1, <1>2, <1>3, <1>4, <1>5 DEF DataInv, GrowInv, SecondaryInv, Settled, Growing
  <2>4. RoomInv'
    BY <1>1, <1>5 DEF SizesInv, RoomInv
  <2> QED BY <2>1, <2>2, <2>3, <2>4 DEF SizesInv
<1>6. CASE /\ onDisk' = TRUE /\ heap' = NoHeap /\ kept' = 0
           /\ phase' = "disk" /\ search' = Search(grow.desired, grow.min)
  <2>1. SearchFrom(F, search') /\ grow.min <= search'.low
    BY <1>3, <1>6, SearchBegins
  <2>2. TypeInv'
    BY <1>1, <1>6 DEF SizesInv, TypeInv, Apart, MaybeHeap, HeapOk, Growing
  <2>3. SearchInv(F)'
    BY <1>1, <1>6, <2>1 DEF SearchInv
  <2>4. DataInv' /\ GrowInv' /\ SecondaryInv'
    BY <1>1, <1>2, <1>3, <1>4, <1>6 DEF DataInv, GrowInv, SecondaryInv, Settled, Growing
  <2>5. RoomInv'
    BY <1>1, <1>6 DEF SizesInv, RoomInv
  <2> QED BY <2>2, <2>3, <2>4, <2>5 DEF SizesInv
<1>7. CASE phase' = "died" /\ UNCHANGED <<heap, kept, onDisk, search>>
  <2>1. TypeInv'
    BY <1>1, <1>7 DEF SizesInv, TypeInv, Apart, MaybeHeap, HeapOk
  <2>2. SearchInv(F)'
    BY <1>3, <1>7 DEF SearchInv
  <2>3. DataInv' /\ GrowInv' /\ SecondaryInv' /\ RoomInv'
    BY <1>1, <1>2, <1>7 DEF SizesInv, DataInv, GrowInv, SecondaryInv, RoomInv, Settled, Growing
  <2> QED BY <2>1, <2>2, <2>3 DEF SizesInv
<1> QED BY <1>1, <1>5, <1>6, <1>7

LEMMA CreateFromDiskStep ==
  ASSUME NEW F, Biased(F), SizesInv(F), CreateFromDisk
  PROVE  SizesInv(F)'
<1>1. /\ phase = "disk" /\ search' = NoSearch
      /\ \/ /\ Searching
            /\ \E a \in FreeAddresses : heap' = NewHeap(a, search.try)
            /\ onDisk' = FALSE /\ kept' = oldGenSize
            /\ phase' = "translate"
         \/ phase' = "died" /\ UNCHANGED <<heap, onDisk, kept>>
      /\ UNCHANGED <<controls, secondary, newHeap, oldGenSize, bytesLive, copied, base, grow, request,
                     majors>>
  BY DEF CreateFromDisk
<1>2. /\ newHeap = NoHeap /\ heap = NoHeap
      /\ Searching => grow.min <= search.low
  BY <1>1 DEF SizesInv, DataInv, SearchInv
<1>3. /\ oldGenSize \in Nat \ {0} /\ MinSize \in Nat /\ MinSize <= grow.min
      /\ base = grow.origStart /\ secondary = NoHeap /\ grow.min \in Nat
      /\ oldGenSize <= MinSize /\ SearchFrom(F, search)
  BY <1>1, GrowingFacts DEF Growing
<1>4. CASE /\ Searching /\ \E a \in FreeAddresses : heap' = NewHeap(a, search.try)
           /\ onDisk' = FALSE /\ kept' = oldGenSize /\ phase' = "translate"
  <2>1. PICK a \in Addresses : heap' = NewHeap(a, search.try)
    BY <1>4 DEF FreeAddresses
  <2>2. /\ MaybeHeap(heap') /\ search.low <= heap'.size /\ search.low \in Int /\ heap'.size \in Nat
    BY <1>3, <1>4, <2>1, CreatedFacts
  <2>3. MinSize' = MinSize /\ MinSize <= heap'.size /\ oldGenSize <= heap'.size
    <3>1. MinSize' = MinSize
      BY <1>1 DEF MinSize
    <3> QED BY <1>2, <1>3, <1>4, <2>2, <3>1
  <2>4. copied = oldGenSize
    BY <1>1 DEF SizesInv, DataInv
  <2>5. TypeInv'
    BY <1>1, <1>2, <1>3, <1>4, <2>2 DEF SizesInv, TypeInv, Apart, MaybeHeap, HeapOk, Growing
  <2>6. SearchInv(F)'
    BY <1>1, <1>4, NoSearchFacts DEF SearchInv
  <2>7. DataInv' /\ GrowInv' /\ SecondaryInv'
    BY <1>1, <1>2, <1>3, <1>4, <2>3, <2>4 DEF DataInv, GrowInv, SecondaryInv, Settled, Growing
  <2>8. RoomInv'
    BY <1>1, <1>4 DEF SizesInv, RoomInv
  <2> QED BY <2>5, <2>6, <2>7, <2>8 DEF SizesInv
<1>5. CASE phase' = "died" /\ UNCHANGED <<heap, onDisk, kept>>
  <2>1. TypeInv'
    BY <1>1, <1>5 DEF SizesInv, TypeInv, Apart, MaybeHeap, HeapOk
  <2>2. SearchInv(F)'
    BY <1>1, <1>5, NoSearchFacts DEF SearchInv
  <2>3. DataInv' /\ GrowInv' /\ SecondaryInv' /\ RoomInv'
    BY <1>1, <1>2, <1>5 DEF SizesInv, DataInv, GrowInv, SecondaryInv, RoomInv, Settled, Growing
  <2> QED BY <2>1, <2>2, <2>3 DEF SizesInv
<1> QED BY <1>1, <1>4, <1>5

\* The pointers follow the heap.
LEMMA TranslateStep ==
  ASSUME NEW F, Biased(F), SizesInv(F), TranslateHeap
  PROVE  SizesInv(F)'
<1>1. /\ phase = "translate" /\ base' = (IF grow.origStart # heap.start THEN heap.start ELSE base)
      /\ grow' = NoGrow /\ phase' = "resizeSecondary"
      /\ UNCHANGED <<controls, heapVars, kept, copied, onDisk, search, request, majors>>
  BY DEF TranslateHeap
<1>2. /\ newHeap = NoHeap /\ kept = oldGenSize /\ copied = oldGenSize /\ ~ onDisk
      /\ oldGenSize <= heap.size /\ MinSize <= heap.size /\ secondary = NoHeap
      /\ oldGenSize \in Nat \ {0} /\ SearchFrom(F, search) /\ base = grow.origStart
  BY <1>1 DEF SizesInv, TypeInv, DataInv, GrowInv, SecondaryInv, SearchInv, Settled, Growing
<1>3. base' = heap.start /\ heap.start \in Addresses \cup {NoAddress} /\ grow' \in GrowStates
  <2>1. heap.start \in Addresses \cup {NoAddress}
    BY NoHeapFacts DEF SizesInv, TypeInv, MaybeHeap, HeapOk
  <2> QED BY <1>1, <1>2, <2>1 DEF NoGrow, GrowStates
<1>4. TypeInv'
  BY <1>1, <1>3 DEF SizesInv, TypeInv, Apart, MaybeHeap, HeapOk, heapVars, Settled
<1>5. SearchInv(F)'
  BY <1>1, <1>2 DEF SearchInv
<1>6. DataInv' /\ GrowInv' /\ SecondaryInv'
  BY <1>1, <1>2, <1>3 DEF DataInv, GrowInv, SecondaryInv, heapVars, Settled, Growing
<1>7. RoomInv'
  <2>1. MinSize' <= heap'.size
    BY <1>1, <1>2 DEF MinSize, heapVars
  <2> QED BY <1>1, <2>1 DEF SizesInv, RoomInv
<1> QED BY <1>4, <1>5, <1>6, <1>7 DEF SizesInv

-----------------------------------------------------------------------------
(***************************************************************************)
(* resizeHeapSecondary, and the end of GC_pack.                            *)
(***************************************************************************)
\* The secondary heap is NoHeap or as large as the heap when all is done.
LEMMA FinishStep ==
  ASSUME NEW F, Biased(F), SizesInv(F), phase \in {"resizeSecondary", "secondaryRemap"},
         phase' = Finished, SearchFrom(F, search'), MaybeHeap(secondary'),
         secondary' = NoHeap \/ secondary'.start = secondary.start,
         secondary' = NoHeap \/ secondary # NoHeap,
         secondary' = NoHeap \/ secondary'.size = heap.size,
         UNCHANGED <<controls, heap, newHeap, oldGenSize, bytesLive, dataVars, grow, request, majors>>
  PROVE  SizesInv(F)'
<1>1. /\ newHeap = NoHeap /\ kept = oldGenSize /\ copied = oldGenSize /\ ~ onDisk
      /\ oldGenSize <= heap.size /\ oldGenSize \in Nat \ {0} /\ base = heap.start
  BY DEF SizesInv, TypeInv, DataInv, GrowInv, Settled, Growing
<1>2. /\ phase' \in {"mutator", "pack"}
      /\ phase' = "pack" => request.op = "pack"
  BY DEF Finished
<1>3. Apart(heap', secondary') /\ Apart(secondary', newHeap')
  BY <1>1 DEF SizesInv, TypeInv, Apart
<1>4. TypeInv'
  BY <1>2, <1>3 DEF SizesInv, TypeInv, Apart, MaybeHeap, HeapOk, dataVars, Settled
<1>5. SearchInv(F)'
  BY <1>2 DEF SearchInv
<1>6. DataInv' /\ GrowInv' /\ SecondaryInv'
  BY <1>1, <1>2 DEF DataInv, GrowInv, SecondaryInv, dataVars, Settled, Growing
<1>7. RoomInv'
  <2>1. MinSize' = MinSize
    BY DEF MinSize
  <2> QED BY <1>2, <2>1 DEF SizesInv, RoomInv
<1> QED BY <1>4, <1>5, <1>6, <1>7 DEF SizesInv

LEMMA ResizeSecondaryStep ==
  ASSUME NEW F, Biased(F), SizesInv(F), ResizeSecondary
  PROVE  SizesInv(F)'
<1>1. /\ phase = "resizeSecondary"
      /\ \/ /\ phase' = "secondaryRemap" /\ UNCHANGED secondary /\ secondary.size > 0
            /\ search' = IF controls.remap THEN Search(heap.size, heap.size) ELSE NoSearch
         \/ /\ secondary.size >= heap.size \/ secondary' = NoHeap
            /\ secondary' = NoHeap \/ secondary' = ShrinkHeap(secondary, heap.size)
            /\ phase' = Finished /\ UNCHANGED search
      /\ UNCHANGED <<controls, heap, newHeap, oldGenSize, bytesLive, dataVars, grow, request, majors>>
  <2>1. /\ phase = "resizeSecondary"
        /\ UNCHANGED <<controls, heap, newHeap, oldGenSize, bytesLive, dataVars, grow, request, majors>>
    BY DEF ResizeSecondary
  <2> DEFINE paging == 2 * heap.withMaps > controls.ram
  <2>2. \/ /\ phase' = "secondaryRemap" /\ UNCHANGED secondary /\ secondary.size > 0
           /\ search' = IF controls.remap THEN Search(heap.size, heap.size) ELSE NoSearch
        \/ /\ secondary.size = 0 \/ paging \/ secondary.size >= heap.size
           /\ secondary' = IF secondary.size = 0 \/ paging THEN NoHeap
                           ELSE ShrinkHeap(secondary, heap.size)
           /\ phase' = Finished /\ UNCHANGED search
    BY DEF ResizeSecondary
  <2> HIDE DEF paging
  <2> QED BY <2>1, <2>2
<1>2. /\ heap.size \in Nat \ {0} /\ Paged(heap.size) /\ MaybeHeap(secondary)
      /\ SearchFrom(F, search) /\ secondary.size \in Nat
  <2>1. /\ oldGenSize \in Nat \ {0} /\ oldGenSize <= heap.size /\ SearchFrom(F, search)
        /\ MaybeHeap(heap) /\ MaybeHeap(secondary)
    BY <1>1 DEF SizesInv, TypeInv, DataInv, SearchInv, Settled
  <2>2. heap.size \in Nat /\ Paged(heap.size) /\ secondary.size \in Nat
    BY <2>1, MaybeHeapFacts
  <2> QED BY <2>1, <2>2
<1>3. CASE /\ phase' = "secondaryRemap" /\ UNCHANGED secondary /\ secondary.size > 0
           /\ search' = IF controls.remap THEN Search(heap.size, heap.size) ELSE NoSearch
  <2>1. /\ SearchFrom(F, search') /\ search'.found = FALSE
        /\ Searching' => search'.low = heap.size /\ search'.high = heap.size
    <3>1. CASE controls.remap
      <4>1. Larger(heap.size, heap.size) = heap.size /\ align(heap.size) = heap.size
        BY <1>2, AlignFacts DEF Larger
      <4>2. heap.size \in Int /\ heap.size \in Nat \ {0} /\ Biased(F)
        BY <1>2
      <4>3. search' = Search(heap.size, heap.size)
        BY <1>3, <3>1
      <4>4. ASSUME NEW m \in Nat \ {0}, NEW s, s = Search(m, m)
            PROVE  /\ SearchFrom(F, s) /\ s.found = FALSE /\ s.low = align(m)
                   /\ s.high = align(Larger(m, m))
        <5>1. m \in Int /\ Biased(F)
          BY <4>2
        <5> QED BY <4>4, <5>1, SearchBegins
      <4>5. /\ SearchFrom(F, search') /\ search'.found = FALSE /\ search'.low = align(heap.size)
            /\ search'.high = align(Larger(heap.size, heap.size))
        BY <4>2, <4>3, <4>4
      <4> QED BY <4>1, <4>5
    <3>2. CASE ~ controls.remap
      <4>1. ~ (search'.low <= search'.high) /\ SearchFrom(F, search') /\ search'.found = FALSE
        BY <1>3, <3>2, NoSearchFacts
      <4> QED BY <4>1 DEF Searching
    <3> QED BY <3>1, <3>2
  <2>2. TypeInv'
    BY <1>1, <1>3 DEF SizesInv, TypeInv, Apart, MaybeHeap, HeapOk, dataVars, Settled
  <2>3. SearchInv(F)'
    BY <1>1, <1>3, <2>1 DEF SearchInv
  <2>4. DataInv' /\ GrowInv' /\ SecondaryInv'
    <3>1. secondary' # NoHeap
      BY <1>3, NoHeapFacts
    <3> QED BY <1>1, <1>3, <3>1 DEF SizesInv, DataInv, GrowInv, SecondaryInv, dataVars, Settled, Growing
  <2>5. RoomInv'
    <3>1. MinSize' = MinSize
      BY <1>1 DEF MinSize
    <3> QED BY <1>1, <1>3, <3>1 DEF SizesInv, RoomInv
  <2> QED BY <2>2, <2>3, <2>4, <2>5 DEF SizesInv
<1>4. CASE /\ secondary.size >= heap.size \/ secondary' = NoHeap
           /\ secondary' = NoHeap \/ secondary' = ShrinkHeap(secondary, heap.size)
           /\ phase' = Finished /\ UNCHANGED search
  <2>1. /\ MaybeHeap(secondary')
        /\ secondary' = NoHeap \/ secondary'.start = secondary.start
        /\ secondary' = NoHeap \/ secondary # NoHeap
        /\ secondary' = NoHeap \/ secondary'.size = heap.size
    <3>1. CASE secondary' = NoHeap
      BY <3>1 DEF MaybeHeap
    <3>2. CASE secondary' # NoHeap
      <4>1. secondary' = ShrinkHeap(secondary, heap.size) /\ heap.size <= secondary.size
        BY <1>2, <1>4, <3>2
      <4>2. /\ MaybeHeap(secondary') /\ secondary'.start = secondary.start
            /\ secondary'.size = heap.size
        BY <1>2, <3>2, <4>1, ShrinkFacts
      <4>3. secondary # NoHeap
        BY <1>2, <4>1, NoHeapFacts
      <4> QED BY <4>2, <4>3
    <3> QED BY <3>1, <3>2
  <2> QED BY <1>1, <1>2, <1>4, <2>1, FinishStep
<1> QED BY <1>1, <1>3, <1>4

LEMMA RemapSecondaryStep ==
  ASSUME NEW F, Biased(F), SizesInv(F), RemapSecondary
  PROVE  SizesInv(F)'
<1>1. /\ phase = "secondaryRemap"
      /\ \/ /\ Searching /\ Granted /\ UNCHANGED phase
            /\ \E a \in FreeAddresses \cup {secondary.start} : secondary' = NewHeap(a, search.try)
         \/ /\ secondary' = IF search.found THEN secondary ELSE NoHeap
            /\ search' = NoSearch /\ phase' = Finished
      /\ UNCHANGED <<controls, heap, newHeap, oldGenSize, bytesLive, dataVars, grow, request, majors>>
  BY DEF RemapSecondary
<1>2. /\ SearchFrom(F, search) /\ heap.size \in Nat /\ MaybeHeap(secondary) /\ newHeap = NoHeap
      /\ Searching => search.low = heap.size /\ search.high = heap.size
      /\ search.found => secondary.size = heap.size
      /\ secondary # NoHeap /\ heap # NoHeap
  <2>1. /\ SearchFrom(F, search) /\ MaybeHeap(heap) /\ MaybeHeap(secondary) /\ newHeap = NoHeap
        /\ Searching => search.low = heap.size /\ search.high = heap.size
        /\ search.found => secondary.size = heap.size
        /\ secondary # NoHeap
    BY <1>1 DEF SizesInv, TypeInv, SearchInv, DataInv, SecondaryInv
  <2>2. oldGenSize \in Nat \ {0} /\ oldGenSize <= heap.size
    BY <1>1 DEF SizesInv, TypeInv, DataInv, Settled
  <2> QED BY <2>1, <2>2, MaybeHeapFacts
<1>3. CASE /\ Searching /\ Granted /\ UNCHANGED phase
           /\ \E a \in FreeAddresses \cup {secondary.start} : secondary' = NewHeap(a, search.try)
  <2>1. PICK a \in FreeAddresses \cup {secondary.start} : secondary' = NewHeap(a, search.try)
    BY <1>3
  <2>2. a \in Addresses /\ a # heap.start
    <3>1. secondary.start \in Addresses
      BY <1>2, MaybeHeapFacts DEF HeapOk
    <3>2. secondary.start # heap.start
      BY <1>2 DEF SizesInv, TypeInv, Apart
    <3> QED BY <2>1, <3>1, <3>2 DEF FreeAddresses
  <2>3. /\ MaybeHeap(secondary') /\ secondary' # NoHeap /\ secondary'.start = a
        /\ secondary'.size = search.try
    BY <1>2, <1>3, <2>1, <2>2, CreatedFacts
  <2>4. secondary'.size = heap.size /\ search.try \in Int
    BY <1>2, <1>3, <2>3 DEF SearchFrom, Searching, SearchStates
  <2>5. /\ SearchFrom(F, search') /\ search'.found = TRUE
        /\ search'.high = search.high /\ search'.low = search.try + Page
    BY <1>2, <1>3, GrantedFacts
  <2>6. ~ Searching'
    <3>1. /\ Page \in Nat \ {0} /\ search.try = heap.size /\ search.high = heap.size
      BY <1>2, <1>3, <2>3, <2>4, Constants
    <3>2. search'.low = heap.size + Page /\ search'.high = heap.size
      BY <2>5, <3>1
    <3>3. ~ (search'.low <= search'.high)
      BY <1>2, <3>1, <3>2
    <3> QED BY <3>3 DEF Searching
  <2>7. Apart(heap', secondary') /\ Apart(secondary', newHeap')
    BY <1>1, <1>2, <2>2, <2>3 DEF Apart
  <2>8. TypeInv'
    BY <1>1, <1>3, <2>3, <2>7 DEF SizesInv, TypeInv, Apart, MaybeHeap, HeapOk, dataVars
  <2>9. SearchInv(F)'
    BY <1>1, <1>3, <2>4, <2>5, <2>6 DEF SearchInv
  <2>10. DataInv' /\ GrowInv' /\ SecondaryInv'
    BY <1>1, <1>3, <2>3 DEF SizesInv, DataInv, GrowInv, SecondaryInv, dataVars, Settled, Growing
  <2>11. RoomInv'
    <3>1. MinSize' = MinSize
      BY <1>1 DEF MinSize
    <3> QED BY <1>1, <1>3, <3>1 DEF SizesInv, RoomInv
  <2> QED BY <2>8, <2>9, <2>10, <2>11 DEF SizesInv
<1>4. CASE /\ secondary' = IF search.found THEN secondary ELSE NoHeap
           /\ search' = NoSearch /\ phase' = Finished
  <2>1. SearchFrom(F, search')
    BY <1>2, <1>4, NoSearchFacts
  <2>2. /\ MaybeHeap(secondary')
        /\ secondary' = NoHeap \/ secondary'.start = secondary.start
        /\ secondary' = NoHeap \/ secondary # NoHeap
        /\ secondary' = NoHeap \/ secondary'.size = heap.size
    <3>1. CASE search.found
      BY <1>2, <1>4, <3>1
    <3>2. CASE ~ search.found
      BY <1>4, <3>2 DEF MaybeHeap
    <3> QED BY <3>1, <3>2
  <2> QED BY <1>1, <1>4, <2>1, <2>2, FinishStep
<1> QED BY <1>1, <1>3, <1>4

LEMMA PackStep ==
  ASSUME NEW F, Biased(F), SizesInv(F), Pack
  PROVE  SizesInv(F)'
<1> DEFINE keep == (11 * oldGenSize) \div 10
<1>1. /\ phase = "pack" /\ phase' = "mutator" /\ secondary' = NoHeap
      /\ heap' = IF keep <= heap.size THEN ShrinkHeap(heap, keep) ELSE heap
      /\ kept' = Smaller(kept, heap'.size)
      /\ UNCHANGED <<controls, newHeap, oldGenSize, bytesLive, copied, onDisk, base, search, grow,
                     request, majors>>
  BY DEF Pack
<1>2. /\ newHeap = NoHeap /\ kept = oldGenSize /\ copied = oldGenSize /\ ~ onDisk
      /\ oldGenSize <= heap.size /\ oldGenSize \in Nat \ {0} /\ base = heap.start
      /\ request.op = "pack" /\ request.bytes = 0 /\ MaybeHeap(heap) /\ SearchFrom(F, search)
  BY <1>1 DEF SizesInv, TypeInv, SearchInv, DataInv, GrowInv, RoomInv, Settled, Growing
<1>3. keep \in Nat \ {0} /\ oldGenSize <= keep
  BY <1>2
<1> HIDE DEF keep
<1>4. heap # NoHeap /\ heap.size \in Nat
  BY <1>2, MaybeHeapFacts
<1>5. /\ MaybeHeap(heap') /\ heap'.start = heap.start /\ heap'.size \in Nat
      /\ oldGenSize <= heap'.size
  <2>1. CASE keep <= heap.size
    <3>1. heap' = ShrinkHeap(heap, keep)
      BY <1>1, <2>1
    <3>2. /\ MaybeHeap(heap') /\ heap' # NoHeap /\ heap'.start = heap.start /\ keep <= heap'.size
      BY <1>2, <1>3, <1>4, <2>1, <3>1, ShrinkFacts
    <3>3. heap'.size \in Nat
      BY <3>2, MaybeHeapFacts
    <3> QED BY <1>2, <1>3, <3>2, <3>3
  <2>2. CASE ~ (keep <= heap.size)
    BY <1>1, <1>2, <1>4, <2>2
  <2> QED BY <2>1, <2>2
<1>6. kept' = oldGenSize
  BY <1>1, <1>2, <1>5 DEF Smaller
<1>7. TypeInv'
  BY <1>1, <1>2, <1>5, <1>6 DEF SizesInv, TypeInv, Apart, MaybeHeap, Settled
<1>8. SearchInv(F)'
  BY <1>1, <1>2 DEF SearchInv
<1>9. DataInv' /\ GrowInv' /\ SecondaryInv'
  BY <1>1, <1>2, <1>5, <1>6 DEF DataInv, GrowInv, SecondaryInv, Settled, Growing
<1>10. RoomInv'
  <2>1. MinSize' <= heap'.size
    BY <1>1, <1>2, <1>5 DEF MinSize
  <2> QED BY <1>1, <1>2, <2>1 DEF RoomInv
<1> QED BY <1>7, <1>8, <1>9, <1>10 DEF SizesInv

-----------------------------------------------------------------------------
(***************************************************************************)
(* The invariant holds throughout, and implies what the runs check.        *)
(***************************************************************************)
LEMMA SizesStutter ==
  ASSUME NEW F, SizesInv(F), UNCHANGED vars
  PROVE  SizesInv(F)'
<1>1. UNCHANGED <<controls, heap, secondary, newHeap, oldGenSize, bytesLive, kept, copied, onDisk,
                  base, phase, search, grow, request, majors>>
  BY DEF vars, heapVars, dataVars
<1>2. TypeInv'
  BY <1>1 DEF SizesInv, TypeInv, Apart, MaybeHeap, HeapOk
<1>3. MinSize' = MinSize /\ Searching' = Searching
  BY <1>1 DEF MinSize, Searching
<1>4. SearchInv(F)'
  BY <1>1, <1>3 DEF SizesInv, SearchInv
<1>5. DataInv' /\ GrowInv' /\ SecondaryInv'
  BY <1>1, <1>3 DEF SizesInv, DataInv, GrowInv, SecondaryInv
<1>6. RoomInv'
  BY <1>1, <1>3 DEF SizesInv, RoomInv
<1> QED BY <1>2, <1>4, <1>5, <1>6 DEF SizesInv

LEMMA SizesNext ==
  ASSUME NEW F, Biased(F), SizesInv(F), Next
  PROVE  SizesInv(F)'
<1>1. CASE Collect
  BY <1>1, CollectStep
<1>2. CASE RefuseCreate \/ RefuseRemap
  BY <1>2, RefuseStep
<1>3. CASE CreateInitial
  BY <1>3, CreateInitialStep
<1>4. CASE CreateSecondary
  BY <1>4, CreateSecondaryStep
<1>5. CASE \E hashConsDuringGC \in BOOLEAN : ChooseMajor(hashConsDuringGC)
  BY <1>5, ChooseStep
<1>6. CASE \E live \in Survivors : Copy(live) \/ Compact(live)
  BY <1>6, CopyStep, CompactStep
<1>7. CASE ResizeHeap
  BY <1>7, ResizeStep
<1>8. CASE RemapHeap
  BY <1>8, RemapStep
<1>9. CASE EndRemap
  BY <1>9, EndRemapStep
<1>10. CASE CreateNew
  BY <1>10, CreateNewStep
<1>11. CASE CopyChunk
  BY <1>11, CopyChunkStep
<1>12. CASE CopyLast
  BY <1>12, CopyLastStep
<1>13. CASE NotCreated
  BY <1>13, NotCreatedStep
<1>14. CASE CreateFromDisk
  BY <1>14, CreateFromDiskStep
<1>15. CASE TranslateHeap
  BY <1>15, TranslateStep
<1>16. CASE ResizeSecondary
  BY <1>16, ResizeSecondaryStep
<1>17. CASE RemapSecondary
  BY <1>17, RemapSecondaryStep
<1>18. CASE Pack
  BY <1>18, PackStep
<1> QED BY <1>1, <1>2, <1>3, <1>4, <1>5, <1>6, <1>7, <1>8, <1>9, <1>10, <1>11, <1>12, <1>13, <1>14,
          <1>15, <1>16, <1>17, <1>18 DEF Next, Step

LEMMA SizesInvariance ==
  ASSUME NEW CONSTANT F, Biased(F)
  PROVE  Spec => []SizesInv(F)
<1>1. Init => SizesInv(F)
  BY SizesInit
<1>2. SizesInv(F) /\ [Next]_vars => SizesInv(F)'
  BY SizesNext, SizesStutter
<1> QED BY <1>1, <1>2, PTL DEF Spec

LEMMA InvKeepsData ==
  ASSUME NEW F, SizesInv(F)
  PROVE  LiveDataKept
<1>1. SUFFICES ASSUME phase \notin {"init", "died"}, ~ onDisk
               PROVE  kept >= copied
  BY DEF LiveDataKept
<1>2. /\ phase \in Settled \cup Growing /\ phase # "disk"
      /\ kept \in Nat /\ copied \in Nat /\ oldGenSize \in Nat
  BY <1>1 DEF SizesInv, TypeInv, DataInv
<1>3. CASE phase = "moving"
  BY <1>2, <1>3 DEF SizesInv, DataInv
<1>4. CASE phase # "moving"
  <2>1. phase \in Settled \cup {"remap", "new", "translate"}
    BY <1>2, <1>4 DEF Growing
  <2>2. kept = oldGenSize /\ copied = oldGenSize
    BY <2>1 DEF SizesInv, DataInv
  <2> QED BY <1>2, <2>2
<1> QED BY <1>3, <1>4

LEMMA InvTypeOK ==
  ASSUME NEW F, SizesInv(F)
  PROVE  TypeOK
<1>1. /\ MaybeHeap(heap) /\ MaybeHeap(secondary) /\ MaybeHeap(newHeap)
      /\ Apart(heap, secondary) /\ Apart(heap, newHeap) /\ Apart(secondary, newHeap)
      /\ oldGenSize \in Nat /\ base \in Addresses \cup {NoAddress}
  BY DEF SizesInv, TypeInv
<1>2. ASSUME NEW h \in Heaps
      PROVE  /\ h.start \in Addresses /\ h.size > 0 /\ h.size % Page = 0
             /\ h.withMaps = WithMaps(h.size)
  <2>1. HeapOk(h)
    BY <1>1, <1>2 DEF Heaps, MaybeHeap
  <2> QED BY <2>1 DEF HeapOk, Paged
<1>3. ASSUME NEW h \in Heaps, NEW g \in Heaps, g # h
      PROVE  g.start # h.start
  BY <1>1, <1>3 DEF Heaps, Apart
<1> QED BY <1>1, <1>2, <1>3 DEF TypeOK

LEMMA InvSizesAddUp ==
  ASSUME NEW F, SizesInv(F)
  PROVE  SizesAddUp
<1>1. TypeOK
  BY InvTypeOK
<1>2. ASSUME NEW pages \in 0 .. SizeMax \div Page
      PROVE  Inverts(Page * pages)
  <2>1. Page * pages \in Int
    BY Constants
  <2> QED BY <2>1, InvertFacts
<1>3. Searching => search.try \in search.low .. search.high /\ search.try % Page = 0
  BY DEF SizesInv, SearchInv, SearchFrom, SearchStates, Searching, Paged
<1> QED BY <1>1, <1>2, <1>3 DEF SizesAddUp

LEMMA InvHeapUsable ==
  ASSUME NEW F, SizesInv(F), RoomyRatios
  PROVE  HeapUsable
<1>1. ASSUME phase = "mutator"
      PROVE  /\ kept = oldGenSize /\ heap.start # NoAddress /\ base = heap.start
             /\ request.bytes + oldGenSize <= heap.size
             /\ newHeap = NoHeap /\ ~onDisk
             /\ secondary = NoHeap \/ secondary.size = heap.size
  <2>1. /\ kept = oldGenSize /\ base = heap.start /\ newHeap = NoHeap /\ ~ onDisk
        /\ oldGenSize \in Nat \ {0} /\ oldGenSize <= heap.size /\ MaybeHeap(heap)
        /\ secondary = NoHeap \/ secondary.size = heap.size
        /\ request \in RequestStates
    BY <1>1 DEF SizesInv, TypeInv, DataInv, GrowInv, SecondaryInv, Settled
  <2>2. heap # NoHeap
    BY <2>1, MaybeHeapFacts
  <2>3. heap.start # NoAddress
    BY <2>1, <2>2, NoHeapFacts DEF MaybeHeap
  <2>4. MinSize <= heap.size
    BY <1>1 DEF SizesInv, RoomInv
  <2>5. MinSize = request.bytes + oldGenSize
    BY <2>1 DEF MinSize, RequestStates
  <2> QED BY <2>1, <2>3, <2>4, <2>5
<1>2. ASSUME phase = "copy"
      PROVE  secondary.size >= oldGenSize
  <2>1. /\ oldGenSize <= secondary.size /\ oldGenSize \in Nat /\ MaybeHeap(secondary)
    BY <1>2 DEF SizesInv, TypeInv, SecondaryInv
  <2>2. secondary.size \in Nat
    BY <2>1, MaybeHeapFacts
  <2> QED BY <2>1, <2>2
<1> QED BY <1>1, <1>2 DEF HeapUsable

\* Whatever memory is refused, granted or moved, and in whatever sizes: while the heap is
\* resized (majorGC, GC_pack, GC_unpack) no unit of the live data is lost.
THEOREM LiveDataStaysKept == Spec => []LiveDataKept
<1>1. PICK F : Biased(F)
  BY Constants
<1>2. Spec => []SizesInv(F)
  BY <1>1, SizesInvariance
<1>3. SizesInv(F) => LiveDataKept
  BY InvKeepsData
<1> QED BY <1>2, <1>3, PTL

\* The comment of invertSizeofCardMapAndCrossMap (generational.c:190) holds for any size,
\* every heap has room for its maps, and every size that is tried is pages between the
\* bounds of its search, for any page size and any bias.
THEOREM SizesKeepAddingUp == Spec => []SizesAddUp
<1>1. PICK F : Biased(F)
  BY Constants
<1>2. Spec => []SizesInv(F)
  BY <1>1, SizesInvariance
<1>3. SizesInv(F) => SizesAddUp
  BY InvSizesAddUp
<1> QED BY <1>2, <1>3, PTL

\* When the mutator runs again after majorGC, GC_pack or GC_unpack, the heap holds what is
\* live and what was asked for, and its pointers point into it; a copying collection has
\* room for all it may have to copy.  A heap that is close to what is wanted keeps its
\* size, so that a ratio of less than 1.1 may leave it too small.
THEOREM SizesStayOk == ASSUME RoomyRatios PROVE Spec => []SizesOk
<1>1. PICK F : Biased(F)
  BY Constants
<1>2. Spec => []SizesInv(F)
  BY <1>1, SizesInvariance
<1>3. SizesInv(F) => SizesOk
  BY InvSizesAddUp, InvHeapUsable DEF SizesOk
<1> QED BY <1>2, <1>3, PTL
=============================================================================
