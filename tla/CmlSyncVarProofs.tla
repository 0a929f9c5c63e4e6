-------------------------- MODULE CmlSyncVarProofs --------------------------
(***************************************************************************)
(* The scheduling of readers and writers of cells is sound for any number  *)
(* of threads, cells and operations; and no value is lost or delivered     *)
(* twice if, for each cell, one thread is the only one that waits to take  *)
(* what it holds.                                                          *)
(***************************************************************************)
EXTENDS CmlSyncVar, CmlLemmas

(***************************************************************************)
(* The inductive invariant.                                                *)
(***************************************************************************)
Waits(t)   == pc[Main(t)] \in {"read", "helped"}
InChain(e) == sched.atomic = 1 /\ sched.cur = e
Given(e)   == pc[e] = "return" \/ InChain(e)
Placed(e)  == pc[e] \in {"run", "sync"} \/ Given(e)

\* Transactions are cancelled, and values installed, in the order in which a thread
\* begins them; a thread that has not blocked has not been cancelled.
OpsInv ==
  /\ \A x \in cancelled \cup installed : x[2] <= ops[x[1]]
  /\ \A t \in Threads : pc[Main(t)] # "run" => ops[t] > 0
  /\ \A t \in Threads : pc[Main(t)] = "sync" => Tx0(t) \notin cancelled
  /\ \A t \in Threads : Waits(t) => /\ request[t].mode \in {"call", "sync"}
                                    /\ pc[Main(t)] = "read" <=> Len(request[t].events) = 1
  /\ \A e \in Entities : e[2] # 0 => pc[e] \in {"read", "none", "return"}

\* A live item of cell c belongs to a thread that waits for c with its last operation,
\* and names a waiter that is blocked.
LiveItem(c, item) ==
  \E u \in Threads :
    Waits(u) /\ \E i \in DOMAIN request[u].events :
      request[u].events[i].on = c /\ item = Item(u, i) /\ pc[Waiter(u, i)] = "read"

ItemsInv ==
  \A c \in Cells : \A k \in DOMAIN readQ[c] :
    Live(readQ[c][k]) => LiveItem(c, readQ[c][k])

\* A value is given to one waiter of a thread, whose transaction it cancels, in the
\* critical section that the waiter runs in, until it relays the value.
GivenInv ==
  /\ \A e \in Entities : Given(e) =>
       /\ Waits(e[1]) /\ Tx0(e[1]) \in cancelled /\ val[e] \in Tx
       /\ \E i \in DOMAIN request[e[1]].events : e = Waiter(e[1], i)
       /\ \A f \in Entities : f[1] = e[1] /\ Given(f) => f = e
  /\ sched.atomic = 1 => sched.cur \in Entities /\ pc[sched.cur] = "read"

PlacesInv == \A e \in Entities : Scheduled(e) = One(Placed(e))

GivenTo(t) == \E e \in Entities : e[1] = t /\ Given(e)

BlockedInv ==
  \A t \in Threads : Waits(t) => IF Tx0(t) \in cancelled THEN GivenTo(t) ELSE Pending(t)

\* Nobody alive waits for a full cell, but for the one whose readers are being served.
AllDead(c) == \A k \in DOMAIN readQ[c] : ~ Live(readQ[c][k])

Serving(c) == sched.atomic = 1 /\ Event(sched.cur).on = c

ReadersInv == \A c \in Cells : value[c] # Nil /\ ~ Serving(c) => AllDead(c)

CellsInv ==
  TypeOK /\ OpsInv /\ ItemsInv /\ GivenInv /\ PlacesInv /\ BlockedInv /\ ReadersInv

-----------------------------------------------------------------------------
(***************************************************************************)
(* The invariant implies what the run checks.                              *)
(***************************************************************************)
LEMMA EntityFacts ==
  ASSUME RequestsAssumption
  PROVE  /\ NoThread \notin Entities /\ Nil \notin Tx
         /\ \A t \in Threads : Main(t) \in Entities /\ Main(t)[1] = t /\ Main(t)[2] = 0
         /\ \A e \in Entities : e[1] \in Threads /\ e[2] \in 0 .. Fan /\ e = <<e[1], e[2]>>
         /\ \A e \in Entities : e[2] = 0 <=> e = Main(e[1])
         /\ \A t \in Threads, i \in 1 .. Fan : <<t, i>> \in Entities /\ <<t, i>> # Main(t)
BY DEF RequestsAssumption, Entities, Main, Tx

\* The request of a thread that has begun an operation.
LEMMA RequestFacts ==
  ASSUME RequestsAssumption, TypeOK, NEW t \in Threads, ops[t] > 0
  PROVE  /\ request[t] \in Requests[t]
         /\ request[t].mode \in {"put", "call", "poll", "sync"}
         /\ Len(request[t].events) \in 1 .. Fan
         /\ request[t].mode # "sync" => Len(request[t].events) = 1
         /\ DOMAIN request[t].events = 1 .. Len(request[t].events)
         /\ \A i \in DOMAIN request[t].events :
              /\ request[t].events[i] \in Reads /\ i \in 1 .. Fan
              /\ Waiter(t, i) \in Entities /\ Waiter(t, i)[1] = t
              /\ Item(t, i) \in Items /\ Event(Waiter(t, i)) = request[t].events[i]
         /\ ops[t] \in 1 .. MaxOps /\ Tx0(t) \in Tx
<1>1. request[t] \in Requests[t]
  BY DEF TypeOK
<1>2. /\ request[t].mode \in {"put", "call", "poll", "sync"}
      /\ request[t].events \in Seq(Reads) /\ Len(request[t].events) \in 1 .. Fan
      /\ request[t].mode # "sync" => Len(request[t].events) = 1
  BY <1>1 DEF RequestsAssumption
<1>3. DOMAIN request[t].events = 1 .. Len(request[t].events) /\ Fan \in Nat
  BY <1>2 DEF RequestsAssumption
<1>4. ops[t] \in 1 .. MaxOps /\ Tx0(t) \in Tx
  BY DEF RequestsAssumption, TypeOK, Tx0, Tx
<1>5. ASSUME NEW i \in DOMAIN request[t].events
      PROVE  /\ request[t].events[i] \in Reads /\ i \in 1 .. Fan
             /\ Waiter(t, i) \in Entities /\ Waiter(t, i)[1] = t
             /\ Item(t, i) \in Items /\ Event(Waiter(t, i)) = request[t].events[i]
  <2>1. request[t].events[i] \in Reads /\ i \in 1 .. Fan
    BY <1>2, <1>3
  <2>2. Waiter(t, i) \in Entities /\ Waiter(t, i)[1] = t
    BY <2>1, EntityFacts DEF Waiter
  <2>3. Item(t, i) \in Items
    BY <1>4, <2>2 DEF Item, Items
  <2>4. Len(request[t].events) = 1 => i = 1
    BY <1>2, <1>3
  <2>5. Event(Waiter(t, i)) = request[t].events[i]
    BY <2>1, <2>4, EntityFacts, <1>2 DEF Event, Waiter, Main
  <2> QED BY <2>1, <2>2, <2>3, <2>5
<1> QED BY <1>1, <1>2, <1>3, <1>4, <1>5

\* Nobody is lost, and nobody sleeps before a full cell, between critical sections.
LEMMA InvImpliesOk ==
  ASSUME RequestsAssumption, CellsInv
  PROVE  SchedulingOk
<1> USE DEF CellsInv
<1>0. NoReaderAsleep
  BY DEF ReadersInv, NoReaderAsleep, AllDead, Serving
<1> SUFFICES ASSUME sched.atomic = 0, NEW t \in Threads
             PROVE  CASE pc[Main(t)] \in {"run", "sync"} -> Scheduled(Main(t)) = 1
                      [] pc[Main(t)] = "read" -> Scheduled(Main(t)) = 0 /\ Pending(t)
                      [] pc[Main(t)] = "helped" ->
                           /\ Scheduled(Main(t)) = 0
                           /\ \/ Pending(t) /\ \A i \in 1..Fan : Scheduled(<<t, i>>) = 0
                              \/ /\ Tx0(t) \in cancelled
                                 /\ \E i \in 1..Fan :
                                      /\ pc[<<t, i>>] = "return" /\ Scheduled(<<t, i>>) = 1
                                      /\ \A j \in (1..Fan) \ {i} : Scheduled(<<t, j>>) = 0
  BY <1>0 DEF SchedulingOk, NobodyIsLost
<1>1. pc[Main(t)] \in {"run", "sync", "read", "helped"} /\ Main(t) \in Entities
  BY EntityFacts DEF TypeOK, Points
<1>2. \A e \in Entities : Given(e) <=> pc[e] = "return"
  BY DEF Given, InChain
<1>3. \A e \in Entities : Scheduled(e) = One(pc[e] \in {"run", "sync", "return"})
  BY <1>2 DEF PlacesInv, Placed
<1>4. CASE pc[Main(t)] \in {"run", "sync"}
  BY <1>1, <1>3, <1>4 DEF One
<1>5. CASE pc[Main(t)] \in {"read", "helped"}
  <2>1. Scheduled(Main(t)) = 0
    BY <1>1, <1>3, <1>5 DEF One
  <2>2. Waits(t)
    BY <1>5 DEF Waits
  <2>3. ASSUME NEW i \in 1 .. Fan, pc[<<t, i>>] # "return" PROVE Scheduled(<<t, i>>) = 0
    <3>1. <<t, i>> \in Entities /\ <<t, i>>[2] # 0
      BY EntityFacts
    <3>2. pc[<<t, i>>] \in {"read", "none"}
      BY <2>3, <3>1 DEF OpsInv
    <3> QED BY <1>3, <3>1, <3>2 DEF One
  <2>4. CASE Tx0(t) \notin cancelled
    <3>1. Pending(t)
      BY <2>2, <2>4 DEF BlockedInv
    <3>2. ASSUME NEW i \in 1 .. Fan PROVE Scheduled(<<t, i>>) = 0
      <4>1. <<t, i>> \in Entities /\ <<t, i>>[1] = t
        BY EntityFacts
      <4>2. pc[<<t, i>>] # "return"
        BY <1>2, <2>4, <4>1 DEF GivenInv
      <4> QED BY <2>3, <4>2
    <3> QED BY <1>5, <2>1, <3>1, <3>2
  <2>5. CASE Tx0(t) \in cancelled
    <3>1. PICK e \in Entities : e[1] = t /\ Given(e)
      BY <2>2, <2>5 DEF BlockedInv, GivenTo
    <3>2. pc[e] = "return" /\ e[2] # 0
      BY <1>1, <1>2, <3>1, EntityFacts
    <3>3. PICK i \in 1 .. Fan : e = <<t, i>>
      BY <3>1, <3>2, EntityFacts
    <3>4. Scheduled(e) = 1
      BY <1>3, <3>2 DEF One
    <3>5. ASSUME NEW j \in (1 .. Fan) \ {i} PROVE Scheduled(<<t, j>>) = 0
      <4>1. <<t, j>> \in Entities /\ <<t, j>>[1] = t /\ <<t, j>> # e
        BY <3>3, EntityFacts
      <4>2. pc[<<t, j>>] # "return"
        BY <1>2, <3>1, <4>1 DEF GivenInv
      <4> QED BY <2>3, <4>2
    <3>6. pc[Main(t)] = "helped"
      <4> SUFFICES ASSUME pc[Main(t)] = "read" PROVE FALSE
        BY <1>5
      <4>1. Len(request[t].events) = 1
        BY <2>2 DEF OpsInv
      <4>2. PICK k \in DOMAIN request[t].events : e = Waiter(t, k)
        BY <3>1 DEF GivenInv
      <4>3. e = Main(t)
        BY <4>1, <4>2 DEF Waiter
      <4> QED BY <3>2, <4>3, EntityFacts
    <3> QED BY <2>1, <2>5, <3>2, <3>3, <3>4, <3>5, <3>6
  <2> QED BY <2>4, <2>5
<1> QED BY <1>1, <1>4, <1>5

-----------------------------------------------------------------------------
(***************************************************************************)
(* Initially.                                                              *)
(***************************************************************************)
LEMMA InitInv ==
  ASSUME RequestsAssumption, Init
  PROVE  CellsInv
<1> DEFINE N == Cardinality(Threads)
<1>1. PICK order \in [1..N -> Threads] :
        /\ \A t \in Threads : \E i \in DOMAIN order : order[i] = t
        /\ sched = Started(Main(order[1]), [i \in 1..(N - 1) |-> Main(order[i + 1])])
  BY DEF Init
<1>2. N \in Nat \ {0}
  BY FS_CardinalityType, FS_EmptySet DEF RequestsAssumption
<1>3. \A i, j \in 1..N : order[i] = order[j] => i = j
  <2>1. order \in Surjection(1..N, Threads)
    BY <1>1 DEF Surjection
  <2>2. IsFiniteSet(1..N) /\ Cardinality(1..N) = N
    BY <1>2, FS_Interval
  <2>3. order \in Injection(1..N, Threads)
    BY <2>1, <2>2, FS_SurjSameCardinalityImpliesInj DEF RequestsAssumption
  <2> QED BY <2>3 DEF Injection, IsInjective
<1> DEFINE q == [i \in 1..(N - 1) |-> Main(order[i + 1])]
<1> HIDE DEF N
<1>4. /\ q \in Seq(Entities) /\ DOMAIN q = 1..(N - 1)
      /\ \A i \in 1..(N - 1) : q[i] = Main(order[i + 1])
  <2>1. \A i \in 1..(N - 1) : Main(order[i + 1]) \in Entities
    BY <1>1, <1>2, EntityFacts
  <2>2. N - 1 \in Nat
    BY <1>2
  <2> QED BY <2>1, <2>2
<1> HIDE DEF q
<1>5. /\ sched.cur = Main(order[1]) /\ sched.rdyQ1 = q /\ sched.rdyQ2 = <<>>
      /\ sched.atomic = 0 /\ sched \in SchedulerStates(Entities)
  <2>1. sched = Started(Main(order[1]), q)
    BY <1>1 DEF q
  <2>2. Main(order[1]) \in Entities
    BY <1>1, <1>2, EntityFacts
  <2> QED BY <1>4, <2>1, <2>2 DEF Started, SchedulerStates
<1>6. /\ value = [c \in Cells |-> Nil] /\ readQ = [c \in Cells |-> <<>>]
      /\ cancelled = {} /\ installed = {} /\ removed = {}
      /\ ops = [t \in Threads |-> 0] /\ request = [t \in Threads |-> Nil]
      /\ pc = [e \in Entities |-> IF e[2] = 0 THEN "run" ELSE "none"]
      /\ val = [e \in Entities |-> Nil] /\ result = [x \in Tx |-> Nil]
  BY DEF Init
<1>7. TypeOK
  <2>1. MaxOps \in Nat
    BY DEF RequestsAssumption
  <2> QED BY <1>5, <1>6, <2>1 DEF TypeOK, Points
<1>8. \A t \in Threads : pc[Main(t)] = "run" /\ ~ Waits(t)
  BY <1>6, EntityFacts DEF Waits
<1>9. OpsInv
  BY <1>6, <1>8 DEF OpsInv
<1>10. ItemsInv /\ ReadersInv
  BY <1>6 DEF ItemsInv, ReadersInv
<1>11. GivenInv
  BY <1>5, <1>6 DEF GivenInv, Given, InChain
<1>12. BlockedInv
  BY <1>8 DEF BlockedInv
<1>13. PlacesInv
  <2>0. \A e \in Entities : Placed(e) <=> e[2] = 0
    BY <1>5, <1>6 DEF Placed, Given, InChain
  <2> SUFFICES ASSUME NEW e \in Entities PROVE Scheduled(e) = One(e[2] = 0)
    BY <2>0 DEF PlacesInv, One
  <2> DEFINE I == {i \in DOMAIN q : q[i] = e}
  <2>1. Scheduled(e) = One(Main(order[1]) = e) + Cardinality(I)
    <3>1. Times(e, <<>>) = 0 /\ Times(e, q) \in Nat /\ Times(e, q) = Cardinality(I)
      BY <1>4, TimesEmpty, TimesType DEF Times
    <3> HIDE DEF I
    <3> QED BY <1>5, <3>1 DEF Scheduled, Places, One
  <2>2. CASE e[2] # 0
    <3>1. \A t \in Threads : Main(t) # e
      BY <2>2, EntityFacts
    <3>2. I = {} /\ Main(order[1]) # e
      BY <1>1, <1>2, <1>4, <3>1
    <3> HIDE DEF I
    <3> QED BY <2>1, <2>2, <3>2, FS_EmptySet DEF One
  <2>3. CASE e[2] = 0
    <3>1. e = Main(e[1]) /\ e[1] \in Threads
      BY <2>3, EntityFacts
    <3>2. PICK k \in 1..N : order[k] = e[1]
      BY <1>1, <3>1
    <3>3. \A i \in 1..N : Main(order[i]) = e <=> i = k
      BY <1>1, <1>3, <3>1, <3>2, EntityFacts
    <3>4. CASE k = 1
      <4>1. I = {} /\ Main(order[1]) = e
        BY <1>2, <1>4, <3>3, <3>4
      <4> HIDE DEF I
      <4> QED BY <2>1, <2>3, <4>1, FS_EmptySet DEF One
    <3>5. CASE k # 1
      <4>1. I = {k - 1}
        BY <1>2, <1>4, <3>3, <3>5
      <4>2. Main(order[1]) # e
        BY <1>2, <3>3, <3>5
      <4> HIDE DEF I
      <4>3. Cardinality(I) = 1
        BY <4>1, FS_Singleton
      <4> QED BY <2>1, <2>3, <4>2, <4>3 DEF One
    <3> QED BY <3>4, <3>5
  <2> QED BY <2>2, <2>3
<1> QED BY <1>7, <1>9, <1>10, <1>11, <1>12, <1>13 DEF CellsInv

-----------------------------------------------------------------------------
(***************************************************************************)
(* What a step of one thread leaves of the others.                         *)
(***************************************************************************)
OnlyMoves(t) ==
  \A u \in Threads \ {t} :
    /\ request'[u] = request[u] /\ ops'[u] = ops[u]
    /\ \A e \in Entities : e[1] = u => pc'[e] = pc[e]

\* Items stay where they are until their transaction is cancelled.
KeepsItems ==
  \A c \in Cells : \A k \in DOMAIN readQ[c] : readQ[c][k].tx \notin cancelled' =>
    \E j \in DOMAIN readQ'[c] : readQ'[c][j] = readQ[c][k]

\* A thread about to perform an operation.
LEMMA AtSync ==
  ASSUME RequestsAssumption, CellsInv, NEW t \in Threads, pc[Main(t)] = "sync",
         sched.atomic = 0
  PROVE  /\ ops[t] > 0 /\ Tx0(t) \in Tx /\ Tx0(t) \notin cancelled
         /\ \A e \in Entities : e[1] = t /\ e # Main(t) => pc[e] \in {"read", "none"}
         /\ \A e \in Entities : e[1] = t => ~ Given(e)
         /\ ~ Waits(t) /\ Event(Main(t)) \in Reads /\ Event(Main(t)).on \in Cells
<1>1. ops[t] > 0 /\ Tx0(t) \notin cancelled /\ ~ Waits(t)
  BY DEF CellsInv, OpsInv, Waits
<1>2. Tx0(t) \in Tx
  BY <1>1, RequestFacts DEF CellsInv
<1>3. \A e \in Entities : e[1] = t => ~ Given(e)
  BY <1>1 DEF CellsInv, GivenInv
<1>4. \A e \in Entities : e[1] = t /\ e # Main(t) => pc[e] \in {"read", "none"}
  BY <1>3, EntityFacts DEF CellsInv, OpsInv, Given
<1>5. Event(Main(t)) \in Reads
  <2>1. /\ Len(request[t].events) \in 1 .. Fan
        /\ DOMAIN request[t].events = 1 .. Len(request[t].events)
        /\ \A i \in DOMAIN request[t].events : request[t].events[i] \in Reads
    BY <1>1, RequestFacts DEF CellsInv
  <2>2. request[t].events[1] \in Reads
    BY <2>1
  <2> QED BY <2>2 DEF Event, Main
<1> QED BY <1>1, <1>2, <1>3, <1>4, <1>5 DEF Reads

LEMMA WaitingFacts ==
  ASSUME RequestsAssumption, CellsInv, NEW u \in Threads, Waits(u)
  PROVE  ops[u] > 0 /\ Tx0(u) \in Tx
<1>1. ops[u] > 0
  BY DEF CellsInv, OpsInv, Waits
<1> QED BY <1>1, RequestFacts DEF CellsInv

\* Whose a live item is.
LEMMA LiveOwner ==
  ASSUME RequestsAssumption, CellsInv, NEW c, NEW item, LiveItem(c, item)
  PROVE  /\ item \in Items /\ item.tx[1] \in Threads /\ Waits(item.tx[1])
         /\ item.tx = Tx0(item.tx[1])
         /\ item.thr \in Entities /\ item.thr[1] = item.tx[1] /\ pc[item.thr] = "read"
         /\ Event(item.thr).on = c
         /\ \E i \in DOMAIN request[item.tx[1]].events :
              /\ item.thr = Waiter(item.tx[1], i)
              /\ Event(item.thr) = request[item.tx[1]].events[i]
<1>0. PICK u \in Threads :
        Waits(u) /\ \E i \in DOMAIN request[u].events :
          request[u].events[i].on = c /\ item = Item(u, i) /\ pc[Waiter(u, i)] = "read"
  BY DEF LiveItem
<1>1. PICK i \in DOMAIN request[u].events :
        Waits(u) /\ request[u].events[i].on = c /\ item = Item(u, i) /\ pc[Waiter(u, i)] = "read"
  BY <1>0
<1>2. item.tx = Tx0(u) /\ item.tx[1] = u /\ item.thr = Waiter(u, i)
  BY <1>1 DEF Item, Tx0
<1>3. /\ Waiter(u, i) \in Entities /\ Waiter(u, i)[1] = u
      /\ Event(Waiter(u, i)) = request[u].events[i] /\ Item(u, i) \in Items
  BY <1>1, WaitingFacts, RequestFacts DEF CellsInv
<1> QED BY <1>1, <1>2, <1>3

LEMMA LiveItemKept ==
  ASSUME RequestsAssumption, CellsInv, NEW t \in Threads, OnlyMoves(t),
         NEW c, NEW item, LiveItem(c, item), item.tx[1] # t
  PROVE  LiveItem(c, item)'
<1>0. PICK u \in Threads :
        Waits(u) /\ \E i \in DOMAIN request[u].events :
          request[u].events[i].on = c /\ item = Item(u, i) /\ pc[Waiter(u, i)] = "read"
  BY DEF LiveItem
<1>1. PICK i \in DOMAIN request[u].events :
        Waits(u) /\ request[u].events[i].on = c /\ item = Item(u, i) /\ pc[Waiter(u, i)] = "read"
  BY <1>0
<1>2. u # t
  BY <1>1 DEF Item, Tx0
<1>3. Waiter(u, i) \in Entities /\ Waiter(u, i)[1] = u
  BY <1>1, WaitingFacts, RequestFacts DEF CellsInv
<1>4. request'[u] = request[u] /\ ops'[u] = ops[u] /\ pc'[Main(u)] = pc[Main(u)]
  BY <1>2, EntityFacts DEF OnlyMoves
<1>5. pc'[Waiter(u, i)] = pc[Waiter(u, i)]
  BY <1>2, <1>3 DEF OnlyMoves
<1>6. Waits(u)' /\ Item(u, i)' = Item(u, i) /\ Waiter(u, i)' = Waiter(u, i)
  BY <1>1, <1>4 DEF Waits, Item, Tx0, Waiter
<1> QED BY <1>1, <1>4, <1>5, <1>6 DEF LiveItem

\* Items that are live after a step were so before, and are not of the thread that
\* moves, or they are new.
LEMMA ItemsStep ==
  ASSUME RequestsAssumption, CellsInv, NEW t \in Threads, OnlyMoves(t),
         \A c \in Cells : \A item :
           item.tx \notin cancelled' /\ (\E k \in DOMAIN readQ'[c] : readQ'[c][k] = item)
           => \/ /\ item.tx[1] # t /\ item.tx \notin cancelled
                 /\ \E j \in DOMAIN readQ[c] : readQ[c][j] = item
              \/ LiveItem(c, item)'
  PROVE  ItemsInv'
<1>1. ASSUME NEW c \in Cells, NEW item, item.tx \notin cancelled',
             \E k \in DOMAIN readQ'[c] : readQ'[c][k] = item
      PROVE  LiveItem(c, item)'
  <2>1. CASE LiveItem(c, item)'
    BY <2>1
  <2>2. CASE /\ item.tx[1] # t /\ item.tx \notin cancelled
             /\ \E j \in DOMAIN readQ[c] : readQ[c][j] = item
    <3>1. LiveItem(c, item)
      BY <2>2 DEF CellsInv, ItemsInv, Live
    <3> QED BY <2>2, <3>1, LiveItemKept
  <2> QED BY <1>1, <2>1, <2>2
<1>2. ASSUME NEW c \in Cells, NEW k \in DOMAIN readQ'[c], readQ'[c][k].tx \notin cancelled'
      PROVE  LiveItem(c, readQ[c][k])'
  BY <1>1, <1>2 DEF LiveItem
<1> QED BY <1>2 DEF ItemsInv, Live

\* The thread that moves has no live items: it does not wait, or has been given a value.
LEMMA NoItemsOf ==
  ASSUME RequestsAssumption, CellsInv, NEW t \in Threads, ~ Waits(t) \/ Tx0(t) \in cancelled,
         NEW c \in Cells, NEW item, item.tx \notin cancelled,
         \E k \in DOMAIN readQ[c] : readQ[c][k] = item
  PROVE  item.tx[1] # t
<1>1. LiveItem(c, item)
  BY DEF CellsInv, ItemsInv, Live
<1> QED BY <1>1, LiveOwner

\* Threads that wait go on waiting until they are given a value.
LEMMA PendingKept ==
  ASSUME RequestsAssumption, CellsInv, NEW t \in Threads, OnlyMoves(t), KeepsItems,
         NEW u \in Threads, u # t, Waits(u), Pending(u), Tx0(u) \notin cancelled'
  PROVE  Pending(u)'
<1>1. request'[u] = request[u] /\ ops'[u] = ops[u]
  BY DEF OnlyMoves
<1>2. Tx0(u)' = Tx0(u) /\ \A i : Item(u, i)' = Item(u, i)
  BY <1>1 DEF Tx0, Item, Waiter
<1>3. ASSUME NEW i \in DOMAIN request[u].events
      PROVE  LET c == request[u].events[i].on IN
             \E k \in DOMAIN readQ'[c] : readQ'[c][k] = Item(u, i)
  <2> DEFINE c == request[u].events[i].on
  <2>1. c \in Cells
    BY WaitingFacts, RequestFacts DEF CellsInv, Reads
  <2>2. \E k \in DOMAIN readQ[c] : readQ[c][k] = Item(u, i)
    BY DEF Pending
  <2>3. Item(u, i).tx = Tx0(u)
    BY DEF Item
  <2> HIDE DEF c
  <2>4. \E j \in DOMAIN readQ'[c] : readQ'[c][j] = Item(u, i)
    BY <2>1, <2>2, <2>3 DEF KeepsItems
  <2> QED BY <2>4 DEF c
<1> QED BY <1>1, <1>2, <1>3 DEF Pending

LEMMA BlockedStep ==
  ASSUME RequestsAssumption, CellsInv, NEW t \in Threads, OnlyMoves(t), KeepsItems,
         cancelled \subseteq cancelled',
         \A e \in Entities : e[1] # t /\ Given(e) => Given(e)',
         \A u \in Threads : u # t /\ Tx0(u) \in cancelled' /\ Tx0(u) \notin cancelled =>
           \E e \in Entities : e[1] = u /\ Given(e)',
         Waits(t)' => (IF Tx0(t) \in cancelled THEN GivenTo(t) ELSE Pending(t))'
  PROVE  BlockedInv'
<1> SUFFICES ASSUME NEW u \in Threads, u # t, Waits(u)'
             PROVE  (IF Tx0(u) \in cancelled THEN GivenTo(u) ELSE Pending(u))'
  BY DEF BlockedInv
<1>1. Waits(u) /\ ops'[u] = ops[u]
  BY EntityFacts DEF OnlyMoves, Waits
<1>2. Tx0(u)' = Tx0(u)
  BY <1>1 DEF Tx0
<1>3. CASE Tx0(u) \in cancelled
  <2>1. PICK e \in Entities : e[1] = u /\ Given(e)
    BY <1>1, <1>3 DEF CellsInv, BlockedInv, GivenTo
  <2>2. Given(e)'
    BY <2>1
  <2> QED BY <1>2, <1>3, <2>1, <2>2 DEF GivenTo
<1>4. CASE Tx0(u) \notin cancelled /\ Tx0(u) \in cancelled'
  BY <1>2, <1>4 DEF GivenTo
<1>5. CASE Tx0(u) \notin cancelled /\ Tx0(u) \notin cancelled'
  <2>1. Pending(u)
    BY <1>1, <1>5 DEF CellsInv, BlockedInv
  <2>2. Pending(u)'
    BY <1>1, <1>5, <2>1, PendingKept
  <2> QED BY <1>2, <1>5, <2>2
<1> QED BY <1>3, <1>4, <1>5

\* What has been given stays given, but for what the thread that moves did with it.
LEMMA GivenStep ==
  ASSUME RequestsAssumption, CellsInv, NEW t \in Threads, OnlyMoves(t),
         cancelled \subseteq cancelled',
         \A e \in Entities : Given(e)' =>
           \/ e[1] # t /\ Given(e) /\ val'[e] = val[e]
           \/ /\ Waits(e[1])' /\ Tx0(e[1])' \in cancelled' /\ val'[e] \in Tx
              /\ \E i \in DOMAIN request'[e[1]].events : e = Waiter(e[1], i)'
              /\ \A f \in Entities : f[1] = e[1] /\ Given(f)' => f = e,
         sched'.atomic = 1 => sched'.cur \in Entities /\ pc'[sched'.cur] = "read"
  PROVE  GivenInv'
<1>1. ASSUME NEW e \in Entities, Given(e)'
      PROVE  /\ Waits(e[1])' /\ Tx0(e[1])' \in cancelled' /\ val'[e] \in Tx
             /\ \E i \in DOMAIN request'[e[1]].events : e = Waiter(e[1], i)'
             /\ \A f \in Entities : f[1] = e[1] /\ Given(f)' => f = e
  <2>1. CASE e[1] # t /\ Given(e) /\ val'[e] = val[e]
    <3>1. /\ Waits(e[1]) /\ Tx0(e[1]) \in cancelled /\ val[e] \in Tx
          /\ \E i \in DOMAIN request[e[1]].events : e = Waiter(e[1], i)
          /\ \A f \in Entities : f[1] = e[1] /\ Given(f) => f = e
      BY <2>1 DEF CellsInv, GivenInv
    <3>2. e[1] \in Threads \ {t}
      BY <2>1, EntityFacts
    <3>3. /\ request'[e[1]] = request[e[1]] /\ ops'[e[1]] = ops[e[1]]
          /\ pc'[Main(e[1])] = pc[Main(e[1])]
      BY <3>2, EntityFacts DEF OnlyMoves
    <3>4. Waits(e[1])' /\ Tx0(e[1])' = Tx0(e[1]) /\ \A i : Waiter(e[1], i)' = Waiter(e[1], i)
      BY <3>1, <3>3 DEF Waits, Tx0, Waiter
    <3> QED BY <1>1, <2>1, <3>1, <3>3, <3>4
  <2> QED BY <1>1, <2>1
<1> QED BY <1>1 DEF GivenInv

\* An operation returns without waiting; it has not filled a cell that was empty.
LEMMA ReturnStep ==
  ASSUME RequestsAssumption, CellsInv, NEW t \in Threads, Runs(Main(t), "sync", 0),
         UNCHANGED <<sched, readQ, cancelled, ops, request, val>>,
         pc' = [pc EXCEPT ![Main(t)] = "run"],
         NEW r \in [event : 0..Fan, val : Tx \cup {Nil}],
         result' = [result EXCEPT ![Tx0(t)] = r],
         value' \in [Cells -> Tx \cup {Nil}], \A c \in Cells : value'[c] # Nil => value[c] # Nil,
         installed' \in {installed, installed \cup {Tx0(t)}},
         removed' \subseteq [by : Tx, val : Tx]
  PROVE  CellsInv'
<1> USE DEF CellsInv
<1>1. /\ sched' = sched /\ readQ' = readQ /\ cancelled' = cancelled /\ ops' = ops
      /\ request' = request /\ val' = val /\ sched.atomic = 0 /\ pc[Main(t)] = "sync"
  BY DEF Runs
<1>2. Main(t) \in Entities /\ Main(t)[1] = t /\ Main(t)[2] = 0
  BY EntityFacts
<1>3. /\ ops[t] > 0 /\ Tx0(t) \in Tx /\ Tx0(t) \notin cancelled /\ ~ Waits(t)
      /\ \A e \in Entities : e[1] = t /\ e # Main(t) => pc[e] \in {"read", "none"}
      /\ \A e \in Entities : e[1] = t => ~ Given(e)
  BY <1>1, AtSync
<1>4. /\ pc'[Main(t)] = "run" /\ \A e \in Entities \ {Main(t)} : pc'[e] = pc[e]
      /\ pc' \in [Entities -> Points]
  BY <1>2 DEF TypeOK, Points
<1>5. OnlyMoves(t) /\ KeepsItems /\ ~ Waits(t)'
  BY <1>1, <1>2, <1>4 DEF OnlyMoves, KeepsItems, Waits
<1>6. \A e \in Entities : Given(e)' <=> Given(e)
  BY <1>1, <1>4 DEF Given, InChain
<1>7. TypeOK'
  <2>1. result' \in [Tx -> {Nil} \cup [event : 0..Fan, val : Tx \cup {Nil}]]
    BY <1>3 DEF TypeOK
  <2>2. installed' \subseteq Tx
    BY <1>3 DEF TypeOK
  <2>3. \A e \in Entities : e[2] = 0 => pc'[e] \notin {"none", "return"}
    BY <1>4 DEF TypeOK
  <2> QED BY <1>1, <1>4, <2>1, <2>2, <2>3 DEF TypeOK
<1>8. OpsInv'
  <2>1. \A u \in Threads : Tx0(u)' = Tx0(u)
    BY <1>1 DEF Tx0
  <2>2. \A u \in Threads \ {t} : pc'[Main(u)] = pc[Main(u)] /\ (Waits(u)' <=> Waits(u))
    BY <1>4, EntityFacts DEF Waits
  <2>3. \A x \in cancelled' \cup installed' : x[2] <= ops'[x[1]]
    <3>1. Tx0(t)[2] <= ops[Tx0(t)[1]]
      BY DEF RequestsAssumption, Tx0, TypeOK
    <3> QED BY <1>1, <3>1 DEF OpsInv
  <2>4. \A u \in Threads : pc'[Main(u)] # "run" => ops'[u] > 0
    BY <1>1, <1>4, <2>2 DEF OpsInv
  <2>5. \A u \in Threads : pc'[Main(u)] = "sync" => Tx0(u)' \notin cancelled'
    BY <1>1, <1>4, <2>1, <2>2 DEF OpsInv
  <2>6. \A u \in Threads : Waits(u)' =>
          /\ request'[u].mode \in {"call", "sync"}
          /\ pc'[Main(u)] = "read" <=> Len(request'[u].events) = 1
    BY <1>1, <1>5, <2>2 DEF OpsInv
  <2>7. \A e \in Entities : e[2] # 0 => pc'[e] \in {"read", "none", "return"}
    BY <1>2, <1>4 DEF OpsInv
  <2> QED BY <2>3, <2>4, <2>5, <2>6, <2>7 DEF OpsInv
<1>9. ItemsInv'
  <2>1. \A c \in Cells : \A item :
          item.tx \notin cancelled' /\ (\E k \in DOMAIN readQ'[c] : readQ'[c][k] = item)
          => /\ item.tx[1] # t /\ item.tx \notin cancelled
             /\ \E j \in DOMAIN readQ[c] : readQ[c][j] = item
    BY <1>1, <1>3, NoItemsOf
  <2> HIDE DEF CellsInv
  <2>2. \A c \in Cells : \A item :
          item.tx \notin cancelled' /\ (\E k \in DOMAIN readQ'[c] : readQ'[c][k] = item)
          => \/ /\ item.tx[1] # t /\ item.tx \notin cancelled
                /\ \E j \in DOMAIN readQ[c] : readQ[c][j] = item
             \/ LiveItem(c, item)'
    BY <2>1
  <2> QED BY <1>5, <2>2, ItemsStep
<1>10. GivenInv'
  BY <1>1, <1>3, <1>5, <1>6, GivenStep
<1>11. PlacesInv'
  <2>1. \A e \in Entities : Placed(e)' <=> Placed(e)
    BY <1>1, <1>2, <1>4, <1>6 DEF Placed
  <2> QED BY <1>1, <2>1 DEF PlacesInv, Scheduled, One
<1>12. BlockedInv'
  BY <1>1, <1>5, <1>6, BlockedStep
<1>13. ReadersInv'
  BY <1>1 DEF ReadersInv, AllDead, Serving, Live
<1> QED BY <1>7, <1>8, <1>9, <1>10, <1>11, <1>12, <1>13

-----------------------------------------------------------------------------
(***************************************************************************)
(* Every step preserves the invariant.                                     *)
(***************************************************************************)
LEMMA EvaluateStep ==
  ASSUME RequestsAssumption, CellsInv, NEW t \in Threads, NEW r \in Requests[t], Evaluate(t, r)
  PROVE  CellsInv'
<1> USE DEF CellsInv
<1>1. /\ sched' = sched /\ readQ' = readQ /\ cancelled' = cancelled /\ val' = val
      /\ value' = value /\ result' = result /\ installed' = installed /\ removed' = removed
      /\ sched.atomic = 0 /\ ops[t] < MaxOps /\ pc[Main(t)] = "run"
      /\ ops' = [ops EXCEPT ![t] = @ + 1] /\ request' = [request EXCEPT ![t] = r]
      /\ pc' = [pc EXCEPT ![Main(t)] = "sync"] /\ MaxOps \in Nat
  BY DEF Evaluate, Runs, RequestsAssumption
<1>2. Main(t) \in Entities /\ Main(t)[1] = t /\ Main(t)[2] = 0
  BY EntityFacts
<1>3. /\ ops'[t] = ops[t] + 1 /\ ops[t] \in Nat /\ request'[t] = r /\ pc'[Main(t)] = "sync"
      /\ \A u \in Threads \ {t} : ops'[u] = ops[u] /\ request'[u] = request[u]
      /\ \A u \in Threads : ops'[u] \in Nat /\ ops[u] \in Nat /\ ops'[u] >= ops[u]
      /\ \A e \in Entities : e # Main(t) => pc'[e] = pc[e]
  BY <1>1, <1>2 DEF TypeOK
<1>4. OnlyMoves(t) /\ KeepsItems
  BY <1>1, <1>2, <1>3 DEF OnlyMoves, KeepsItems
<1>5. ~ Waits(t) /\ ~ Waits(t)'
  BY <1>1, <1>3 DEF Waits
<1>6. \A e \in Entities : ~ (e[1] = t /\ Given(e))
  BY <1>5 DEF GivenInv
<1>7. \A e \in Entities : Given(e)' <=> Given(e)
  BY <1>1, <1>3 DEF Given, InChain
<1>8. TypeOK'
  <2>1. ops' \in [Threads -> 0..MaxOps]
    BY <1>1 DEF TypeOK
  <2>2. DOMAIN request' = Threads /\ \A u \in Threads : ops'[u] > 0 => request'[u] \in Requests[u]
    BY <1>1, <1>3 DEF TypeOK
  <2>3. pc' \in [Entities -> Points] /\ \A e \in Entities : e[2] = 0 => pc'[e] \notin {"none", "return"}
    BY <1>1, <1>2, <1>3 DEF TypeOK, Points
  <2> QED BY <1>1, <2>1, <2>2, <2>3 DEF TypeOK
<1>9. OpsInv'
  <2>1. Tx0(t)' = <<t, ops[t] + 1>> /\ \A u \in Threads \ {t} : Tx0(u)' = Tx0(u)
    BY <1>3 DEF Tx0
  <2>2. \A x \in Tx : x[1] \in Threads /\ x[2] \in Nat
    BY DEF Tx
  <2>3. \A x \in cancelled \cup installed : x \in Tx /\ x[2] <= ops'[x[1]]
    BY <1>3, <2>2 DEF OpsInv, TypeOK
  <2>4. <<t, ops[t] + 1>> \notin cancelled
    BY <1>3 DEF OpsInv
  <2>5. \A u \in Threads \ {t} : pc'[Main(u)] = pc[Main(u)] /\ (Waits(u)' <=> Waits(u))
    BY <1>3, EntityFacts DEF Waits
  <2>6. \A u \in Threads : pc'[Main(u)] # "run" => ops'[u] > 0
    BY <1>3, <2>5 DEF OpsInv
  <2>7. \A u \in Threads : pc'[Main(u)] = "sync" => Tx0(u)' \notin cancelled'
    BY <1>1, <2>1, <2>4, <2>5 DEF OpsInv
  <2>8. \A u \in Threads : Waits(u)' =>
          /\ request'[u].mode \in {"call", "sync"}
          /\ pc'[Main(u)] = "read" <=> Len(request'[u].events) = 1
    BY <1>3, <1>5, <2>5 DEF OpsInv
  <2>9. \A e \in Entities : e[2] # 0 => pc'[e] \in {"read", "none", "return"}
    BY <1>2, <1>3 DEF OpsInv
  <2> QED BY <1>1, <2>3, <2>6, <2>7, <2>8, <2>9 DEF OpsInv
<1>10. ItemsInv'
  <2>1. \A c \in Cells : \A item :
          item.tx \notin cancelled' /\ (\E k \in DOMAIN readQ'[c] : readQ'[c][k] = item)
          => /\ item.tx[1] # t /\ item.tx \notin cancelled
             /\ \E j \in DOMAIN readQ[c] : readQ[c][j] = item
    BY <1>1, <1>5, NoItemsOf
  <2> HIDE DEF CellsInv
  <2>2. \A c \in Cells : \A item :
          item.tx \notin cancelled' /\ (\E k \in DOMAIN readQ'[c] : readQ'[c][k] = item)
          => \/ /\ item.tx[1] # t /\ item.tx \notin cancelled
                /\ \E j \in DOMAIN readQ[c] : readQ[c][j] = item
             \/ LiveItem(c, item)'
    BY <2>1
  <2> QED BY <1>4, <2>2, ItemsStep
<1>11. GivenInv'
  BY <1>1, <1>4, <1>6, <1>7, GivenStep
<1>12. PlacesInv'
  <2>1. \A e \in Entities : Placed(e)' <=> Placed(e)
    BY <1>1, <1>3, <1>7 DEF Placed
  <2> QED BY <1>1, <2>1 DEF PlacesInv, Scheduled, One
<1>13. BlockedInv'
  BY <1>1, <1>4, <1>5, <1>7, BlockedStep
<1>14. ReadersInv'
  BY <1>1 DEF ReadersInv, AllDead, Serving, Live
<1> QED BY <1>8, <1>9, <1>10, <1>11, <1>12, <1>13, <1>14

LEMMA PreemptStep ==
  ASSUME RequestsAssumption, CellsInv, Preempt
  PROVE  CellsInv'
<1> USE DEF CellsInv
<1>1. /\ value' = value /\ readQ' = readQ /\ cancelled' = cancelled /\ ops' = ops
      /\ request' = request /\ pc' = pc /\ val' = val /\ result' = result
      /\ installed' = installed /\ removed' = removed
      /\ sched.atomic = 0 /\ sched.cur # NoThread /\ sched' = alrmHandler(sched)
  BY DEF Preempt
<1>2. /\ sched' \in SchedulerStates(Entities) /\ sched'.atomic = 0
      /\ \A e \in Entities : Places(sched', e) = Places(sched, e)
  <2>1. NoThread \notin Entities /\ sched \in SchedulerStates(Entities) /\ sched.cur \in Entities
    BY <1>1, EntityFacts DEF TypeOK, SchedulerStates
  <2> QED BY <1>1, <2>1, PlacesPreempt
<1>3. TypeOK'
  BY <1>1, <1>2 DEF TypeOK
<1>4. /\ \A e \in Entities : (Given(e)' <=> Given(e)) /\ (Placed(e)' <=> Placed(e))
      /\ \A u : /\ (Waits(u)' <=> Waits(u)) /\ Tx0(u)' = Tx0(u)
                /\ \A i : Waiter(u, i)' = Waiter(u, i) /\ Item(u, i)' = Item(u, i)
  BY <1>1, <1>2 DEF Given, InChain, Placed, Waits, Tx0, Waiter, Item
<1>5. OpsInv'
  BY <1>1, <1>4 DEF OpsInv
<1>6. ItemsInv'
  <2>1. \A c, item : LiveItem(c, item) => LiveItem(c, item)'
    BY <1>1, <1>4 DEF LiveItem
  <2> QED BY <1>1, <2>1 DEF ItemsInv, Live
<1>7. GivenInv'
  BY <1>1, <1>2, <1>4 DEF GivenInv
<1>8. PlacesInv'
  BY <1>2, <1>4 DEF PlacesInv, Scheduled, One
<1>9. BlockedInv'
  <2>1. \A u \in Threads : (Pending(u)' <=> Pending(u)) /\ (GivenTo(u)' <=> GivenTo(u))
    BY <1>1, <1>4 DEF Pending, GivenTo
  <2> QED BY <1>1, <1>4, <2>1 DEF BlockedInv
<1>10. ReadersInv'
  BY <1>1, <1>2 DEF ReadersInv, AllDead, Serving, Live
<1> QED BY <1>3, <1>5, <1>6, <1>7, <1>8, <1>9, <1>10

LEMMA PollFailsStep ==
  ASSUME RequestsAssumption, CellsInv, NEW t \in Threads, PollFails(t)
  PROVE  CellsInv'
<1>1. /\ Runs(Main(t), "sync", 0) /\ pc' = [pc EXCEPT ![Main(t)] = "run"]
      /\ UNCHANGED <<sched, readQ, cancelled, ops, request, val>>
      /\ value' = value /\ installed' = installed /\ removed' = removed
      /\ result' = [result EXCEPT ![Tx0(t)] = [event |-> 0, val |-> Nil]]
  BY DEF PollFails, Return
<1>2. [event |-> 0, val |-> Nil] \in [event : 0..Fan, val : Tx \cup {Nil}]
  BY DEF RequestsAssumption
<1>3. value' \in [Cells -> Tx \cup {Nil}] /\ removed' \subseteq [by : Tx, val : Tx]
  BY <1>1 DEF CellsInv, TypeOK
<1> QED BY <1>1, <1>2, <1>3, ReturnStep

\* Put raises the exception if the cell is full.
LEMMA PutRaisesStep ==
  ASSUME RequestsAssumption, CellsInv, NEW t \in Threads, Put(t), value[Event(Main(t)).on] # Nil
  PROVE  CellsInv'
<1>1. /\ Runs(Main(t), "sync", 0) /\ pc' = [pc EXCEPT ![Main(t)] = "run"]
      /\ UNCHANGED <<sched, readQ, cancelled, ops, request, val>>
      /\ value' = value /\ installed' = installed /\ removed' = removed
      /\ result' = [result EXCEPT ![Tx0(t)] = [event |-> 0, val |-> Nil]]
  BY DEF Put, Return
<1>2. [event |-> 0, val |-> Nil] \in [event : 0..Fan, val : Tx \cup {Nil}]
  BY DEF RequestsAssumption
<1>3. value' \in [Cells -> Tx \cup {Nil}] /\ removed' \subseteq [by : Tx, val : Tx]
  BY <1>1 DEF CellsInv, TypeOK
<1> QED BY <1>1, <1>2, <1>3, ReturnStep

\* What a swap does to the cell and to the history.
LEMMA SwapFacts ==
  ASSUME RequestsAssumption, TypeOK, NEW ev \in Reads, NEW x \in Tx, NEW v \in Tx, Swap(ev, x, v)
  PROVE  /\ ev.on \in Cells /\ value' \in [Cells -> Tx \cup {Nil}]
         /\ \A d \in Cells \ {ev.on} : value'[d] = value[d]
         /\ ev.kind = "get" =>
              value'[ev.on] = value[ev.on] /\ installed' = installed /\ removed' = removed
         /\ ev.kind = "take" =>
              value'[ev.on] = Nil /\ installed' = installed /\ removed' = removed \cup {[by |-> x, val |-> v]}
         /\ ev.kind = "swap" =>
              /\ value'[ev.on] = x /\ installed' = installed \cup {x}
              /\ removed' = removed \cup {[by |-> x, val |-> v]}
         /\ removed' \subseteq [by : Tx, val : Tx]
<1>1. ev.on \in Cells /\ ev.kind \in {"get", "take", "swap"}
  BY DEF Reads
<1>2. Swapped(ev, x) \in Tx \cup {Nil}
  BY <1>1 DEF Swapped, TypeOK
<1>3. value' \in [Cells -> Tx \cup {Nil}] /\ value'[ev.on] = Swapped(ev, x)
      /\ \A d \in Cells \ {ev.on} : value'[d] = value[d]
  BY <1>1, <1>2 DEF Swap, TypeOK
<1>4. [by |-> x, val |-> v] \in [by : Tx, val : Tx]
  OBVIOUS
<1>5. removed' \subseteq [by : Tx, val : Tx]
  BY <1>4 DEF Swap, TypeOK
<1> QED BY <1>1, <1>3, <1>5 DEF Swap, Swapped

\* The event that a thread whose request has a full cell commits to.
LEMMA ReadNowFacts ==
  ASSUME RequestsAssumption, CellsInv, NEW t \in Threads, ReadNow(t)
  PROVE  \E i \in DOMAIN request[t].events :
           LET ev == request[t].events[i] IN
           /\ i \in 0..Fan /\ ev \in Reads /\ value[ev.on] \in Tx
           /\ Swap(ev, Tx0(t), value[ev.on]) /\ Return(t, i, value[ev.on])
<1>1. sched.atomic = 0 /\ pc[Main(t)] = "sync"
  BY DEF ReadNow, Runs
<1>2. ops[t] > 0
  BY <1>1, AtSync
<1>3. PICK i \in EnabledEvents(t) :
        LET ev == request[t].events[i] IN
        Swap(ev, Tx0(t), value[ev.on]) /\ Return(t, i, value[ev.on])
  BY DEF ReadNow
<1> DEFINE ev == request[t].events[i]
<1>4. i \in DOMAIN request[t].events /\ value[ev.on] # Nil
  BY <1>3 DEF EnabledEvents
<1>5. ev \in Reads /\ i \in 0..Fan
  BY <1>2, <1>4, RequestFacts DEF CellsInv, RequestsAssumption
<1>6. value[ev.on] \in Tx
  BY <1>4, <1>5 DEF CellsInv, TypeOK, Reads
<1> QED BY <1>3, <1>4, <1>5, <1>6

LEMMA ReadNowStep ==
  ASSUME RequestsAssumption, CellsInv, NEW t \in Threads, ReadNow(t)
  PROVE  CellsInv'
<1>1. /\ Runs(Main(t), "sync", 0) /\ pc' = [pc EXCEPT ![Main(t)] = "run"]
      /\ UNCHANGED <<sched, readQ, cancelled, ops, request, val>>
  BY DEF ReadNow
<1>2. PICK i \in DOMAIN request[t].events :
        LET ev == request[t].events[i] IN
        /\ i \in 0..Fan /\ ev \in Reads /\ value[ev.on] \in Tx
        /\ Swap(ev, Tx0(t), value[ev.on]) /\ Return(t, i, value[ev.on])
  BY ReadNowFacts
<1>3. PICK ev \in Reads : ev = request[t].events[i]
  BY <1>2
<1>4. PICK v \in Tx : v = value[ev.on]
  BY <1>2, <1>3
<1>5. Swap(ev, Tx0(t), v) /\ result' = [result EXCEPT ![Tx0(t)] = [event |-> i, val |-> v]]
  BY <1>2, <1>3, <1>4 DEF Return
<1>6. Tx0(t) \in Tx
  BY <1>1, AtSync DEF Runs
<1>7. /\ value' \in [Cells -> Tx \cup {Nil}] /\ removed' \subseteq [by : Tx, val : Tx]
      /\ installed' \in {installed, installed \cup {Tx0(t)}}
      /\ \A d \in Cells \ {ev.on} : value'[d] = value[d]
  BY <1>5, <1>6, SwapFacts DEF CellsInv, Reads
<1>8. value[ev.on] # Nil
  BY <1>4, EntityFacts
<1>9. [event |-> i, val |-> v] \in [event : 0..Fan, val : Tx \cup {Nil}]
  BY <1>2
<1>10. \A d \in Cells : value'[d] # Nil => value[d] # Nil
  BY <1>7, <1>8
<1> QED BY <1>1, <1>5, <1>7, <1>9, <1>10, ReturnStep

-----------------------------------------------------------------------------
(***************************************************************************)
(* Handing a value over.                                                   *)
(***************************************************************************)
\* The readers of a queue whose transactions are alive, in the order in which they came.
LEMMA CleanFacts ==
  ASSUME NEW q \in Seq(Items), NEW dead
  PROVE  /\ Clean(q, dead) \in Seq(Items)
         /\ \A k \in DOMAIN Clean(q, dead) :
              /\ Clean(q, dead)[k].tx \notin dead
              /\ \E i \in DOMAIN q : q[i] = Clean(q, dead)[k]
         /\ \A i \in DOMAIN q : q[i].tx \notin dead =>
              \E k \in DOMAIN Clean(q, dead) : Clean(q, dead)[k] = q[i]
<1> DEFINE L == {item \in Items : item.tx \notin dead}
           p == Among(q, L)
<1>1. Clean(q, dead) = p
  BY DEF Clean
<1>2. p \in Seq(Items \cap L) /\ Selects(q, L, Len(q), p)
  <2> HIDE DEF L
  <2> QED BY AmongElements
<1>3. /\ \A i \in DOMAIN q : q[i] \in Items /\ (q[i].tx \notin dead => q[i] \in L)
      /\ \A item \in L : item \in Items /\ item.tx \notin dead
      /\ DOMAIN q = 1 .. Len(q)
  OBVIOUS
<1> HIDE DEF p, L
<1>4. DOMAIN p = 1 .. Len(p) /\ \A k \in DOMAIN p : p[k] \in Items \cap L
  BY <1>2
<1>5. p \in Seq(Items)
  BY <1>2, <1>4
<1>6. \A k \in DOMAIN p : p[k].tx \notin dead /\ \E i \in DOMAIN q : q[i] = p[k]
  BY <1>2, <1>3, <1>4 DEF Selects
<1>7. \A i \in DOMAIN q : q[i].tx \notin dead => \E k \in DOMAIN p : p[k] = q[i]
  BY <1>2, <1>3, <1>4 DEF Selects
<1> QED BY <1>1, <1>5, <1>6, <1>7

\* The value and the critical section go to the first reader that is alive, or the
\* critical section ends because there is none.
HandOverEnds(c, s) ==
  /\ sched'.atomic = 0 /\ cancelled' = cancelled /\ val' = val /\ readQ'[c] = <<>>
  /\ \A e \in Entities : Places(sched', e) = Places(s, e)

HandsTo(h, c, v, s) ==
  /\ h.tx \notin cancelled /\ LiveItem(c, h) /\ \E k \in DOMAIN readQ[c] : readQ[c][k] = h
  /\ sched'.atomic = 1 /\ sched'.cur = h.thr
  /\ cancelled' = cancelled \cup {h.tx} /\ val' = [val EXCEPT ![h.thr] = v]
  /\ \A e \in Entities : Places(sched', e) = Places(s, e) + One(h.thr = e)

\* No items are added.
AddsNoItems ==
  \A c \in Cells : \A k \in DOMAIN readQ'[c] : \E j \in DOMAIN readQ[c] : readQ[c][j] = readQ'[c][k]

LEMMA HandOverFacts ==
  ASSUME RequestsAssumption, CellsInv, NEW c \in Cells, NEW v \in Tx,
         NEW s \in SchedulerStates(Entities), s.atomic = 1, s.cur \in Entities,
         HandOver(c, v, s, cancelled)
  PROVE  /\ sched' \in SchedulerStates(Entities) /\ readQ' \in [Cells -> Seq(Items)]
         /\ cancelled' \subseteq Tx /\ cancelled \subseteq cancelled'
         /\ val' \in [Entities -> Tx \cup {Nil}]
         /\ KeepsItems /\ AddsNoItems
         /\ HandOverEnds(c, s) \/ \E h \in Items : HandsTo(h, c, v, s)
<1> USE DEF CellsInv
<1> DEFINE q == Clean(readQ[c], cancelled)
<1>1. /\ readQ[c] \in Seq(Items) /\ q \in Seq(Items)
      /\ \A k \in DOMAIN q : /\ q[k].tx \notin cancelled
                             /\ \E i \in DOMAIN readQ[c] : readQ[c][i] = q[k]
      /\ \A i \in DOMAIN readQ[c] : readQ[c][i].tx \notin cancelled =>
           \E k \in DOMAIN q : q[k] = readQ[c][i]
  BY CleanFacts DEF TypeOK
<1>2. CASE q = <<>>
  <2>1. /\ sched' = atomicEnd(s) /\ cancelled' = cancelled /\ val' = val
        /\ readQ' = [readQ EXCEPT ![c] = <<>>]
    BY <1>2 DEF HandOver
  <2>2. /\ sched' \in SchedulerStates(Entities) /\ sched'.atomic = 0
        /\ \A e : Places(sched', e) = Places(s, e)
    BY <2>1, PlacesEnd
  <2>3. /\ readQ' \in [Cells -> Seq(Items)] /\ readQ'[c] = <<>>
        /\ \A d \in Cells \ {c} : readQ'[d] = readQ[d]
    BY <2>1 DEF TypeOK
  <2>4. \A i \in DOMAIN readQ[c] : readQ[c][i].tx \in cancelled
    BY <1>1, <1>2
  <2>5. KeepsItems
    BY <2>1, <2>3, <2>4 DEF KeepsItems
  <2>6. AddsNoItems
    BY <2>3 DEF AddsNoItems
  <2>7. HandOverEnds(c, s)
    BY <2>1, <2>2, <2>3 DEF HandOverEnds
  <2> QED BY <2>1, <2>2, <2>3, <2>5, <2>6, <2>7 DEF TypeOK
<1>3. CASE q # <<>>
  <2> DEFINE h == Head(q)
  <2>1. /\ sched' = readyAndSwitch(s, h.thr) /\ cancelled' = cancelled \cup {h.tx}
        /\ val' = [val EXCEPT ![h.thr] = v] /\ readQ' = [readQ EXCEPT ![c] = Tail(q)]
    BY <1>3 DEF HandOver
  <2> HIDE DEF q
  <2>2. /\ h = q[1] /\ 1 \in DOMAIN q /\ Tail(q) \in Seq(Items)
        /\ \A k \in DOMAIN Tail(q) : k + 1 \in DOMAIN q /\ Tail(q)[k] = q[k + 1]
        /\ \A k \in DOMAIN q : k # 1 => k - 1 \in DOMAIN Tail(q) /\ Tail(q)[k - 1] = q[k]
    BY <1>1, <1>3
  <2> HIDE DEF h
  <2>3. /\ h.tx \notin cancelled /\ LiveItem(c, h) /\ \E k \in DOMAIN readQ[c] : readQ[c][k] = h
    BY <1>1, <2>2 DEF ItemsInv, Live
  <2>4. h \in Items /\ h.tx \in Tx /\ h.thr \in Entities
    BY <2>3, LiveOwner DEF Items
  <2>5. /\ sched' \in SchedulerStates(Entities) /\ sched'.atomic = 1 /\ sched'.cur = h.thr
        /\ \A e \in Entities : Places(sched', e) = Places(s, e) + One(h.thr = e)
    <3> DEFINE b == atomicBegin(s)
               r == ready(b, b.cur)
               d == atomicSwitch(r, h.thr)
    <3>1. /\ b \in SchedulerStates(Entities) /\ b.atomic = 2 /\ b.cur = s.cur
          /\ \A e : Places(b, e) = Places(s, e)
      BY PlacesBegin
    <3> HIDE DEF b
    <3>2. /\ r \in SchedulerStates(Entities) /\ r.atomic = 2 /\ r.cur = s.cur
          /\ \A e : Places(r, e) = Places(b, e) + One(s.cur = e)
      BY <3>1, PlacesReady
    <3> HIDE DEF r
    <3>3. /\ d \in SchedulerStates(Entities) /\ d.atomic = r.atomic - 1 /\ d.cur = h.thr
          /\ \A e : Places(d, e) = Places(r, e) - One(r.cur = e) + One(h.thr = e)
      BY <2>4, <3>2, PlacesSwitch
    <3> HIDE DEF d
    <3>4. sched' = d
      BY <2>1 DEF readyAndSwitch, atomicReadyAndSwitch, b, d, r
    <3>5. \A e : Places(b, e) \in Nat
      BY <3>1, PlacesType
    <3> QED BY <3>1, <3>2, <3>3, <3>4, <3>5 DEF One
  <2>6. /\ readQ' \in [Cells -> Seq(Items)] /\ readQ'[c] = Tail(q)
        /\ \A d \in Cells \ {c} : readQ'[d] = readQ[d]
    BY <2>1, <2>2 DEF TypeOK
  <2>7. KeepsItems
    <3> SUFFICES ASSUME NEW k \in DOMAIN readQ[c], readQ[c][k].tx \notin cancelled'
                 PROVE  \E j \in DOMAIN Tail(q) : Tail(q)[j] = readQ[c][k]
      BY <2>6 DEF KeepsItems
    <3>1. PICK j \in DOMAIN q : q[j] = readQ[c][k]
      BY <1>1, <2>1
    <3>2. j # 1
      BY <2>1, <2>2, <3>1
    <3> QED BY <2>2, <3>1, <3>2
  <2>8. AddsNoItems
    <3>1. ASSUME NEW k \in DOMAIN Tail(q) PROVE \E j \in DOMAIN readQ[c] : readQ[c][j] = Tail(q)[k]
      BY <1>1, <2>2
    <3> QED BY <2>6, <3>1 DEF AddsNoItems
  <2>9. HandsTo(h, c, v, s)
    BY <2>1, <2>3, <2>5 DEF HandsTo
  <2>10. cancelled' \subseteq Tx /\ val' \in [Entities -> Tx \cup {Nil}]
    BY <2>1, <2>4 DEF TypeOK
  <2> QED BY <2>1, <2>4, <2>5, <2>6, <2>7, <2>8, <2>9, <2>10
<1> QED BY <1>2, <1>3

\* G is who has been handed the value v and the critical section of cell c: one waiter,
\* or nobody.
Receives(G, c, v, s) ==
  /\ \A e \in G : /\ e \in Entities /\ e[1] \in Threads /\ Waits(e[1]) /\ pc[e] = "read"
                  /\ Tx0(e[1]) \notin cancelled /\ Tx0(e[1]) \in cancelled'
                  /\ val'[e] = v /\ Event(e).on = c
                  /\ \E i \in DOMAIN request[e[1]].events : e = Waiter(e[1], i)
                  /\ \A f \in G : f = e
  /\ \A x \in cancelled' \ cancelled : \E e \in G : x = Tx0(e[1])
  /\ \A e \in Entities \ G : val'[e] = val[e]
  /\ \A e \in Entities : Places(sched', e) = Places(s, e) + One(e \in G)
  /\ \A e \in Entities : InChain(e)' <=> e \in G
  /\ sched'.atomic \in 0..1 /\ (sched'.atomic = 1 => sched'.cur \in G)
  /\ sched'.atomic = 0 => readQ'[c] = <<>>

LEMMA HandOverReceives ==
  ASSUME RequestsAssumption, CellsInv, NEW c \in Cells, NEW v \in Tx,
         NEW s \in SchedulerStates(Entities), s.atomic = 1, s.cur \in Entities,
         HandOver(c, v, s, cancelled)
  PROVE  \E G : Receives(G, c, v, s)
<1> USE DEF CellsInv
<1>1. CASE HandOverEnds(c, s)
  <2>1. \A e \in Entities : Places(s, e) \in Nat
    BY PlacesType
  <2>2. Receives({}, c, v, s)
    BY <1>1, <2>1 DEF HandOverEnds, Receives, InChain, One
  <2> QED BY <2>2
<1>2. ASSUME NEW h \in Items, HandsTo(h, c, v, s)
      PROVE  \E G : Receives(G, c, v, s)
  <2>1. /\ h.tx \notin cancelled /\ LiveItem(c, h)
        /\ sched'.atomic = 1 /\ sched'.cur = h.thr
        /\ cancelled' = cancelled \cup {h.tx} /\ val' = [val EXCEPT ![h.thr] = v]
        /\ \A e \in Entities : Places(sched', e) = Places(s, e) + One(h.thr = e)
    BY <1>2 DEF HandsTo
  <2>2. /\ h.tx[1] \in Threads /\ Waits(h.tx[1]) /\ h.tx = Tx0(h.tx[1])
        /\ h.thr \in Entities /\ h.thr[1] = h.tx[1] /\ pc[h.thr] = "read"
        /\ Event(h.thr).on = c
        /\ \E i \in DOMAIN request[h.tx[1]].events : h.thr = Waiter(h.tx[1], i)
    BY <2>1, LiveOwner
  <2>3. PICK e \in Entities : e = h.thr
    BY <2>2
  <2>4. /\ e[1] \in Threads /\ Waits(e[1]) /\ pc[e] = "read"
        /\ Tx0(e[1]) \notin cancelled /\ Tx0(e[1]) \in cancelled'
        /\ val'[e] = v /\ Event(e).on = c
        /\ \E i \in DOMAIN request[e[1]].events : e = Waiter(e[1], i)
    BY <2>1, <2>2, <2>3 DEF TypeOK
  <2>5. /\ \A x \in cancelled' \ cancelled : x = Tx0(e[1])
        /\ \A f \in Entities \ {e} : val'[f] = val[f]
    BY <2>1, <2>2, <2>3 DEF TypeOK
  <2>6. \A f \in Entities : Places(sched', f) = Places(s, f) + One(f \in {e})
    BY <2>1, <2>3 DEF One
  <2>7. \A f \in Entities : InChain(f)' <=> f \in {e}
    BY <2>1, <2>3 DEF InChain
  <2>8. Receives({e}, c, v, s)
    BY <2>1, <2>3, <2>4, <2>5, <2>6, <2>7 DEF Receives
  <2> QED BY <2>8
<1> QED BY <1>1, <1>2, HandOverFacts

\* A writer, or a reader that has been given the value, fills or empties cell c and hands
\* the value to the next reader.
LEMMA PassStep ==
  ASSUME RequestsAssumption, CellsInv, NEW t \in Threads, NEW e \in Entities, e[1] = t,
         sched.cur = e,
         \/ e = Main(t) /\ pc[e] = "sync" /\ sched.atomic = 0
         \/ pc[e] = "read" /\ sched.atomic = 1,
         NEW c \in Cells, sched.atomic = 1 => Event(e).on = c, NEW v \in Tx,
         NEW s \in SchedulerStates(Entities), s.atomic = 1, s.cur = e,
         \A f \in Entities : Places(s, f) = Places(sched, f),
         HandOver(c, v, s, cancelled),
         pc' = [pc EXCEPT ![e] = IF e[2] = 0 THEN "run" ELSE "return"],
         ops' = ops, request' = request,
         value' \in [Cells -> Tx \cup {Nil}], \A d \in Cells \ {c} : value'[d] = value[d],
         installed' \in {installed, installed \cup {Tx0(t)}},
         removed' \subseteq [by : Tx, val : Tx],
         result' \in [Tx -> {Nil} \cup [event : 0..Fan, val : Tx \cup {Nil}]]
  PROVE  CellsInv'
<1> USE DEF CellsInv
<1>1. /\ sched' \in SchedulerStates(Entities) /\ readQ' \in [Cells -> Seq(Items)]
      /\ cancelled' \subseteq Tx /\ cancelled \subseteq cancelled'
      /\ val' \in [Entities -> Tx \cup {Nil}] /\ KeepsItems /\ AddsNoItems
  BY HandOverFacts
<1>2. PICK G : Receives(G, c, v, s)
  BY HandOverReceives
<1>3. /\ pc'[e] = (IF e[2] = 0 THEN "run" ELSE "return")
      /\ \A f \in Entities \ {e} : pc'[f] = pc[f]
      /\ pc' \in [Entities -> Points]
  BY DEF TypeOK, Points
<1>4. /\ e[2] = 0 <=> e = Main(t)
      /\ Main(t) \in Entities /\ Main(t)[1] = t /\ Main(t)[2] = 0
  BY EntityFacts
<1>5. /\ pc[e] = "sync" => ~ Waits(t) /\ \A f \in Entities : f[1] = t => ~ Given(f)
      /\ pc[e] = "read" =>
           /\ Waits(t) /\ Tx0(t) \in cancelled /\ val[e] \in Tx
           /\ \E i \in DOMAIN request[t].events : e = Waiter(t, i)
           /\ \A f \in Entities : f[1] = t /\ Given(f) => f = e
  <2>1. CASE pc[e] = "sync"
    BY <2>1, AtSync
  <2>2. CASE pc[e] = "read"
    <3>1. Given(e)
      BY <2>2 DEF Given, InChain
    <3> QED BY <2>2, <3>1 DEF GivenInv
  <2> QED BY <2>1, <2>2
<1>6. /\ ~ Waits(t) \/ Tx0(t) \in cancelled
      /\ \A f \in Entities : f[1] = t /\ f # e => ~ Given(f)
      /\ ops[t] > 0 /\ Tx0(t) \in Tx
  <2>1. pc[Main(t)] # "run"
    BY <1>5 DEF Waits
  <2>2. ops[t] > 0
    BY <2>1 DEF OpsInv
  <2> QED BY <1>5, <2>2, RequestFacts
<1>7. \A u : /\ Tx0(u)' = Tx0(u)
             /\ \A i : Waiter(u, i)' = Waiter(u, i) /\ Item(u, i)' = Item(u, i)
  BY DEF Tx0, Waiter, Item
<1>8. OnlyMoves(t)
  BY <1>3 DEF OnlyMoves
<1>9. \A f \in G : f \in Entities /\ f[1] \in Threads \ {t} /\ f # e
  BY <1>2, <1>5, <1>6 DEF Receives
<1>10. TypeOK'
  <2>1. \A f \in Entities : f[2] = 0 => pc'[f] \notin {"none", "return"}
    BY <1>3 DEF TypeOK
  <2>2. installed' \subseteq Tx
    BY <1>6 DEF TypeOK
  <2>3. sched'.atomic \in 0..1
    BY <1>2 DEF Receives
  <2> QED BY <1>1, <1>3, <2>1, <2>2, <2>3 DEF TypeOK
<1>11. \A u \in Threads \ {t} : pc'[Main(u)] = pc[Main(u)] /\ (Waits(u)' <=> Waits(u))
  BY <1>8, EntityFacts DEF Waits, OnlyMoves
<1>12. /\ pc'[Main(t)] = "run" \/ (pc'[Main(t)] = pc[Main(t)] /\ e # Main(t) /\ Waits(t))
       /\ Waits(t)' => pc'[e] = "return" /\ Waits(t) /\ pc'[Main(t)] = pc[Main(t)]
  BY <1>3, <1>4, <1>5 DEF Waits
<1>13. OpsInv'
  <2>1. \A x \in cancelled' \cup installed' : x[2] <= ops'[x[1]]
    <3>1. \A u \in Threads : Tx0(u)[2] <= ops[Tx0(u)[1]]
      BY DEF RequestsAssumption, Tx0, TypeOK
    <3>2. \A x \in cancelled' \ cancelled : \E u \in Threads : x = Tx0(u)
      BY <1>2 DEF Receives
    <3> QED BY <3>1, <3>2 DEF OpsInv
  <2>2. \A u \in Threads : pc'[Main(u)] # "run" => ops'[u] > 0
    BY <1>6, <1>11 DEF OpsInv
  <2>3. \A u \in Threads : pc'[Main(u)] = "sync" => Tx0(u)' \notin cancelled'
    <3> SUFFICES ASSUME NEW u \in Threads, pc'[Main(u)] = "sync", Tx0(u) \in cancelled'
                 PROVE  FALSE
      BY <1>7
    <3>1. u # t /\ pc[Main(u)] = "sync"
      BY <1>11, <1>12 DEF Waits
    <3>2. Tx0(u) \notin cancelled /\ ~ Waits(u)
      BY <3>1 DEF OpsInv, Waits
    <3>3. PICK f \in G : Tx0(u) = Tx0(f[1])
      BY <1>2, <3>2 DEF Receives
    <3>4. u = f[1]
      BY <3>3 DEF Tx0
    <3> QED BY <1>2, <3>2, <3>4 DEF Receives
  <2>4. \A u \in Threads : Waits(u)' =>
          /\ request'[u].mode \in {"call", "sync"}
          /\ pc'[Main(u)] = "read" <=> Len(request'[u].events) = 1
    BY <1>11, <1>12 DEF OpsInv
  <2>5. \A f \in Entities : f[2] # 0 => pc'[f] \in {"read", "none", "return"}
    BY <1>3 DEF OpsInv
  <2> QED BY <2>1, <2>2, <2>3, <2>4, <2>5 DEF OpsInv
<1>14. ItemsInv'
  <2>1. \A d \in Cells : \A item :
          item.tx \notin cancelled' /\ (\E k \in DOMAIN readQ'[d] : readQ'[d][k] = item)
          => /\ item.tx[1] # t /\ item.tx \notin cancelled
             /\ \E j \in DOMAIN readQ[d] : readQ[d][j] = item
    <3> SUFFICES ASSUME NEW d \in Cells, NEW item, item.tx \notin cancelled',
                        \E k \in DOMAIN readQ'[d] : readQ'[d][k] = item
                 PROVE  /\ item.tx[1] # t /\ item.tx \notin cancelled
                        /\ \E j \in DOMAIN readQ[d] : readQ[d][j] = item
      OBVIOUS
    <3>1. item.tx \notin cancelled /\ \E j \in DOMAIN readQ[d] : readQ[d][j] = item
      BY <1>1 DEF AddsNoItems
    <3> QED BY <1>6, <3>1, NoItemsOf
  <2> HIDE DEF CellsInv
  <2>2. \A d \in Cells : \A item :
          item.tx \notin cancelled' /\ (\E k \in DOMAIN readQ'[d] : readQ'[d][k] = item)
          => \/ /\ item.tx[1] # t /\ item.tx \notin cancelled
                /\ \E j \in DOMAIN readQ[d] : readQ[d][j] = item
             \/ LiveItem(d, item)'
    BY <2>1
  <2> QED BY <1>8, <2>2, ItemsStep
<1>15. \A f \in Entities \ (G \cup {e}) : (Given(f)' <=> Given(f)) /\ val'[f] = val[f]
  BY <1>2, <1>3 DEF Receives, Given, InChain
<1>16. Given(e)' <=> e[2] # 0
  BY <1>2, <1>3, <1>9 DEF Receives, Given
<1>17. \A f \in Entities : f[1] = t /\ Given(f)' => f = e
  BY <1>6, <1>9, <1>15
<1>18. \A f \in G : \A g \in Entities : g[1] = f[1] /\ Given(g)' => g = f
  <2> SUFFICES ASSUME NEW f \in G, NEW g \in Entities, g[1] = f[1], Given(g)', g # f
               PROVE  FALSE
    OBVIOUS
  <2>1. g \notin G /\ g # e
    BY <1>2, <1>9 DEF Receives
  <2>2. Given(g)
    BY <1>15, <2>1
  <2>3. Tx0(g[1]) \in cancelled
    BY <2>2 DEF GivenInv
  <2> QED BY <1>2, <2>3 DEF Receives
<1>19. GivenInv'
  <2>1. ASSUME NEW f \in Entities, Given(f)'
        PROVE  \/ f[1] # t /\ Given(f) /\ val'[f] = val[f]
               \/ /\ Waits(f[1])' /\ Tx0(f[1])' \in cancelled' /\ val'[f] \in Tx
                  /\ \E i \in DOMAIN request'[f[1]].events : f = Waiter(f[1], i)'
                  /\ \A g \in Entities : g[1] = f[1] /\ Given(g)' => g = f
    <3>1. CASE f \in G
      <4>1. /\ Waits(f[1])' /\ Tx0(f[1])' \in cancelled' /\ val'[f] \in Tx
            /\ \E i \in DOMAIN request'[f[1]].events : f = Waiter(f[1], i)'
        BY <1>2, <1>7, <1>9, <1>11, <3>1 DEF Receives
      <4> QED BY <1>18, <3>1, <4>1
    <3>2. CASE f = e
      <4>1. e # Main(t) /\ pc[e] = "read" /\ e[2] # 0
        BY <1>4, <1>16, <2>1, <3>2
      <4>2. /\ Waits(t) /\ Tx0(t) \in cancelled /\ val[e] \in Tx
            /\ \E i \in DOMAIN request[t].events : e = Waiter(t, i)
        BY <1>5, <4>1
      <4>3. Waits(t)' /\ val'[e] = val[e]
        BY <1>2, <1>3, <1>4, <1>9, <4>1, <4>2 DEF Receives, Waits
      <4> QED BY <1>1, <1>7, <1>17, <3>2, <4>2, <4>3
    <3>3. CASE f \notin G \cup {e}
      BY <1>6, <1>15, <2>1, <3>3
    <3> QED BY <3>1, <3>2, <3>3
  <2>2. sched'.atomic = 1 => sched'.cur \in Entities /\ pc'[sched'.cur] = "read"
    BY <1>2, <1>3, <1>9 DEF Receives
  <2> QED BY <1>1, <1>8, <2>1, <2>2, GivenStep
<1>20. PlacesInv'
  <2>1. \A f \in Entities : Places(sched, f) = One(Placed(f)) /\ Places(sched, f) \in Nat
    BY DEF PlacesInv, Scheduled, One
  <2>2. \A f \in Entities : Places(sched', f) = Places(sched, f) + One(f \in G)
    BY <1>2 DEF Receives
  <2>3. ASSUME NEW f \in Entities, f \in G PROVE Places(sched', f) = One(Placed(f)')
    <3>1. pc[f] = "read" /\ Tx0(f[1]) \notin cancelled
      BY <1>2, <2>3 DEF Receives
    <3>2. ~ Placed(f)
      BY <3>1 DEF GivenInv, Placed
    <3>3. Placed(f)'
      BY <1>2, <2>3 DEF Receives, Placed, Given
    <3>4. Places(sched, f) = 0
      BY <2>1, <3>2 DEF One
    <3> QED BY <2>2, <2>3, <3>3, <3>4 DEF One
  <2>4. ASSUME NEW f \in Entities, f \notin G PROVE Places(sched', f) = One(Placed(f)')
    <3>1. Placed(f)' <=> Placed(f)
      <4>1. CASE f = e
        <5>1. Placed(e)
          BY DEF Placed, Given, InChain
        <5>2. Placed(e)'
          BY <1>3 DEF Placed, Given
        <5> QED BY <4>1, <5>1, <5>2
      <4>2. CASE f # e
        BY <1>3, <1>15, <2>4, <4>2 DEF Placed
      <4> QED BY <4>1, <4>2
    <3>2. Places(sched', f) = Places(sched, f) + 0
      BY <2>2, <2>4 DEF One
    <3> QED BY <2>1, <3>1, <3>2 DEF One
  <2> QED BY <2>3, <2>4 DEF PlacesInv, Scheduled, One
<1>21. BlockedInv'
  <2>1. \A f \in Entities : f[1] # t /\ Given(f) => Given(f)'
    BY <1>2, <1>15 DEF Receives, Given
  <2>2. ASSUME NEW u \in Threads, Tx0(u) \in cancelled', Tx0(u) \notin cancelled
        PROVE  \E f \in Entities : f[1] = u /\ Given(f)'
    <3>1. PICK f \in G : Tx0(u) = Tx0(f[1])
      BY <1>2, <2>2 DEF Receives
    <3>2. f[1] = u
      BY <3>1 DEF Tx0
    <3> QED BY <1>2, <1>9, <3>2 DEF Receives, Given
  <2>3. Waits(t)' => (IF Tx0(t) \in cancelled THEN GivenTo(t) ELSE Pending(t))'
    <3> SUFFICES ASSUME Waits(t)' PROVE Tx0(t)' \in cancelled' /\ GivenTo(t)'
      OBVIOUS
    <3>1. pc'[e] = "return" /\ Waits(t)
      BY <1>12
    <3>2. Given(e)'
      BY <3>1 DEF Given
    <3> QED BY <1>1, <1>6, <1>7, <3>1, <3>2 DEF GivenTo
  <2> QED BY <1>1, <1>8, <2>1, <2>2, <2>3, BlockedStep
<1>22. ReadersInv'
  <2> SUFFICES ASSUME NEW d \in Cells, value'[d] # Nil, ~ Serving(d)', NEW k \in DOMAIN readQ'[d]
               PROVE  readQ'[d][k].tx \in cancelled'
    BY DEF ReadersInv, AllDead, Live
  <2>1. CASE d = c
    <3>1. sched'.atomic = 1 => Event(sched.cur)'.on = c
      BY <1>2 DEF Receives, Event
    <3>2. sched'.atomic = 0
      BY <1>2, <2>1, <3>1 DEF Receives, Serving
    <3> QED BY <1>2, <2>1, <3>2 DEF Receives
  <2>2. CASE d # c
    <3>1. value[d] # Nil /\ ~ Serving(d)
      BY <2>2 DEF Serving
    <3>2. AllDead(d)
      BY <3>1 DEF ReadersInv
    <3> QED BY <1>1, <3>2 DEF AddsNoItems, AllDead, Live
  <2> QED BY <2>1, <2>2
<1> QED BY <1>10, <1>13, <1>14, <1>19, <1>20, <1>21, <1>22

LEMMA PutStep ==
  ASSUME RequestsAssumption, CellsInv, NEW t \in Threads, Put(t)
  PROVE  CellsInv'
<1> USE DEF CellsInv
<1>1. CASE value[Event(Main(t)).on] # Nil
  BY <1>1, PutRaisesStep
<1>2. CASE value[Event(Main(t)).on] = Nil
  <2>1. sched.cur = Main(t) /\ pc[Main(t)] = "sync" /\ sched.atomic = 0
    BY DEF Put, Runs
  <2>2. Event(Main(t)).on \in Cells /\ Tx0(t) \in Tx
    BY <2>1, AtSync
  <2>3. PICK c \in Cells : c = Event(Main(t)).on
    BY <2>2
  <2>4. PICK x \in Tx : x = Tx0(t)
    BY <2>2
  <2>5. PICK e \in Entities : e = Main(t)
    BY EntityFacts
  <2>6. PICK s \in SchedulerStates(Entities) : s = atomicBegin(sched)
    BY <2>1, PlacesBegin DEF TypeOK
  <2>7. /\ pc' = [pc EXCEPT ![e] = "run"] /\ ops' = ops /\ request' = request
        /\ removed' = removed /\ value' = [value EXCEPT ![c] = x]
        /\ installed' = installed \cup {x} /\ HandOver(c, x, s, cancelled)
        /\ result' = [result EXCEPT ![x] = [event |-> 1, val |-> Nil]]
    BY <1>2, <2>3, <2>4, <2>5, <2>6 DEF Put, PutHands, Return
  <2>8. /\ s \in SchedulerStates(Entities) /\ s.atomic = 1 /\ s.cur = e
        /\ \A f \in Entities : Places(s, f) = Places(sched, f)
    BY <2>1, <2>5, <2>6, PlacesBegin DEF TypeOK
  <2>9. /\ e[1] = t /\ e[2] = 0 /\ sched.cur = e /\ pc[e] = "sync"
        /\ pc' = [pc EXCEPT ![e] = IF e[2] = 0 THEN "run" ELSE "return"]
    BY <2>1, <2>5, <2>7, EntityFacts
  <2>10. /\ value' \in [Cells -> Tx \cup {Nil}] /\ \A d \in Cells \ {c} : value'[d] = value[d]
         /\ removed' \subseteq [by : Tx, val : Tx]
         /\ installed' \in {installed, installed \cup {Tx0(t)}}
    BY <2>4, <2>7 DEF TypeOK
  <2>11. result' \in [Tx -> {Nil} \cup [event : 0..Fan, val : Tx \cup {Nil}]]
    <3>1. 1 \in 0..Fan
      <4>1. Len(request[t].events) \in 1..Fan /\ Fan \in Nat
        BY <2>1, AtSync, RequestFacts DEF RequestsAssumption
      <4> QED BY <4>1
    <3>2. [event |-> 1, val |-> Nil] \in [event : 0..Fan, val : Tx \cup {Nil}]
      BY <3>1
    <3> QED BY <2>7, <3>2 DEF TypeOK
  <2> HIDE DEF CellsInv
  <2>12. \/ e = Main(t) /\ pc[e] = "sync" /\ sched.atomic = 0
         \/ pc[e] = "read" /\ sched.atomic = 1
    BY <2>1, <2>5, <2>9
  <2>13. sched.atomic = 1 => Event(e).on = c
    BY <2>1
  <2>14. HandOver(c, x, s, cancelled)
    BY <2>7
  <2>15. ops' = ops /\ request' = request
    BY <2>7
  <2> HIDE DEF CellsInv
  <2> QED BY <2>8, <2>9, <2>10, <2>11, <2>12, <2>13, <2>14, <2>15, PassStep
<1> QED BY <1>1, <1>2

\* A reader that resumes: what it was given and where it goes on.
LEMMA ResumeFacts ==
  ASSUME RequestsAssumption, CellsInv, NEW e \in Entities, Resume(e)
  PROVE  /\ sched.cur = e /\ pc[e] = "read" /\ sched.atomic = 1
         /\ e[1] \in Threads /\ Waits(e[1]) /\ Tx0(e[1]) \in cancelled /\ Tx0(e[1]) \in Tx
         /\ val[e] \in Tx /\ Event(e) \in Reads /\ Event(e).on \in Cells
         /\ \E i \in DOMAIN request[e[1]].events : Event(e) = request[e[1]].events[i]
         /\ Swap(Event(e), Tx0(e[1]), val[e])
         /\ HandOver(Event(e).on, val[e], sched, cancelled)
<1> USE DEF CellsInv
<1>1. sched.cur = e /\ pc[e] = "read" /\ sched.atomic = 1
  BY DEF Resume, Runs
<1>2. Given(e) /\ e[1] \in Threads
  BY <1>1, EntityFacts DEF Given, InChain
<1>3. Waits(e[1]) /\ Tx0(e[1]) \in cancelled /\ val[e] \in Tx
  BY <1>2 DEF GivenInv
<1>4. PICK i \in DOMAIN request[e[1]].events : e = Waiter(e[1], i)
  BY <1>2 DEF GivenInv
<1>5. /\ Event(e) = request[e[1]].events[i] /\ Event(e) \in Reads /\ Tx0(e[1]) \in Tx
  <2>1. ops[e[1]] > 0
    BY <1>2, <1>3, WaitingFacts
  <2>2. Event(Waiter(e[1], i)) = request[e[1]].events[i] /\ request[e[1]].events[i] \in Reads
    BY <1>2, <1>4, <2>1, RequestFacts
  <2> QED BY <1>2, <1>3, <1>4, <2>2, WaitingFacts
<1>6. cancelled \cup {Tx0(e[1])} = cancelled
  BY <1>3
<1>7. Swap(Event(e), Tx0(e[1]), val[e]) /\ HandOver(Event(e).on, val[e], sched, cancelled)
  BY <1>6 DEF Resume, Relay
<1> QED BY <1>1, <1>2, <1>3, <1>5, <1>7 DEF Reads

LEMMA ResumeStep ==
  ASSUME RequestsAssumption, CellsInv, NEW e \in Entities, Resume(e)
  PROVE  CellsInv'
<1> USE DEF CellsInv
<1>1. /\ sched.cur = e /\ pc[e] = "read" /\ sched.atomic = 1
      /\ e[1] \in Threads /\ Tx0(e[1]) \in Tx /\ val[e] \in Tx
      /\ Event(e) \in Reads /\ Event(e).on \in Cells
      /\ Swap(Event(e), Tx0(e[1]), val[e])
      /\ HandOver(Event(e).on, val[e], sched, cancelled)
      /\ Waits(e[1])
  BY ResumeFacts
<1>2. PICK t \in Threads : t = e[1]
  BY <1>1
<1>3. PICK c \in Cells : c = Event(e).on
  BY <1>1
<1>4. PICK v \in Tx : v = val[e]
  BY <1>1
<1>5. PICK s \in SchedulerStates(Entities) : s = sched
  BY DEF TypeOK
<1>6. /\ pc' = [pc EXCEPT ![e] = IF e[2] = 0 THEN "run" ELSE "return"]
      /\ ops' = ops /\ request' = request
  BY DEF Resume
<1>7. result' \in [Tx -> {Nil} \cup [event : 0..Fan, val : Tx \cup {Nil}]]
  <2>1. 1 \in 0..Fan
    <3>1. Len(request[t].events) \in 1..Fan /\ Fan \in Nat
      BY <1>1, <1>2, WaitingFacts, RequestFacts DEF RequestsAssumption
    <3> QED BY <3>1
  <2>2. [event |-> 1, val |-> val[e]] \in [event : 0..Fan, val : Tx \cup {Nil}]
    BY <1>1, <2>1
  <2>3. \/ result' = result
        \/ result' = [result EXCEPT ![Tx0(e[1])] = [event |-> 1, val |-> val[e]]]
    BY DEF Resume
  <2> QED BY <1>1, <2>2, <2>3 DEF TypeOK
<1>8. /\ value' \in [Cells -> Tx \cup {Nil}] /\ removed' \subseteq [by : Tx, val : Tx]
      /\ \A d \in Cells \ {c} : value'[d] = value[d]
      /\ installed' \in {installed, installed \cup {Tx0(t)}}
  BY <1>1, <1>2, <1>3, SwapFacts DEF Reads
<1> QED BY <1>1, <1>2, <1>3, <1>4, <1>5, <1>6, <1>7, <1>8, PassStep

LEMMA HelperReturnsStep ==
  ASSUME RequestsAssumption, CellsInv, NEW e \in Entities, HelperReturns(e)
  PROVE  CellsInv'
<1> USE DEF CellsInv
<1>1. /\ value' = value /\ readQ' = readQ /\ cancelled' = cancelled /\ ops' = ops
      /\ request' = request /\ val' = val /\ installed' = installed /\ removed' = removed
      /\ sched.cur = e /\ pc[e] = "return" /\ sched.atomic = 0
      /\ sched' = switch(sched, Main(e[1]))
      /\ pc' = [pc EXCEPT ![e] = "none", ![Main(e[1])] = "run"]
      /\ result' = [result EXCEPT ![Tx0(e[1])] = [event |-> e[2], val |-> val[e]]]
  BY DEF HelperReturns, Runs
<1>2. PICK t \in Threads : t = e[1]
  BY EntityFacts
<1>3. Main(t) \in Entities /\ Main(t)[1] = t /\ Main(t)[2] = 0 /\ e # Main(t) /\ e[2] # 0
  BY <1>1, <1>2, EntityFacts DEF TypeOK
<1>4. /\ Waits(t) /\ Tx0(t) \in cancelled /\ val[e] \in Tx
      /\ \A f \in Entities : f[1] = t /\ Given(f) => f = e
  BY <1>1, <1>2 DEF GivenInv, Given
<1>5. Tx0(t) \in Tx
  BY <1>4, WaitingFacts
<1>6. /\ pc'[Main(t)] = "run" /\ pc'[e] = "none"
      /\ \A f \in Entities \ {e, Main(t)} : pc'[f] = pc[f]
      /\ pc' \in [Entities -> Points]
  BY <1>1, <1>2, <1>3 DEF TypeOK, Points
<1>7. OnlyMoves(t) /\ KeepsItems /\ ~ Waits(t)'
  BY <1>1, <1>2, <1>3, <1>6 DEF OnlyMoves, KeepsItems, Waits
<1>8. /\ sched' \in SchedulerStates(Entities) /\ sched'.atomic = 0
      /\ \A f : Places(sched', f) = Places(sched, f) - One(e = f) + One(Main(t) = f)
  <2> DEFINE b == atomicBegin(sched)
  <2>1. /\ b \in SchedulerStates(Entities) /\ b.atomic = 1 /\ b.cur = e
        /\ \A f : Places(b, f) = Places(sched, f)
    BY <1>1, PlacesBegin DEF TypeOK
  <2>2. sched' = atomicSwitch(b, Main(t))
    BY <1>1, <1>2 DEF switch
  <2> HIDE DEF b
  <2> QED BY <1>3, <2>1, <2>2, PlacesSwitch
<1>9. TypeOK'
  <2>1. result' \in [Tx -> {Nil} \cup [event : 0..Fan, val : Tx \cup {Nil}]]
    <3>1. [event |-> e[2], val |-> val[e]] \in [event : 0..Fan, val : Tx \cup {Nil}]
      BY <1>4, EntityFacts
    <3> QED BY <1>1, <1>2, <1>5, <3>1 DEF TypeOK
  <2>2. \A f \in Entities : f[2] = 0 => pc'[f] \notin {"none", "return"}
    BY <1>3, <1>6 DEF TypeOK
  <2> QED BY <1>1, <1>6, <1>8, <2>1, <2>2 DEF TypeOK
<1>10. \A f \in Entities : Given(f)' <=> (Given(f) /\ f # e)
  <2>1. ~ Given(Main(t))
    BY <1>3, <1>4
  <2> QED BY <1>1, <1>3, <1>6, <1>8, <2>1 DEF Given, InChain
<1>11. \A u \in Threads \ {t} : pc'[Main(u)] = pc[Main(u)] /\ (Waits(u)' <=> Waits(u))
  BY <1>7, EntityFacts DEF Waits, OnlyMoves
<1>12. OpsInv'
  <2>1. \A u \in Threads : Tx0(u)' = Tx0(u)
    BY <1>1 DEF Tx0
  <2>2. \A u \in Threads : pc'[Main(u)] # "run" => ops'[u] > 0
    BY <1>1, <1>6, <1>11 DEF OpsInv
  <2>3. \A u \in Threads : pc'[Main(u)] = "sync" => Tx0(u)' \notin cancelled'
    <3> SUFFICES ASSUME NEW u \in Threads, pc'[Main(u)] = "sync" PROVE Tx0(u) \notin cancelled
      BY <1>1, <2>1
    <3>1. u # t /\ pc[Main(u)] = "sync"
      BY <1>6, <1>11
    <3> QED BY <3>1 DEF OpsInv
  <2>4. \A u \in Threads : Waits(u)' =>
          /\ request'[u].mode \in {"call", "sync"}
          /\ pc'[Main(u)] = "read" <=> Len(request'[u].events) = 1
    BY <1>1, <1>7, <1>11 DEF OpsInv
  <2>5. \A f \in Entities : f[2] # 0 => pc'[f] \in {"read", "none", "return"}
    BY <1>3, <1>6 DEF OpsInv
  <2> QED BY <1>1, <2>2, <2>3, <2>4, <2>5 DEF OpsInv
<1>13. ItemsInv'
  <2>1. \A c \in Cells : \A item :
          item.tx \notin cancelled' /\ (\E k \in DOMAIN readQ'[c] : readQ'[c][k] = item)
          => /\ item.tx[1] # t /\ item.tx \notin cancelled
             /\ \E j \in DOMAIN readQ[c] : readQ[c][j] = item
    BY <1>1, <1>4, NoItemsOf
  <2> HIDE DEF CellsInv
  <2>2. \A c \in Cells : \A item :
          item.tx \notin cancelled' /\ (\E k \in DOMAIN readQ'[c] : readQ'[c][k] = item)
          => \/ /\ item.tx[1] # t /\ item.tx \notin cancelled
                /\ \E j \in DOMAIN readQ[c] : readQ[c][j] = item
             \/ LiveItem(c, item)'
    BY <2>1
  <2> QED BY <1>7, <2>2, ItemsStep
<1>14. GivenInv'
  <2>1. \A f \in Entities : Given(f)' => f[1] # t /\ Given(f) /\ val'[f] = val[f]
    BY <1>1, <1>4, <1>10
  <2> QED BY <1>1, <1>7, <1>8, <2>1, GivenStep
<1>15. PlacesInv'
  <2>1. \A f \in Entities : Places(sched, f) = One(Placed(f)) /\ Places(sched, f) \in Nat
    BY DEF PlacesInv, Scheduled, One
  <2>2. Placed(e) /\ ~ Placed(e)' /\ ~ Placed(Main(t)) /\ Placed(Main(t))'
    <3>1. ~ Given(Main(t)) /\ pc[Main(t)] \in {"read", "helped"}
      BY <1>3, <1>4 DEF Waits
    <3> QED BY <1>1, <1>6, <1>10, <3>1 DEF Placed, Given
  <2>3. Places(sched', e) = One(Placed(e)')
    <3>1. Places(sched, e) = 1
      BY <2>1, <2>2 DEF One
    <3> QED BY <1>3, <1>8, <2>2, <3>1 DEF One
  <2>4. Places(sched', Main(t)) = One(Placed(Main(t))')
    <3>1. Places(sched, Main(t)) = 0
      BY <1>3, <2>1, <2>2 DEF One
    <3> QED BY <1>3, <1>8, <2>2, <3>1 DEF One
  <2>5. ASSUME NEW f \in Entities, f # e, f # Main(t) PROVE Places(sched', f) = One(Placed(f)')
    <3>1. Placed(f)' <=> Placed(f)
      BY <1>6, <1>10, <2>5 DEF Placed
    <3>2. Places(sched', f) = Places(sched, f) - 0 + 0
      BY <1>8, <2>5 DEF One
    <3> QED BY <2>1, <3>1, <3>2 DEF One
  <2> QED BY <2>3, <2>4, <2>5 DEF PlacesInv, Scheduled, One
<1>16. BlockedInv'
  <2>1. \A f \in Entities : f[1] # t /\ Given(f) => Given(f)'
    BY <1>2, <1>10
  <2> QED BY <1>1, <1>7, <2>1, BlockedStep
<1>17. ReadersInv'
  BY <1>1, <1>8 DEF ReadersInv, AllDead, Serving, Live
<1> QED BY <1>9, <1>12, <1>13, <1>14, <1>15, <1>16, <1>17

\* The items a blocking read leaves at a cell: one for each of its events there.
LEMMA NewItemsFacts ==
  ASSUME RequestsAssumption, TypeOK, NEW t \in Threads, ops[t] > 0, NEW c \in Cells
  PROVE  /\ NewItems(t, c) \in Seq(Items)
         /\ \A k \in DOMAIN NewItems(t, c) :
              \E i \in DOMAIN request[t].events :
                request[t].events[i].on = c /\ NewItems(t, c)[k] = Item(t, i)
         /\ \A i \in DOMAIN request[t].events : request[t].events[i].on = c =>
              \E k \in DOMAIN NewItems(t, c) : NewItems(t, c)[k] = Item(t, i)
<1> DEFINE n == Len(request[t].events)
           p == [k \in 1..n |-> n + 1 - k]
           S == {i \in 1..n : request[t].events[i].on = c}
           index == Among(p, S)
<1>1. n \in Nat /\ DOMAIN request[t].events = 1..n
  BY RequestFacts
<1>2. \A i \in 1..n : Item(t, i) \in Items
  BY <1>1, RequestFacts
<1> HIDE DEF n
<1>3. p \in Seq(1..n) /\ Len(p) = n /\ \A k \in 1..n : p[k] = n + 1 - k
  BY <1>1
<1> HIDE DEF p
<1>4. index \in Seq((1..n) \cap S) /\ Selects(p, S, n, index)
  <2> HIDE DEF S
  <2> QED BY <1>3, AmongElements
<1> HIDE DEF index
<1>5. NewItems(t, c) = [k \in DOMAIN index |-> Item(t, index[k])]
  BY DEF NewItems, index, S, p, n
<1>6. DOMAIN index = 1..Len(index) /\ Len(index) \in Nat /\ \A k \in DOMAIN index : index[k] \in S
  BY <1>4
<1>7. \A i \in S : \E k \in DOMAIN index : index[k] = i
  <2> SUFFICES ASSUME NEW i \in S PROVE \E k \in DOMAIN index : index[k] = i
    OBVIOUS
  <2>1. i \in 1..n /\ n + 1 - i \in 1..n /\ p[n + 1 - i] = i
    BY <1>1, <1>3
  <2> HIDE DEF S
  <2> QED BY <2>1, <1>4 DEF Selects
<1>8. NewItems(t, c) \in Seq(Items) /\ DOMAIN NewItems(t, c) = DOMAIN index
  <2>1. \A k \in 1..Len(index) : Item(t, index[k]) \in Items
    BY <1>2, <1>6
  <2> HIDE DEF S
  <2> QED BY <1>5, <1>6, <2>1
<1> QED BY <1>1, <1>5, <1>6, <1>7, <1>8

\* What a blocking read leaves in each queue: what was alive, and its own items.
QueuedAfter(t, c, q) ==
  /\ q \in Seq(Items)
  /\ \A k \in DOMAIN q : \/ \E j \in DOMAIN readQ[c] : q[k] = readQ[c][j]
                         \/ \E i \in DOMAIN request[t].events :
                              request[t].events[i].on = c /\ q[k] = Item(t, i)
  /\ \A j \in DOMAIN readQ[c] : readQ[c][j].tx \notin cancelled =>
       \E k \in DOMAIN q : q[k] = readQ[c][j]
  /\ \A i \in DOMAIN request[t].events : request[t].events[i].on = c =>
       \E k \in DOMAIN q : q[k] = Item(t, i)

LEMMA BlockQueues ==
  ASSUME RequestsAssumption, TypeOK, NEW t \in Threads, ops[t] > 0, Tx0(t) \notin cancelled,
         NEW c \in Cells,
         NEW q, q = IF NewItems(t, c) = <<>> THEN readQ[c]
                    ELSE Clean(readQ[c] \o NewItems(t, c), cancelled)
  PROVE  QueuedAfter(t, c, q)
<1> DEFINE new == NewItems(t, c)
           all == readQ[c] \o new
<1>1. /\ readQ[c] \in Seq(Items) /\ new \in Seq(Items)
      /\ \A k \in DOMAIN new : \E i \in DOMAIN request[t].events :
           request[t].events[i].on = c /\ new[k] = Item(t, i)
      /\ \A i \in DOMAIN request[t].events : request[t].events[i].on = c =>
           \E k \in DOMAIN new : new[k] = Item(t, i)
  BY NewItemsFacts DEF TypeOK
<1>2. q = IF new = <<>> THEN readQ[c] ELSE Clean(all, cancelled)
  OBVIOUS
<1>3. \A i : Item(t, i).tx \notin cancelled
  BY DEF Item
<1> HIDE DEF new
<1>4. CASE new = <<>>
  BY <1>1, <1>2, <1>4 DEF QueuedAfter
<1>5. CASE new # <<>>
  <2>1. all \in Seq(Items) /\ Joins(readQ[c], new, all)
    BY <1>1, ConcatElements
  <2> HIDE DEF all
  <2>2. /\ q \in Seq(Items)
        /\ \A k \in DOMAIN q : \E i \in DOMAIN all : all[i] = q[k]
        /\ \A i \in DOMAIN all : all[i].tx \notin cancelled => \E k \in DOMAIN q : q[k] = all[i]
    BY <1>2, <1>5, <2>1, CleanFacts
  <2>3. ASSUME NEW k \in DOMAIN q
        PROVE  \/ \E j \in DOMAIN readQ[c] : q[k] = readQ[c][j]
               \/ \E i \in DOMAIN request[t].events :
                    request[t].events[i].on = c /\ q[k] = Item(t, i)
    <3>1. PICK i \in DOMAIN all : all[i] = q[k]
      BY <2>2
    <3>2. CASE \E j \in DOMAIN readQ[c] : all[i] = readQ[c][j]
      BY <3>1, <3>2
    <3>3. ASSUME NEW m \in DOMAIN new, all[i] = new[m]
          PROVE  \E n \in DOMAIN request[t].events :
                   request[t].events[n].on = c /\ q[k] = Item(t, n)
      BY <1>1, <3>1, <3>3
    <3> QED BY <2>1, <3>1, <3>2, <3>3 DEF Joins
  <2>4. ASSUME NEW j \in DOMAIN readQ[c], readQ[c][j].tx \notin cancelled
        PROVE  \E k \in DOMAIN q : q[k] = readQ[c][j]
    <3>1. PICK i \in DOMAIN all : all[i] = readQ[c][j]
      BY <2>1 DEF Joins
    <3> QED BY <2>2, <2>4, <3>1
  <2>5. ASSUME NEW i \in DOMAIN request[t].events, request[t].events[i].on = c
        PROVE  \E k \in DOMAIN q : q[k] = Item(t, i)
    <3>1. PICK m \in DOMAIN new : new[m] = Item(t, i)
      BY <1>1, <2>5
    <3>2. PICK n \in DOMAIN all : all[n] = Item(t, i)
      BY <2>1, <3>1 DEF Joins
    <3> QED BY <1>3, <2>2, <3>2
  <2> QED BY <2>2, <2>3, <2>4, <2>5 DEF QueuedAfter
<1> QED BY <1>4, <1>5

LEMMA BlockStep ==
  ASSUME RequestsAssumption, CellsInv, NEW t \in Threads, Block(t)
  PROVE  CellsInv' /\ OnlyMoves(t) /\ sched'.atomic = 0
<1> USE DEF CellsInv
<1> DEFINE D == DOMAIN request[t].events
           W == {Waiter(t, i) : i \in D}
<1>1. /\ cancelled' = cancelled /\ ops' = ops /\ request' = request /\ val' = val
      /\ result' = result /\ value' = value /\ installed' = installed /\ removed' = removed
      /\ sched.atomic = 0 /\ pc[Main(t)] = "sync" /\ sched.cur = Main(t)
      /\ request[t].mode \in {"call", "sync"}
      /\ EnabledEvents(t) = {}
      /\ readQ' = [c \in Cells |->
           IF NewItems(t, c) = <<>> THEN readQ[c]
           ELSE Clean(readQ[c] \o NewItems(t, c), cancelled)]
      /\ pc' = [e \in Entities |->
           IF e \in W THEN "read" ELSE IF e = Main(t) THEN "helped" ELSE pc[e]]
      /\ sched' = atomicSwitchToNext([atomicBegin(sched) EXCEPT !.marked = @ \cup W])
  <2>1. \A e \in Entities : (\E i \in D : e = Waiter(t, i)) <=> e \in W
    OBVIOUS
  <2> QED BY <2>1 DEF Block, Runs
<1>2. /\ ops[t] > 0 /\ Tx0(t) \in Tx /\ Tx0(t) \notin cancelled
      /\ \A e \in Entities : e[1] = t /\ e # Main(t) => pc[e] \in {"read", "none"}
      /\ \A e \in Entities : e[1] = t => ~ Given(e)
      /\ ~ Waits(t)
  BY <1>1, AtSync
<1>3. /\ D = 1..Len(request[t].events) /\ Len(request[t].events) \in 1..Fan
      /\ \A i \in D : /\ request[t].events[i].on \in Cells /\ Waiter(t, i) \in Entities
                      /\ Waiter(t, i)[1] = t
  BY <1>2, RequestFacts DEF Reads
<1>4. W \subseteq Entities /\ \A e \in W : e[1] = t
  BY <1>3
<1>5. Main(t) \in W <=> Len(request[t].events) = 1
  <2>1. CASE Len(request[t].events) = 1
    BY <1>3, <2>1 DEF Waiter
  <2>2. CASE Len(request[t].events) # 1
    <3>1. Len(request[t].events) > 1
      <4>1. \A n \in 1..Fan : n # 1 => n > 1
        OBVIOUS
      <4> HIDE DEF D
      <4> QED BY <1>3, <2>2, <4>1
    <3>2. \A i \in D : Waiter(t, i) = <<t, i>> /\ i \in 1..Fan
      <4>1. \A i \in D : i \in 1..Fan
        BY <1>2, RequestFacts
      <4> HIDE DEF D
      <4> QED BY <3>1, <4>1 DEF Waiter
    <3> QED BY <2>2, <3>2, EntityFacts
  <2> QED BY <2>1, <2>2
<1>6. \A i \in D : value[request[t].events[i].on] = Nil
  BY <1>1 DEF EnabledEvents
<1>7. \A c \in Cells : QueuedAfter(t, c, readQ'[c])
  <2> SUFFICES ASSUME NEW c \in Cells PROVE QueuedAfter(t, c, readQ'[c])
    OBVIOUS
  <2>1. readQ'[c] = IF NewItems(t, c) = <<>> THEN readQ[c]
                    ELSE Clean(readQ[c] \o NewItems(t, c), cancelled)
    BY <1>1
  <2> QED BY <1>2, <2>1, BlockQueues
<1> HIDE DEF W
<1>8. /\ \A e \in W : pc'[e] = "read"
      /\ Main(t) \notin W => pc'[Main(t)] = "helped"
      /\ \A e \in Entities : e \notin W /\ e # Main(t) => pc'[e] = pc[e]
  BY <1>1, <1>4, EntityFacts
<1>9. OnlyMoves(t)
  BY <1>1, <1>4, <1>8, EntityFacts DEF OnlyMoves
<1>10. Waits(t)' /\ pc'[Main(t)] \in {"read", "helped"}
  BY <1>8 DEF Waits
<1>11. /\ sched' \in SchedulerStates(Entities) /\ sched'.atomic = 0
       /\ \A e \in Entities : Places(sched', e) = Places(sched, e) - One(Main(t) = e)
  <2> DEFINE b == atomicBegin(sched)
             w == b.marked \cup W
             r == [b EXCEPT !.marked = w]
  <2>1. /\ b \in SchedulerStates(Entities) /\ b.atomic = 1 /\ b.cur = Main(t)
        /\ \A e : Places(b, e) = Places(sched, e)
    BY <1>1, PlacesBegin DEF TypeOK
  <2>2. sched' = atomicSwitchToNext(r)
    BY <1>1
  <2> HIDE DEF b
  <2>3. w \in SUBSET Entities
    BY <1>4, <2>1 DEF SchedulerStates
  <2> HIDE DEF w
  <2>4. /\ r \in SchedulerStates(Entities) /\ r.atomic = 1 /\ r.cur = Main(t)
        /\ \A e : Places(r, e) = Places(b, e)
    <3>1. \A s : s = r => /\ s \in SchedulerStates(Entities) /\ s.atomic = b.atomic
                          /\ s.cur = b.cur /\ \A e : Places(s, e) = Places(b, e)
      BY <2>1, <2>3, PlacesMarked
    <3> HIDE DEF r
    <3> QED BY <2>1, <3>1
  <2> HIDE DEF r
  <2>5. /\ atomicSwitchToNext(r) \in SchedulerStates(Entities)
        /\ atomicSwitchToNext(r).atomic = r.atomic - 1
        /\ \A e \in Entities : Places(atomicSwitchToNext(r), e) = Places(r, e) - One(r.cur = e)
    BY <2>4, EntityFacts, PlacesSwitchToNext
  <2> QED BY <2>1, <2>2, <2>4, <2>5
<1>12. TypeOK'
  <2>1. pc' \in [Entities -> Points]
    BY <1>1 DEF TypeOK, Points
  <2>2. \A e \in Entities : e[2] = 0 => pc'[e] \notin {"none", "return"}
    BY <1>1 DEF TypeOK
  <2>3. readQ' \in [Cells -> Seq(Items)]
    BY <1>1, <1>7 DEF QueuedAfter
  <2> QED BY <1>1, <1>11, <2>1, <2>2, <2>3 DEF TypeOK
<1>13. \A u \in Threads \ {t} : pc'[Main(u)] = pc[Main(u)] /\ (Waits(u)' <=> Waits(u))
  BY <1>4, <1>8, EntityFacts DEF Waits
<1>14. OpsInv'
  <2>1. \A u : Tx0(u)' = Tx0(u)
    BY <1>1 DEF Tx0
  <2>2. \A u \in Threads : pc'[Main(u)] # "run" => ops'[u] > 0
    BY <1>1, <1>2, <1>13 DEF OpsInv
  <2>3. \A u \in Threads : pc'[Main(u)] = "sync" => Tx0(u)' \notin cancelled'
    BY <1>1, <1>10, <1>13, <2>1 DEF OpsInv
  <2>4. \A u \in Threads : Waits(u)' =>
          /\ request'[u].mode \in {"call", "sync"}
          /\ pc'[Main(u)] = "read" <=> Len(request'[u].events) = 1
    <3> SUFFICES ASSUME NEW u \in Threads, Waits(u)'
                 PROVE  /\ request[u].mode \in {"call", "sync"}
                        /\ pc'[Main(u)] = "read" <=> Len(request[u].events) = 1
      BY <1>1
    <3>1. CASE u = t
      BY <1>1, <1>5, <1>8, <3>1
    <3>2. CASE u # t
      BY <1>13, <3>2 DEF OpsInv
    <3> QED BY <3>1, <3>2
  <2>5. \A e \in Entities : e[2] # 0 => pc'[e] \in {"read", "none", "return"}
    BY <1>8, EntityFacts DEF OpsInv
  <2> QED BY <1>1, <2>2, <2>3, <2>4, <2>5 DEF OpsInv
<1>15. \A i : Item(t, i)' = Item(t, i) /\ Waiter(t, i)' = Waiter(t, i)
  BY <1>1 DEF Item, Waiter, Tx0
<1>16. ItemsInv'
  <2>1. ASSUME NEW c \in Cells, NEW item, item.tx \notin cancelled',
               \E k \in DOMAIN readQ'[c] : readQ'[c][k] = item
        PROVE  \/ /\ item.tx[1] # t /\ item.tx \notin cancelled
                  /\ \E j \in DOMAIN readQ[c] : readQ[c][j] = item
               \/ LiveItem(c, item)'
    <3>1. \/ \E j \in DOMAIN readQ[c] : readQ[c][j] = item
          \/ \E i \in D : request[t].events[i].on = c /\ item = Item(t, i)
      BY <1>7, <2>1 DEF QueuedAfter
    <3>2. CASE \E j \in DOMAIN readQ[c] : readQ[c][j] = item
      BY <1>1, <1>2, <2>1, <3>2, NoItemsOf
    <3>3. CASE \E i \in D : request[t].events[i].on = c /\ item = Item(t, i)
      <4>1. PICK i \in D : request[t].events[i].on = c /\ item = Item(t, i)
        BY <3>3
      <4>2. pc'[Waiter(t, i)] = "read"
        BY <1>8 DEF W
      <4> QED BY <1>1, <1>10, <1>15, <4>1, <4>2 DEF LiveItem
    <3> QED BY <3>1, <3>2, <3>3
  <2>2. \A c \in Cells : \A item :
          item.tx \notin cancelled' /\ (\E k \in DOMAIN readQ'[c] : readQ'[c][k] = item)
          => \/ /\ item.tx[1] # t /\ item.tx \notin cancelled
                /\ \E j \in DOMAIN readQ[c] : readQ[c][j] = item
             \/ LiveItem(c, item)'
    BY <2>1
  <2> HIDE DEF CellsInv
  <2> QED BY <1>9, <2>2, ItemsStep
<1>17. \A e \in Entities : e[1] = t => pc'[e] \in {"read", "helped", "none"}
  BY <1>2, <1>8
<1>18. \A e \in Entities : Given(e)' <=> Given(e)
  <2>1. ASSUME NEW e \in Entities, e[1] = t PROVE ~ Given(e) /\ ~ Given(e)'
    BY <1>2, <1>11, <1>17, <2>1 DEF Given, InChain
  <2>2. ASSUME NEW e \in Entities, e[1] # t PROVE Given(e)' <=> Given(e)
    BY <1>1, <1>9, <1>11, <2>2, EntityFacts DEF Given, InChain, OnlyMoves
  <2> QED BY <2>1, <2>2
<1>19. GivenInv'
  <2>1. \A e \in Entities : Given(e)' => e[1] # t /\ Given(e) /\ val'[e] = val[e]
    BY <1>1, <1>2, <1>18
  <2>2. cancelled \subseteq cancelled'
    BY <1>1
  <2>3. sched'.atomic = 1 => sched'.cur \in Entities /\ pc'[sched'.cur] = "read"
    BY <1>11
  <2> HIDE DEF CellsInv, D
  <2> QED BY <1>9, <2>1, <2>2, <2>3, GivenStep
<1>20. PlacesInv'
  <2>1. Placed(Main(t)) /\ ~ Placed(Main(t))'
    BY <1>1, <1>2, <1>10, <1>18, EntityFacts DEF Placed
  <2>2. ASSUME NEW e \in Entities \ {Main(t)} PROVE Placed(e)' <=> Placed(e)
    <3>1. CASE e[1] = t
      BY <1>2, <1>17, <1>18, <3>1 DEF Placed
    <3>2. CASE e[1] # t
      BY <1>4, <1>8, <1>18, <3>2 DEF Placed
    <3> QED BY <3>1, <3>2
  <2>3. \A e \in Entities : Places(sched, e) = One(Placed(e))
    BY DEF PlacesInv, Scheduled
  <2>4. Places(sched', Main(t)) = One(Placed(Main(t))')
    BY <1>11, <2>1, <2>3, EntityFacts DEF One
  <2>5. ASSUME NEW e \in Entities \ {Main(t)} PROVE Places(sched', e) = One(Placed(e)')
    <3>1. Places(sched', e) = Places(sched, e) - 0
      BY <1>11 DEF One
    <3>2. Places(sched, e) = One(Placed(e)) /\ Places(sched, e) \in Nat
      BY <2>3 DEF One
    <3> QED BY <2>2, <3>1, <3>2 DEF One
  <2> QED BY <2>4, <2>5 DEF PlacesInv, Scheduled, One
<1>21. KeepsItems
  BY <1>1, <1>7 DEF KeepsItems, QueuedAfter
<1>22. Pending(t)'
  <2>1. ASSUME NEW i \in D
        PROVE  \E k \in DOMAIN readQ'[request[t].events[i].on] :
                 readQ'[request[t].events[i].on][k] = Item(t, i)
    BY <1>3, <1>7 DEF QueuedAfter
  <2> QED BY <1>1, <1>2, <1>15, <2>1 DEF Pending, Tx0
<1>23. BlockedInv'
  <2>1. Tx0(t)' \notin cancelled'
    BY <1>1, <1>2 DEF Tx0
  <2>2. \A e \in Entities : e[1] # t /\ Given(e) => Given(e)'
    BY <1>18
  <2> QED BY <1>1, <1>9, <1>21, <1>22, <2>1, <2>2, BlockedStep
<1>24. ReadersInv'
  <2> SUFFICES ASSUME NEW c \in Cells, value[c] # Nil, NEW k \in DOMAIN readQ'[c]
               PROVE  readQ'[c][k].tx \in cancelled
    BY <1>1, <1>11 DEF ReadersInv, AllDead, Live
  <2>1. AllDead(c)
    BY <1>1 DEF ReadersInv, Serving
  <2>2. \E j \in DOMAIN readQ[c] : readQ'[c][k] = readQ[c][j]
    BY <1>6, <1>7 DEF QueuedAfter
  <2> QED BY <2>1, <2>2 DEF AllDead, Live
<1> QED BY <1>9, <1>11, <1>12, <1>14, <1>16, <1>19, <1>20, <1>23, <1>24

-----------------------------------------------------------------------------
(***************************************************************************)
(* The invariant holds.                                                    *)
(***************************************************************************)
LEMMA StutterStep ==
  ASSUME CellsInv, UNCHANGED vars
  PROVE  CellsInv'
<1> USE DEF CellsInv, vars
<1>1. TypeOK'
  BY DEF TypeOK
<1>2. OpsInv'
  BY DEF OpsInv, Tx0, Waits
<1>3. ItemsInv'
  <2>1. \A u, i : Item(u, i)' = Item(u, i) /\ Waiter(u, i)' = Waiter(u, i)
    BY DEF Item, Waiter, Tx0
  <2>2. \A u : Waits(u)' <=> Waits(u)
    BY DEF Waits
  <2>3. \A c, item : LiveItem(c, item)' <=> LiveItem(c, item)
    BY <2>1, <2>2 DEF LiveItem
  <2> QED BY <2>3 DEF ItemsInv, Live
<1>4. GivenInv'
  BY DEF GivenInv, Given, InChain, Waits, Tx0, Waiter
<1>5. PlacesInv'
  BY DEF PlacesInv, Placed, Given, InChain, Scheduled
<1>6. BlockedInv'
  BY DEF BlockedInv, Waits, Pending, GivenTo, Given, InChain, Tx0, Item, Waiter
<1>7. ReadersInv'
  BY DEF ReadersInv, AllDead, Live, Serving, Event
<1> QED BY <1>1, <1>2, <1>3, <1>4, <1>5, <1>6, <1>7

LEMMA InvariantStep ==
  ASSUME RequestsAssumption, CellsInv, [Next]_vars
  PROVE  CellsInv'
<1>1. ASSUME NEW t \in Threads, NEW r \in Requests[t], Evaluate(t, r) PROVE CellsInv'
  BY <1>1, EvaluateStep
<1>2. ASSUME NEW t \in Threads, Put(t) PROVE CellsInv'
  BY <1>2, PutStep
<1>3. ASSUME NEW t \in Threads, ReadNow(t) PROVE CellsInv'
  BY <1>3, ReadNowStep
<1>4. ASSUME NEW t \in Threads, PollFails(t) PROVE CellsInv'
  BY <1>4, PollFailsStep
<1>5. ASSUME NEW t \in Threads, Block(t) PROVE CellsInv'
  BY <1>5, BlockStep
<1>6. ASSUME NEW e \in Entities, Resume(e) PROVE CellsInv'
  BY <1>6, ResumeStep
<1>7. ASSUME NEW e \in Entities, HelperReturns(e) PROVE CellsInv'
  BY <1>7, HelperReturnsStep
<1>8. ASSUME Preempt PROVE CellsInv'
  BY <1>8, PreemptStep
<1>9. ASSUME UNCHANGED vars PROVE CellsInv'
  BY <1>9, StutterStep
<1> QED BY <1>1, <1>2, <1>3, <1>4, <1>5, <1>6, <1>7, <1>8, <1>9 DEF Next, Step

LEMMA CellsInvariant == RequestsAssumption => (Spec => []CellsInv)
<1> SUFFICES ASSUME RequestsAssumption PROVE Spec => []CellsInv
  OBVIOUS
<1>1. Init => CellsInv
  BY InitInv
<1>2. CellsInv /\ [Next]_vars => CellsInv'
  BY InvariantStep
<1> QED BY <1>1, <1>2, PTL DEF Spec

\* Every reader and writer of the cells is in one place, or blocked with an item in the
\* queue of every cell of its choice, and nobody alive waits for a full cell, whatever
\* the chains of relays (relayMsg) that critical sections are passed along.
THEOREM SyncVarSchedulingOk == RequestsAssumption => (Spec => []SchedulingOk)
<1> SUFFICES ASSUME RequestsAssumption PROVE Spec => []SchedulingOk
  OBVIOUS
<1>1. CellsInv => SchedulingOk
  BY InvImpliesOk
<1>2. Spec => []CellsInv
  BY CellsInvariant
<1> QED BY <1>1, <1>2, PTL

-----------------------------------------------------------------------------
(***************************************************************************)
(* No value is lost or delivered twice, if of the threads that wait to     *)
(* take from a cell there is one (OneTakerAssumption).                     *)
(***************************************************************************)
\* A value is in one cell, or was taken out of its cell by one operation.
ValuesInv ==
  /\ \A c \in Cells : value[c] # Nil =>
       /\ value[c] \in installed
       /\ \A d \in Cells : value[d] = value[c] => d = c
       /\ \A r \in removed : r.val # value[c]
  /\ \A r \in removed : r.val \in installed /\ \A s \in removed : s.val = r.val => s = r
  /\ \A x \in installed : (\E c \in Cells : value[c] = x) \/ (\E r \in removed : r.val = x)

\* An operation leaves its own value in a cell at most once, as its last step.
FreshInv ==
  \A t \in Threads : pc[Main(t)] # "run" /\ Tx0(t) \in installed =>
    \E e \in Entities : e[1] = t /\ pc[e] = "return"

\* A reader takes only the value that the cell holds: once one has taken it, those that
\* the chain still reaches only read it.
AllGet(c) == \A k \in DOMAIN readQ[c] : Live(readQ[c][k]) => Event(readQ[c][k].thr).kind = "get"

ChainInv ==
  sched.atomic = 1 =>
    /\ val[sched.cur] \in installed
    /\ value[Event(sched.cur).on] # val[sched.cur] =>
         Event(sched.cur).kind = "get" /\ AllGet(Event(sched.cur).on)

ConservedInv == ValuesInv /\ FreshInv /\ ChainInv

LEMMA ConservedInitially ==
  ASSUME RequestsAssumption, Init
  PROVE  ConservedInv
<1>1. sched.atomic = 0
  BY DEF Init, Started
<1> QED BY <1>1 DEF Init, ConservedInv, ValuesInv, FreshInv, ChainInv

LEMMA ConservedImplies ==
  ASSUME RequestsAssumption, TypeOK, ValuesInv
  PROVE  ValuesConserved
<1> SUFFICES ASSUME NEW x \in installed
             PROVE  \/ /\ Cardinality({c \in Cells : value[c] = x}) = 1
                       /\ Cardinality({r \in removed : r.val = x}) = 0
                    \/ /\ Cardinality({c \in Cells : value[c] = x}) = 0
                       /\ Cardinality({r \in removed : r.val = x}) = 1
  <2>1. ASSUME NEW x \in installed,
               \/ /\ Cardinality({c \in Cells : value[c] = x}) = 1
                  /\ Cardinality({r \in removed : r.val = x}) = 0
               \/ /\ Cardinality({c \in Cells : value[c] = x}) = 0
                  /\ Cardinality({r \in removed : r.val = x}) = 1
        PROVE  Cardinality({c \in Cells : value[c] = x})
                 + Cardinality({r \in removed : r.val = x}) = 1
    <3> DEFINE m == Cardinality({c \in Cells : value[c] = x})
               n == Cardinality({r \in removed : r.val = x})
    <3>1. (m = 1 /\ n = 0) \/ (m = 0 /\ n = 1)
      BY <2>1
    <3> HIDE DEF m, n
    <3>2. m + n = 1
      BY <3>1
    <3> QED BY <3>2 DEF m, n
  <2> QED BY <2>1 DEF ValuesConserved
<1>1. x # Nil
  BY EntityFacts DEF TypeOK
<1>2. CASE \E c \in Cells : value[c] = x
  <2>1. PICK c \in Cells : value[c] = x
    BY <1>2
  <2>2. {d \in Cells : value[d] = x} = {c} /\ {r \in removed : r.val = x} = {}
    BY <1>1, <2>1 DEF ValuesInv
  <2>3. Cardinality({c}) = 1 /\ Cardinality({}) = 0
    BY FS_Singleton, FS_EmptySet
  <2> QED BY ONLY <2>2, <2>3
<1>3. CASE \A c \in Cells : value[c] # x
  <2>1. PICK r \in removed : r.val = x
    BY <1>3 DEF ValuesInv
  <2>2. {d \in Cells : value[d] = x} = {} /\ {s \in removed : s.val = x} = {r}
    BY <1>3, <2>1 DEF ValuesInv
  <2>3. Cardinality({r}) = 1 /\ Cardinality({}) = 0
    BY FS_Singleton, FS_EmptySet
  <2> QED BY ONLY <2>2, <2>3
<1> QED BY <1>2, <1>3

\* A swap takes the value that the cell holds and leaves one that was in no cell.
LEMMA SwapConserves ==
  ASSUME RequestsAssumption, TypeOK, ValuesInv, NEW ev \in Reads, NEW x \in Tx, NEW v \in Tx,
         Swap(ev, x, v), x \notin installed, ev.kind # "get" => value[ev.on] = v
  PROVE  ValuesInv' /\ installed \subseteq installed' /\ installed' \subseteq installed \cup {x}
<1>1. /\ ev.on \in Cells /\ \A d \in Cells \ {ev.on} : value'[d] = value[d]
      /\ ev.kind = "get" =>
           value'[ev.on] = value[ev.on] /\ installed' = installed /\ removed' = removed
      /\ ev.kind = "take" =>
           value'[ev.on] = Nil /\ installed' = installed /\ removed' = removed \cup {[by |-> x, val |-> v]}
      /\ ev.kind = "swap" =>
           /\ value'[ev.on] = x /\ installed' = installed \cup {x}
           /\ removed' = removed \cup {[by |-> x, val |-> v]}
  BY SwapFacts
<1>2. PICK r : r = [by |-> x, val |-> v]
  OBVIOUS
<1>3. r.val = v /\ v # Nil /\ x # Nil
  BY <1>2, EntityFacts
<1>4. PICK c \in Cells : c = ev.on
  BY <1>1
<1>5. CASE ev.kind = "get"
  <2>1. \A d \in Cells : value'[d] = value[d]
    BY <1>1, <1>5
  <2> QED BY <1>1, <1>5, <2>1 DEF ValuesInv
<1>6. CASE ev.kind = "take"
  <2>1. /\ value[c] = v /\ value'[c] = Nil /\ \A d \in Cells \ {c} : value'[d] = value[d]
        /\ installed' = installed /\ removed' = removed \cup {r}
    BY <1>1, <1>2, <1>4, <1>6
  <2> QED BY <1>3, <2>1 DEF ValuesInv
<1>7. CASE ev.kind = "swap"
  <2>1. /\ value[c] = v /\ value'[c] = x /\ \A d \in Cells \ {c} : value'[d] = value[d]
        /\ installed' = installed \cup {x} /\ removed' = removed \cup {r}
    BY <1>1, <1>2, <1>4, <1>7
  <2> QED BY <1>3, <2>1 DEF ValuesInv
<1> QED BY <1>5, <1>6, <1>7 DEF Reads

\* A thread other than the one that moves has begun no operation and put no value.
LEMMA FreshStep ==
  ASSUME RequestsAssumption, FreshInv, NEW t \in Threads, OnlyMoves(t),
         installed' \subseteq installed \cup {Tx0(t)},
         pc'[Main(t)] # "run" /\ Tx0(t)' \in installed' =>
           \E e \in Entities : e[1] = t /\ pc'[e] = "return"
  PROVE  FreshInv'
<1> SUFFICES ASSUME NEW u \in Threads, u # t, pc'[Main(u)] # "run", Tx0(u)' \in installed'
             PROVE  \E e \in Entities : e[1] = u /\ pc'[e] = "return"
  BY DEF FreshInv
<1>1. Main(u) \in Entities /\ Main(u)[1] = u
  BY EntityFacts
<1>2. pc[Main(u)] = pc'[Main(u)] /\ Tx0(u)' = Tx0(u)
  BY <1>1 DEF OnlyMoves, Tx0
<1>3. Tx0(u) # Tx0(t)
  BY DEF Tx0
<1>4. PICK e \in Entities : e[1] = u /\ pc[e] = "return"
  BY <1>2, <1>3 DEF FreshInv
<1> QED BY <1>4 DEF OnlyMoves

\* An operation that is about to begin has put no value.
LEMMA FreshAtSync ==
  ASSUME RequestsAssumption, CellsInv, FreshInv, NEW t \in Threads, pc[Main(t)] = "sync",
         sched.atomic = 0
  PROVE  Tx0(t) \in Tx /\ Tx0(t) \notin installed
<1>1. Tx0(t) \in Tx /\ \A e \in Entities : e[1] = t => pc[e] # "return"
  BY AtSync DEF Given
<1> QED BY <1>1 DEF FreshInv

\* A step that leaves the cells alone.
LEMMA QuietStep ==
  ASSUME RequestsAssumption, CellsInv, ConservedInv, NEW t \in Threads, OnlyMoves(t),
         UNCHANGED <<value, installed, removed>>, sched'.atomic = 0,
         pc'[Main(t)] # "run" => Tx0(t)' \notin installed
  PROVE  ConservedInv'
<1>1. ValuesInv'
  BY DEF ConservedInv, ValuesInv
<1>2. FreshInv'
  BY FreshStep DEF ConservedInv
<1> QED BY <1>1, <1>2 DEF ConservedInv, ChainInv

LEMMA EvaluateConserves ==
  ASSUME RequestsAssumption, CellsInv, ConservedInv, NEW t \in Threads, NEW r \in Requests[t],
         Evaluate(t, r)
  PROVE  ConservedInv'
<1>1. /\ sched' = sched /\ value' = value /\ installed' = installed /\ removed' = removed
      /\ sched.atomic = 0
      /\ ops' = [ops EXCEPT ![t] = @ + 1] /\ request' = [request EXCEPT ![t] = r]
      /\ pc' = [pc EXCEPT ![Main(t)] = "sync"]
  BY DEF Evaluate, Runs
<1>2. /\ ops'[t] = ops[t] + 1 /\ ops[t] \in Nat /\ ~(ops[t] + 1 <= ops[t])
      /\ \A u \in Threads \ {t} : ops'[u] = ops[u] /\ request'[u] = request[u]
      /\ \A e \in Entities : e # Main(t) => pc'[e] = pc[e]
  BY <1>1, EntityFacts DEF CellsInv, TypeOK, RequestsAssumption
<1>3. OnlyMoves(t)
  BY <1>2, EntityFacts DEF OnlyMoves
<1>4. Tx0(t)' \notin installed
  <2>1. Tx0(t)'[1] = t /\ Tx0(t)'[2] = ops[t] + 1
    BY <1>2 DEF Tx0
  <2>2. \A x \in installed : x[2] <= ops[x[1]]
    BY DEF CellsInv, OpsInv
  <2> QED BY <1>2, <2>1, <2>2
<1> QED BY <1>1, <1>3, <1>4, QuietStep

LEMMA BlockConserves ==
  ASSUME RequestsAssumption, CellsInv, ConservedInv, NEW t \in Threads, Block(t)
  PROVE  ConservedInv'
<1>1. /\ value' = value /\ installed' = installed /\ removed' = removed
      /\ ops' = ops /\ request' = request
      /\ sched.atomic = 0 /\ pc[Main(t)] = "sync" /\ sched.cur = Main(t)
  BY DEF Block, Runs
<1>2. Tx0(t)' \notin installed
  BY <1>1, FreshAtSync DEF ConservedInv, Tx0
<1>3. OnlyMoves(t) /\ sched'.atomic = 0
  BY BlockStep
<1> QED BY <1>1, <1>2, <1>3, QuietStep

LEMMA PollConserves ==
  ASSUME RequestsAssumption, CellsInv, ConservedInv, NEW t \in Threads,
         Runs(Main(t), "sync", 0), UNCHANGED <<sched, ops, request, value, installed, removed>>,
         pc' = [pc EXCEPT ![Main(t)] = "run"]
  PROVE  ConservedInv'
<1>1. pc'[Main(t)] = "run" /\ \A e \in Entities : e # Main(t) => pc'[e] = pc[e]
  BY EntityFacts DEF CellsInv, TypeOK
<1>2. OnlyMoves(t) /\ sched'.atomic = 0
  BY <1>1, EntityFacts DEF OnlyMoves, Runs
<1> QED BY <1>1, <1>2, QuietStep

LEMMA ReadNowConserves ==
  ASSUME RequestsAssumption, CellsInv, ConservedInv, NEW t \in Threads, ReadNow(t)
  PROVE  ConservedInv'
<1>1. /\ sched.atomic = 0 /\ pc[Main(t)] = "sync" /\ pc' = [pc EXCEPT ![Main(t)] = "run"]
      /\ sched' = sched /\ ops' = ops /\ request' = request
  BY DEF ReadNow, Runs
<1>2. PICK i \in DOMAIN request[t].events :
        LET ev == request[t].events[i] IN
        /\ i \in 0..Fan /\ ev \in Reads /\ value[ev.on] \in Tx
        /\ Swap(ev, Tx0(t), value[ev.on]) /\ Return(t, i, value[ev.on])
  BY ReadNowFacts
<1>3. PICK ev \in Reads : ev = request[t].events[i]
  BY <1>2
<1>4. PICK v \in Tx : v = value[ev.on]
  BY <1>2, <1>3
<1>5. PICK x \in Tx : x = Tx0(t)
  BY <1>1, FreshAtSync DEF ConservedInv
<1>6. Swap(ev, x, v) /\ x \notin installed
  BY <1>1, <1>2, <1>3, <1>4, <1>5, FreshAtSync DEF ConservedInv
<1>7. ValuesInv' /\ installed' \subseteq installed \cup {Tx0(t)}
  BY <1>4, <1>5, <1>6, SwapConserves DEF ConservedInv, CellsInv
<1>8. pc'[Main(t)] = "run" /\ \A e \in Entities : e # Main(t) => pc'[e] = pc[e]
  BY <1>1, EntityFacts DEF CellsInv, TypeOK
<1>9. OnlyMoves(t)
  BY <1>1, <1>8, EntityFacts DEF OnlyMoves
<1>10. FreshInv'
  BY <1>7, <1>8, <1>9, FreshStep DEF ConservedInv
<1> QED BY <1>1, <1>7, <1>10 DEF ConservedInv, ChainInv

\* The value passes along the chain: to one that may take it if the cell still holds it,
\* and else to one that only reads it.
LEMMA ChainStep ==
  ASSUME RequestsAssumption, CellsInv, NEW c \in Cells, NEW v \in Tx,
         NEW s \in SchedulerStates(Entities), s.atomic = 1, s.cur \in Entities,
         HandOver(c, v, s, cancelled), request' = request, v \in installed',
         value'[c] = v \/ AllGet(c)
  PROVE  ChainInv'
<1>1. /\ cancelled \subseteq cancelled' /\ AddsNoItems
      /\ HandOverEnds(c, s) \/ \E h \in Items : HandsTo(h, c, v, s)
  BY HandOverFacts
<1>2. CASE HandOverEnds(c, s)
  BY <1>2 DEF HandOverEnds, ChainInv
<1>3. ASSUME NEW h \in Items, HandsTo(h, c, v, s) PROVE ChainInv'
  <2>1. /\ h.tx \notin cancelled /\ LiveItem(c, h) /\ \E k \in DOMAIN readQ[c] : readQ[c][k] = h
        /\ sched'.atomic = 1 /\ sched'.cur = h.thr /\ val' = [val EXCEPT ![h.thr] = v]
    BY <1>3 DEF HandsTo
  <2>2. h.thr \in Entities /\ Event(h.thr).on = c
    BY <2>1, LiveOwner
  <2>3. val'[sched'.cur] = v
    BY <2>1, <2>2 DEF CellsInv, TypeOK
  <2>4. Event(sched.cur)' = Event(h.thr) /\ \A e : Event(e)' = Event(e)
    BY <2>1 DEF Event
  <2>5. CASE value'[c] = v
    BY <2>2, <2>3, <2>4, <2>5 DEF ChainInv
  <2>6. CASE AllGet(c)
    <3>1. Event(h.thr).kind = "get"
      BY <2>1, <2>6 DEF AllGet, Live
    <3>2. AllGet(c)'
      BY <1>1, <2>4, <2>6 DEF AllGet, Live, AddsNoItems
    <3>3. (Event(sched.cur).kind = "get" /\ Event(sched.cur).on = c)'
      BY <2>2, <2>4, <3>1
    <3> QED BY <2>3, <3>2, <3>3 DEF ChainInv
  <2> QED BY <2>5, <2>6
<1> QED BY <1>1, <1>2, <1>3

LEMMA PutConserves ==
  ASSUME RequestsAssumption, CellsInv, ConservedInv, NEW t \in Threads, Put(t)
  PROVE  ConservedInv'
<1>1. /\ sched.atomic = 0 /\ pc[Main(t)] = "sync" /\ sched.cur = Main(t)
      /\ pc' = [pc EXCEPT ![Main(t)] = "run"]
      /\ ops' = ops /\ request' = request /\ removed' = removed
  BY DEF Put, Runs
<1>2. CASE value[Event(Main(t)).on] # Nil
  <2>1. sched' = sched /\ value' = value /\ installed' = installed
    BY <1>2 DEF Put
  <2> QED BY <1>1, <2>1, PollConserves DEF Runs
<1>3. CASE value[Event(Main(t)).on] = Nil
  <2>1. PICK c \in Cells : c = Event(Main(t)).on
    BY <1>1, AtSync
  <2>2. PICK x \in Tx : x = Tx0(t)
    BY <1>1, AtSync
  <2>3. PICK s \in SchedulerStates(Entities) : s = atomicBegin(sched)
    BY <1>1, PlacesBegin DEF CellsInv, TypeOK
  <2>4. /\ value' = [value EXCEPT ![c] = x] /\ installed' = installed \cup {x}
        /\ HandOver(c, x, s, cancelled) /\ value[c] = Nil
    BY <1>3, <2>1, <2>2, <2>3 DEF Put, PutHands
  <2>5. value'[c] = x /\ \A d \in Cells \ {c} : value'[d] = value[d]
    BY <2>4 DEF CellsInv, TypeOK
  <2>6. x \notin installed /\ x # Nil
    BY <1>1, <2>2, FreshAtSync, EntityFacts DEF ConservedInv
  <2>7. ValuesInv'
    <3> HIDE DEF CellsInv
    <3>1. removed' = removed /\ installed' = installed \cup {x} /\ ValuesInv
      BY <1>1, <2>4 DEF ConservedInv
    <3>2. (\A d \in Cells : value[d] # x) /\ (\A r \in removed : r.val # x)
      BY <2>6, <3>1 DEF ValuesInv
    <3>3. \A d \in Cells : value'[d] # Nil =>
            /\ value'[d] \in installed'
            /\ \A f \in Cells : value'[f] = value'[d] => f = d
            /\ \A r \in removed' : r.val # value'[d]
      <4> SUFFICES ASSUME NEW d \in Cells, value'[d] # Nil
                   PROVE  /\ value'[d] \in installed'
                          /\ \A f \in Cells : value'[f] = value'[d] => f = d
                          /\ \A r \in removed' : r.val # value'[d]
        OBVIOUS
      <4>1. CASE d = c
        BY <2>5, <3>1, <3>2, <4>1
      <4>2. CASE d # c
        BY <2>5, <3>1, <3>2, <4>2 DEF ValuesInv
      <4> QED BY <4>1, <4>2
    <3>4. \A y \in installed' :
            (\E d \in Cells : value'[d] = y) \/ (\E r \in removed' : r.val = y)
      <4> SUFFICES ASSUME NEW y \in installed
                   PROVE  (\E d \in Cells : value'[d] = y) \/ (\E r \in removed : r.val = y)
        BY <2>5, <3>1
      <4>1. CASE \E d \in Cells : value[d] = y
        <5>1. PICK d \in Cells : value[d] = y
          BY <4>1
        <5>2. CASE d = c
          BY <2>4, <3>1, <5>1, <5>2, EntityFacts DEF CellsInv, TypeOK
        <5>3. CASE d # c
          BY <2>5, <5>1, <5>3
        <5> QED BY <5>2, <5>3
      <4>2. CASE \E r \in removed : r.val = y
        BY <4>2
      <4> QED BY <3>1, <4>1, <4>2 DEF ValuesInv
    <3>5. \A r \in removed' : r.val \in installed' /\ \A q \in removed' : q.val = r.val => q = r
      BY <3>1 DEF ValuesInv
    <3> QED BY <3>3, <3>4, <3>5 DEF ValuesInv
  <2>8. pc'[Main(t)] = "run" /\ \A e \in Entities : e # Main(t) => pc'[e] = pc[e]
    BY <1>1, EntityFacts DEF CellsInv, TypeOK
  <2>9. OnlyMoves(t)
    BY <1>1, <2>8, EntityFacts DEF OnlyMoves
  <2>10. FreshInv'
    BY <2>2, <2>4, <2>8, <2>9, FreshStep DEF ConservedInv
  <2>11. ChainInv'
    <3>1. s.atomic = 1 /\ s.cur \in Entities
      BY <1>1, <2>3, EntityFacts, PlacesBegin DEF CellsInv, TypeOK
    <3>2. x \in installed' /\ value'[c] = x
      BY <2>4, <2>5
    <3> QED BY <1>1, <2>4, <3>1, <3>2, ChainStep
  <2> QED BY <2>7, <2>10, <2>11 DEF ConservedInv
<1> QED BY <1>2, <1>3

\* While one that takes or swaps has the value, all that wait behind it only read: the
\* thread that it belongs to is the only one that waits to take.
LEMMA TakersAreOne ==
  ASSUME RequestsAssumption, OneTakerAssumption, CellsInv,
         NEW e \in Entities, Given(e), Event(e).kind # "get"
  PROVE  AllGet(Event(e).on)
<1> SUFFICES ASSUME NEW k \in DOMAIN readQ[Event(e).on], Live(readQ[Event(e).on][k]),
                    Event(readQ[Event(e).on][k].thr).kind # "get"
             PROVE  FALSE
  BY DEF AllGet
<1>1. PICK c : c = Event(e).on
  OBVIOUS
<1>2. PICK h : h = readQ[c][k]
  OBVIOUS
<1>3. PICK t : t = e[1]
  OBVIOUS
<1>4. /\ t \in Threads /\ Waits(t) /\ Tx0(t) \in cancelled
      /\ \E i \in DOMAIN request[t].events : e = Waiter(t, i)
  BY <1>3, EntityFacts DEF CellsInv, GivenInv
<1>5. PICK i \in DOMAIN request[t].events : e = Waiter(t, i)
  BY <1>4
<1>6. /\ request[t] \in Requests[t] /\ Event(e) = request[t].events[i] /\ Event(e) \in Reads
  BY <1>4, <1>5, WaitingFacts, RequestFacts DEF CellsInv
<1>7. c \in Cells
  BY <1>1, <1>6 DEF Reads
<1>8. LiveItem(c, h) /\ h.tx \notin cancelled
  BY <1>1, <1>2, <1>7 DEF CellsInv, ItemsInv, Live
<1>9. PICK u : u = h.tx[1]
  OBVIOUS
<1>10. /\ u \in Threads /\ Waits(u) /\ h.tx = Tx0(u) /\ Event(h.thr).on = c
       /\ \E j \in DOMAIN request[u].events : Event(h.thr) = request[u].events[j]
  BY <1>8, <1>9, LiveOwner
<1>11. request[u] \in Requests[u]
  BY <1>10, WaitingFacts, RequestFacts DEF CellsInv
<1>12. WaitsToTake(request[t], c)
  BY <1>1, <1>4, <1>6 DEF WaitsToTake, CellsInv, OpsInv
<1>13. WaitsToTake(request[u], c)
  BY <1>1, <1>2, <1>10 DEF WaitsToTake, CellsInv, OpsInv
<1>14. t = u
  BY <1>4, <1>6, <1>7, <1>10, <1>11, <1>12, <1>13 DEF OneTakerAssumption
<1> QED BY <1>4, <1>8, <1>10, <1>14

LEMMA ResumeConserves ==
  ASSUME RequestsAssumption, OneTakerAssumption, CellsInv, ConservedInv,
         NEW e \in Entities, Resume(e)
  PROVE  ConservedInv'
<1>1. /\ sched.cur = e /\ pc[e] = "read" /\ sched.atomic = 1
      /\ e[1] \in Threads /\ Tx0(e[1]) \in Tx /\ val[e] \in Tx
      /\ Event(e) \in Reads /\ Event(e).on \in Cells
      /\ Swap(Event(e), Tx0(e[1]), val[e])
      /\ HandOver(Event(e).on, val[e], sched, cancelled)
      /\ Waits(e[1])
  BY ResumeFacts
<1>2. PICK t \in Threads : t = e[1]
  BY <1>1
<1>3. PICK ev \in Reads : ev = Event(e)
  BY <1>1
<1>4. PICK c \in Cells : c = Event(e).on
  BY <1>1
<1>5. PICK v \in Tx : v = val[e]
  BY <1>1
<1>6. PICK x \in Tx : x = Tx0(t)
  BY <1>1, <1>2
<1>7. PICK s \in SchedulerStates(Entities) : s = sched
  BY DEF CellsInv, TypeOK
<1>8. /\ pc' = [pc EXCEPT ![e] = IF e[2] = 0 THEN "run" ELSE "return"]
      /\ ops' = ops /\ request' = request
  BY DEF Resume
<1>9. Given(e)
  BY <1>1 DEF Given, InChain
<1>10. v \in installed /\ (value[c] # v => ev.kind = "get" /\ AllGet(c))
  BY <1>1, <1>3, <1>4, <1>5 DEF ConservedInv, ChainInv
<1>11. x \notin installed
  <2>1. \A f \in Entities : f[1] = t => pc[f] # "return"
    BY <1>1, <1>2, <1>9 DEF CellsInv, GivenInv, Given
  <2>2. pc[Main(t)] # "run"
    BY <1>1, <1>2 DEF Waits
  <2> QED BY <1>6, <2>1, <2>2 DEF ConservedInv, FreshInv
<1>12. Swap(ev, x, v) /\ ev.on = c
  BY <1>1, <1>2, <1>3, <1>4, <1>5, <1>6
<1>13. /\ ValuesInv' /\ installed \subseteq installed'
       /\ installed' \subseteq installed \cup {x}
  BY <1>10, <1>11, <1>12, SwapConserves DEF ConservedInv, CellsInv
<1>14. /\ pc'[e] = (IF e[2] = 0 THEN "run" ELSE "return")
       /\ \A f \in Entities \ {e} : pc'[f] = pc[f]
  BY <1>8 DEF CellsInv, TypeOK
<1>15. OnlyMoves(t)
  BY <1>2, <1>8, <1>14 DEF OnlyMoves
<1>16. FreshInv'
  <2>1. pc'[Main(t)] # "run" => pc'[e] = "return"
    BY <1>2, <1>14, EntityFacts
  <2> QED BY <1>2, <1>6, <1>13, <1>15, <2>1, FreshStep DEF ConservedInv
<1>17. ChainInv'
  <2>1. value'[c] = v \/ AllGet(c)
    <3>1. CASE ev.kind = "get"
      <4>1. value'[c] = value[c]
        BY <1>12, <3>1, SwapFacts DEF CellsInv
      <4> QED BY <1>10, <4>1
    <3>2. CASE ev.kind # "get"
      BY <1>3, <1>4, <1>9, <3>2, TakersAreOne
    <3> QED BY <3>1, <3>2
  <2>2. s.atomic = 1 /\ s.cur \in Entities /\ HandOver(c, v, s, cancelled)
    BY <1>1, <1>4, <1>5, <1>7
  <2>3. v \in installed'
    BY <1>10, <1>13
  <2> QED BY <1>8, <2>1, <2>2, <2>3, ChainStep
<1> QED BY <1>13, <1>16, <1>17 DEF ConservedInv

LEMMA HelperConserves ==
  ASSUME RequestsAssumption, CellsInv, ConservedInv, NEW e \in Entities, HelperReturns(e)
  PROVE  ConservedInv'
<1>1. /\ value' = value /\ ops' = ops /\ request' = request
      /\ installed' = installed /\ removed' = removed
      /\ sched.cur = e /\ pc[e] = "return" /\ sched.atomic = 0
      /\ sched' = switch(sched, Main(e[1]))
      /\ pc' = [pc EXCEPT ![e] = "none", ![Main(e[1])] = "run"]
  BY DEF HelperReturns, Runs
<1>2. PICK t \in Threads : t = e[1]
  BY EntityFacts
<1>3. Main(t) \in Entities /\ Main(t)[1] = t /\ e # Main(t)
  BY <1>1, <1>2, EntityFacts DEF CellsInv, TypeOK
<1>4. pc'[Main(t)] = "run" /\ \A f \in Entities \ {e, Main(t)} : pc'[f] = pc[f]
  BY <1>1, <1>2, <1>3 DEF CellsInv, TypeOK
<1>5. OnlyMoves(t)
  BY <1>1, <1>2, <1>3, <1>4 DEF OnlyMoves
<1>6. sched'.atomic = 0
  <2> DEFINE b == atomicBegin(sched)
  <2>1. b \in SchedulerStates(Entities) /\ b.atomic = 1 /\ b.cur = e
    BY <1>1, PlacesBegin DEF CellsInv, TypeOK
  <2>2. sched' = atomicSwitch(b, Main(t))
    BY <1>1, <1>2 DEF switch
  <2> HIDE DEF b
  <2> QED BY <1>3, <2>1, <2>2, PlacesSwitch
<1> QED BY <1>1, <1>4, <1>5, <1>6, QuietStep

LEMMA SameConserved ==
  ASSUME RequestsAssumption, CellsInv, ConservedInv, Preempt \/ UNCHANGED vars
  PROVE  ConservedInv'
<1>1. UNCHANGED <<value, readQ, cancelled, ops, request, pc, val, installed, removed>>
  BY DEF Preempt, vars
<1>2. ValuesInv' /\ FreshInv'
  BY <1>1 DEF ConservedInv, ValuesInv, FreshInv, Tx0
<1>3. CASE Preempt
  <2>1. sched'.atomic = 0
    <3>1. sched \in SchedulerStates(Entities) /\ sched.atomic = 0 /\ sched.cur \in Entities
      BY <1>3 DEF Preempt, CellsInv, TypeOK, SchedulerStates
    <3> QED BY <1>3, <3>1, EntityFacts, PlacesPreempt DEF Preempt
  <2> QED BY <1>2, <2>1 DEF ConservedInv, ChainInv
<1>4. CASE UNCHANGED vars
  <2>1. sched' = sched
    BY <1>4 DEF vars
  <2>2. \A e : Event(e)' = Event(e)
    BY <1>1 DEF Event
  <2>3. \A c : AllGet(c)' <=> AllGet(c)
    BY <1>1, <2>2 DEF AllGet, Live
  <2>4. Event(sched.cur)' = Event(sched.cur)
    BY <1>1, <2>1 DEF Event
  <2>5. AllGet(Event(sched.cur).on)' <=> AllGet(Event(sched.cur).on)
    BY <1>1, <2>1, <2>2, <2>4 DEF AllGet, Live
  <2>6. ChainInv
    BY DEF ConservedInv
  <2>7. ChainInv'
    BY <1>1, <2>1, <2>4, <2>5, <2>6 DEF ChainInv
  <2> QED BY <1>2, <2>7 DEF ConservedInv
<1> QED BY <1>3, <1>4

LEMMA ConservedStep ==
  ASSUME RequestsAssumption, OneTakerAssumption, CellsInv, ConservedInv, [Next]_vars
  PROVE  ConservedInv'
<1>1. ASSUME NEW t \in Threads, NEW r \in Requests[t], Evaluate(t, r) PROVE ConservedInv'
  BY <1>1, EvaluateConserves
<1>2. ASSUME NEW t \in Threads, Put(t) PROVE ConservedInv'
  BY <1>2, PutConserves
<1>3. ASSUME NEW t \in Threads, ReadNow(t) PROVE ConservedInv'
  BY <1>3, ReadNowConserves
<1>4. ASSUME NEW t \in Threads, PollFails(t) PROVE ConservedInv'
  BY <1>4, PollConserves DEF PollFails
<1>5. ASSUME NEW t \in Threads, Block(t) PROVE ConservedInv'
  BY <1>5, BlockConserves
<1>6. ASSUME NEW e \in Entities, Resume(e) PROVE ConservedInv'
  BY <1>6, ResumeConserves
<1>7. ASSUME NEW e \in Entities, HelperReturns(e) PROVE ConservedInv'
  BY <1>7, HelperConserves
<1>8. ASSUME Preempt PROVE ConservedInv'
  BY <1>8, SameConserved
<1>9. ASSUME UNCHANGED vars PROVE ConservedInv'
  BY <1>9, SameConserved
<1> QED BY <1>1, <1>2, <1>3, <1>4, <1>5, <1>6, <1>7, <1>8, <1>9 DEF Next, Step

\* A value that was put or swapped into a cell is in one cell or was taken out by one
\* operation, if of the threads of the program one waits to take from each cell; others
\* take from it by mTakePoll and the like, which do not wait.
THEOREM SyncVarValuesConserved ==
  RequestsAssumption /\ OneTakerAssumption => (Spec => []ValuesConserved)
<1> SUFFICES ASSUME RequestsAssumption, OneTakerAssumption PROVE Spec => []ValuesConserved
  OBVIOUS
<1>1. Init => ConservedInv
  BY ConservedInitially
<1>2. CellsInv /\ ConservedInv /\ [Next]_vars => ConservedInv'
  BY ConservedStep
<1>3. CellsInv /\ ConservedInv => ValuesConserved
  BY ConservedImplies DEF CellsInv, ConservedInv
<1>4. Spec => []CellsInv
  BY CellsInvariant
<1> QED BY <1>1, <1>2, <1>3, <1>4, PTL DEF Spec
=============================================================================
