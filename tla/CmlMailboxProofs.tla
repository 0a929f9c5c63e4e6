-------------------------- MODULE CmlMailboxProofs --------------------------
(***************************************************************************)
(* Mailboxes keep their promise, and their scheduling is sound, for any    *)
(* number of threads, mailboxes and operations; and what is proved of      *)
(* mailboxes and of queues holds of them beside each other.                *)
(***************************************************************************)
EXTENDS MCCmlCells, CmlLemmas

(***************************************************************************)
(* The inductive invariant.                                                *)
(***************************************************************************)
Waits(t)  == pc[Main(t)] \in {"recv", "helped"}
Placed(e) == pc[e] \in {"run", "sync", "return"} \/ val[e] # Nil

\* Transactions are cancelled, and operations return, in the order in which a thread
\* begins them; a thread that has not blocked has not been cancelled.
OpsInv ==
  /\ \A x \in cancelled : x[2] <= ops[x[1]]
  /\ \A x \in Tx : result[x] # Nil => x[2] <= ops[x[1]]
  /\ \A t \in Threads : pc[Main(t)] # "run" => ops[t] > 0 /\ result[Tx0(t)] = Nil
  /\ \A t \in Threads : pc[Main(t)] = "sync" => Tx0(t) \notin cancelled
  /\ \A t \in Threads : Waits(t) => (pc[Main(t)] = "recv" <=> Len(request[t].boxes) = 1)
  /\ \A e \in Entities : e[2] # 0 => pc[e] \in {"recv", "none", "return"}

\* A live item of mailbox m belongs to a thread that waits for m with its last
\* operation, and names a waiter that is blocked.
LiveItem(m, item) ==
  \E u \in Threads :
    Waits(u) /\ \E i \in DOMAIN request[u].boxes :
      request[u].boxes[i] = m /\ item = Item(u, i) /\ pc[Waiter(u, i)] = "recv"

ItemsInv ==
  \A m \in Boxes : state[m].is = "EMPTY" =>
    \A k \in DOMAIN state[m].q : Live(state[m].q[k]) => LiveItem(m, state[m].q[k])

\* A message is given to one waiter of a thread, whose transaction it cancels; until a
\* helper returns it, or its thread leaves the critical section, it runs.
ValInv ==
  /\ \A e \in Entities : val[e] # Nil =>
       /\ pc[e] \in {"recv", "return"} /\ Waits(e[1]) /\ Tx0(e[1]) \in cancelled
       /\ \E i \in DOMAIN request[e[1]].boxes : e = Waiter(e[1], i)
       /\ \A f \in Entities : f[1] = e[1] /\ val[f] # Nil => f = e
       /\ pc[e] = "recv" => sched.atomic = 1 /\ sched.cur = e
  /\ \A e \in Entities : pc[e] = "return" => val[e] # Nil
  /\ sched.atomic = 1 =>
       sched.cur \in Entities /\ pc[sched.cur] = "recv" /\ val[sched.cur] # Nil

PlacesInv == \A e \in Entities : Scheduled(e) = One(Placed(e))

BlockedInv ==
  \A t \in Threads : Waits(t) =>
    IF Tx0(t) \in cancelled THEN GivenTo(t) # {} ELSE Pending(t)

\* TypeOK, with the states of the mailboxes as one set, which TLC cannot compare with a
\* state: the two kinds of queue have elements of different shapes.
Types ==
  /\ sched \in SchedulerStates(Entities) /\ sched.atomic \in 0..1
  /\ state \in [Boxes -> [is : {"EMPTY"}, q : Seq(Items)] \cup [is : {"NONEMPTY"}, q : Seq(Tx)]]
  /\ cancelled \subseteq Tx
  /\ ops \in [Threads -> 0..MaxOps]
  /\ DOMAIN request = Threads /\ \A t \in Threads : ops[t] > 0 => request[t] \in Requests[t]
  /\ pc \in [Entities -> {"run", "sync", "recv", "helped", "none", "return"}]
  /\ \A e \in Entities : e[2] = 0 => pc[e] \notin {"none", "return"}
  /\ val \in [Entities -> Tx \cup {Nil}]
  /\ result \in [Tx -> {Nil} \cup [box : Boxes, val : Tx \cup {Nil}]]

MailboxInv ==
  Types /\ OpsInv /\ ItemsInv /\ ValInv /\ PlacesInv /\ BlockedInv /\ QueueNeverEmpty

-----------------------------------------------------------------------------
(***************************************************************************)
(* The invariant implies what the run checks.                              *)
(***************************************************************************)
LEMMA EntityFacts ==
  /\ NoThread \notin Entities
  /\ \A t \in Threads : Main(t) \in Entities /\ Main(t)[1] = t /\ Main(t)[2] = 0
  /\ \A e \in Entities : e[1] \in Threads /\ e[2] \in 0 .. Fan /\ e = <<e[1], e[2]>>
  /\ \A e \in Entities : e[2] = 0 <=> e = Main(e[1])
  /\ \A t \in Threads, i \in 1 .. Fan : <<t, i>> \in Entities /\ <<t, i>> # Main(t)
BY RequestsAssumption DEF Entities, Main

\* The request of a thread that has begun an operation.
LEMMA RequestFacts ==
  ASSUME Types, NEW t \in Threads, ops[t] > 0
  PROVE  /\ request[t] \in Requests[t] /\ request[t].mode \in Modes
         /\ request[t].boxes \in Seq(Boxes) /\ Len(request[t].boxes) \in 1 .. Fan
         /\ DOMAIN request[t].boxes = 1 .. Len(request[t].boxes)
         /\ \A i \in DOMAIN request[t].boxes :
              /\ request[t].boxes[i] \in Boxes /\ i \in 1 .. Fan
              /\ Waiter(t, i) \in Entities /\ Waiter(t, i)[1] = t
              /\ Item(t, i) \in Items /\ Box(Waiter(t, i)) = request[t].boxes[i]
         /\ ops[t] \in 1 .. MaxOps /\ Tx0(t) \in Tx
<1>1. request[t] \in Requests[t]
  BY DEF Types
<1>2. /\ request[t].mode \in Modes /\ request[t].boxes \in Seq(Boxes)
      /\ Len(request[t].boxes) \in 1 .. Fan
  BY <1>1, RequestsAssumption
<1>3. DOMAIN request[t].boxes = 1 .. Len(request[t].boxes) /\ Fan \in Nat
  BY <1>2, RequestsAssumption
<1>4. ops[t] \in 1 .. MaxOps /\ Tx0(t) \in Tx
  BY RequestsAssumption DEF Types, Tx0, Tx
<1>5. ASSUME NEW i \in DOMAIN request[t].boxes
      PROVE  /\ request[t].boxes[i] \in Boxes /\ i \in 1 .. Fan
             /\ Waiter(t, i) \in Entities /\ Waiter(t, i)[1] = t
             /\ Item(t, i) \in Items /\ Box(Waiter(t, i)) = request[t].boxes[i]
  <2>1. request[t].boxes[i] \in Boxes /\ i \in 1 .. Fan
    BY <1>2, <1>3
  <2>2. Waiter(t, i) \in Entities /\ Waiter(t, i)[1] = t
    BY <2>1, EntityFacts DEF Waiter
  <2>3. Item(t, i) \in Items
    BY <1>4, <2>2 DEF Item, Items
  <2>4. Len(request[t].boxes) = 1 => i = 1
    BY <1>2, <1>3
  <2>5. Box(Waiter(t, i)) = request[t].boxes[i]
    BY <2>1, <2>4, EntityFacts, <1>2 DEF Box, Waiter, Main
  <2> QED BY <2>1, <2>2, <2>3, <2>5
<1> QED BY <1>1, <1>2, <1>3, <1>4, <1>5

\* Nobody is lost between critical sections.
LEMMA InvImpliesOk ==
  ASSUME MailboxInv
  PROVE  SchedulingOk
<1> USE DEF MailboxInv
<1>0. TypeOK
  BY DEF Types, TypeOK
<1> SUFFICES ASSUME sched.atomic = 0, NEW t \in Threads
             PROVE  CASE pc[Main(t)] \in {"run", "sync"} -> Scheduled(Main(t)) = 1
                      [] pc[Main(t)] = "recv" -> Scheduled(Main(t)) = 0 /\ Pending(t)
                      [] pc[Main(t)] = "helped" ->
                           /\ Scheduled(Main(t)) = 0
                           /\ \/ Pending(t) /\ \A i \in 1..Fan : Scheduled(<<t, i>>) = 0
                              \/ /\ Tx0(t) \in cancelled
                                 /\ \E i \in 1..Fan :
                                      /\ pc[<<t, i>>] = "return" /\ Scheduled(<<t, i>>) = 1
                                      /\ \A j \in (1..Fan) \ {i} : Scheduled(<<t, j>>) = 0
  BY <1>0 DEF SchedulingOk, NobodyIsLost
<1>1. pc[Main(t)] \in {"run", "sync", "recv", "helped"} /\ Main(t) \in Entities
  BY EntityFacts DEF Types
<1>2. \A e \in Entities : val[e] # Nil => pc[e] = "return"
  BY DEF ValInv
<1>3. \A e \in Entities : Scheduled(e) = One(pc[e] \in {"run", "sync", "return"})
  BY <1>2 DEF PlacesInv, Placed
<1>4. CASE pc[Main(t)] \in {"run", "sync"}
  BY <1>1, <1>3, <1>4 DEF One
<1>5. CASE pc[Main(t)] \in {"recv", "helped"}
  <2>1. Scheduled(Main(t)) = 0
    BY <1>1, <1>3, <1>5 DEF One
  <2>2. Waits(t)
    BY <1>5 DEF Waits
  <2>3. ops[t] > 0
    BY <1>5 DEF OpsInv
  <2>4. CASE Tx0(t) \notin cancelled
    <3>1. Pending(t)
      BY <2>2, <2>4 DEF BlockedInv
    <3>2. ASSUME NEW i \in 1 .. Fan PROVE Scheduled(<<t, i>>) = 0
      <4>1. <<t, i>> \in Entities /\ <<t, i>>[2] # 0 /\ <<t, i>>[1] = t
        BY EntityFacts
      <4>2. val[<<t, i>>] = Nil
        BY <2>4, <4>1 DEF ValInv
      <4>3. pc[<<t, i>>] \in {"recv", "none"}
        BY <4>1, <4>2 DEF OpsInv, ValInv
      <4> QED BY <1>3, <4>1, <4>3 DEF One
    <3> QED BY <1>5, <2>1, <3>1, <3>2
  <2>5. CASE Tx0(t) \in cancelled
    <3>1. PICK e \in Entities : e[1] = t /\ val[e] # Nil
      BY <2>2, <2>5 DEF BlockedInv, GivenTo
    <3>2. pc[e] = "return" /\ e[2] # 0
      BY <1>1, <1>2, <3>1, EntityFacts
    <3>3. PICK i \in 1 .. Fan : e = <<t, i>>
      BY <3>1, <3>2, EntityFacts
    <3>4. Scheduled(e) = 1
      BY <1>3, <3>2 DEF One
    <3>5. ASSUME NEW j \in (1 .. Fan) \ {i} PROVE Scheduled(<<t, j>>) = 0
      <4>1. <<t, j>> \in Entities /\ <<t, j>>[2] # 0 /\ <<t, j>>[1] = t /\ <<t, j>> # e
        BY <3>3, EntityFacts
      <4>2. val[<<t, j>>] = Nil
        BY <3>1, <4>1 DEF ValInv
      <4>3. pc[<<t, j>>] \in {"recv", "none"}
        BY <4>1, <4>2 DEF OpsInv, ValInv
      <4> QED BY <1>3, <4>1, <4>3 DEF One
    <3>6. pc[Main(t)] = "helped"
      <4> SUFFICES ASSUME pc[Main(t)] = "recv" PROVE FALSE
        BY <1>5
      <4>1. Len(request[t].boxes) = 1
        BY <2>2 DEF OpsInv
      <4>2. PICK k \in DOMAIN request[t].boxes : e = Waiter(t, k)
        BY <3>1 DEF ValInv
      <4>3. e = Main(t)
        BY <4>1, <4>2 DEF Waiter
      <4> QED BY <3>2, <4>3, EntityFacts
    <3> QED BY <2>1, <2>5, <3>2, <3>3, <3>4, <3>5, <3>6
  <2> QED BY <2>4, <2>5
<1> QED BY <1>1, <1>4, <1>5

-----------------------------------------------------------------------------
(***************************************************************************)
(* Initially.                                                              *)
(***************************************************************************)
LEMMA InitInv ==
  ASSUME Init
  PROVE  MailboxInv
<1> DEFINE N == Cardinality(Threads)
<1>1. PICK order \in [1..N -> Threads] :
        /\ \A t \in Threads : \E i \in DOMAIN order : order[i] = t
        /\ sched = Started(Main(order[1]), [i \in 1..(N - 1) |-> Main(order[i + 1])])
  BY DEF Init
<1>2. N \in Nat \ {0}
  BY RequestsAssumption, FS_CardinalityType, FS_EmptySet
<1>3. \A i, j \in 1..N : order[i] = order[j] => i = j
  <2>1. order \in Surjection(1..N, Threads)
    BY <1>1 DEF Surjection
  <2>2. IsFiniteSet(1..N) /\ Cardinality(1..N) = N
    BY <1>2, FS_Interval
  <2>3. order \in Injection(1..N, Threads)
    BY <2>1, <2>2, FS_SurjSameCardinalityImpliesInj
  <2> QED BY <2>3 DEF Injection, IsInjective
<1> DEFINE q == [i \in 1..(N - 1) |-> Main(order[i + 1])]
<1> HIDE DEF N
<1>4. /\ q \in Seq(Entities) /\ DOMAIN q = 1..(N - 1)
      /\ \A i \in 1..(N - 1) : q[i] = Main(order[i + 1])
  <2>1. \A i \in 1..(N - 1) : Main(order[i + 1]) \in Entities
    BY <1>1, <1>2, EntityFacts
  <2>2. N - 1 \in Nat
    BY <1>2
  <2> QED BY <2>1, <2>2
<1> HIDE DEF q
<1>5. /\ sched.cur = Main(order[1]) /\ sched.rdyQ1 = q /\ sched.rdyQ2 = <<>>
      /\ sched.atomic = 0 /\ sched \in SchedulerStates(Entities)
  <2>1. sched = Started(Main(order[1]), q)
    BY <1>1 DEF q
  <2>2. Main(order[1]) \in Entities
    BY <1>1, <1>2, EntityFacts
  <2> QED BY <1>4, <2>1, <2>2 DEF Started, SchedulerStates
<1>6. /\ state = [m \in Boxes |-> EMPTY(<<>>)] /\ cancelled = {}
      /\ ops = [t \in Threads |-> 0] /\ request = [t \in Threads |-> Nil]
      /\ pc = [e \in Entities |-> IF e[2] = 0 THEN "run" ELSE "none"]
      /\ val = [e \in Entities |-> Nil] /\ result = [x \in Tx |-> Nil]
  BY DEF Init
<1>7. Types
  BY <1>5, <1>6, RequestsAssumption DEF Types, EMPTY
<1>8. \A t \in Threads : pc[Main(t)] = "run" /\ ~ Waits(t)
  BY <1>6, EntityFacts DEF Waits
<1>9. OpsInv
  BY <1>6, <1>8 DEF OpsInv
<1>10. ItemsInv /\ QueueNeverEmpty
  BY <1>6 DEF ItemsInv, QueueNeverEmpty, EMPTY
<1>11. ValInv
  BY <1>5, <1>6 DEF ValInv
<1>12. BlockedInv
  BY <1>8 DEF BlockedInv
<1>13. PlacesInv
  <2> SUFFICES ASSUME NEW e \in Entities PROVE Scheduled(e) = One(e[2] = 0)
    BY <1>6 DEF PlacesInv, Placed, One
  <2> DEFINE I == {i \in DOMAIN q : q[i] = e}
  <2>1. Scheduled(e) = One(Main(order[1]) = e) + Cardinality(I)
    <3>1. Times(e, <<>>) = 0 /\ Times(e, q) \in Nat /\ Times(e, q) = Cardinality(I)
      BY <1>4, TimesEmpty, TimesType DEF Times
    <3> HIDE DEF I
    <3> QED BY <1>5, <3>1 DEF Scheduled, Places, One
  <2>2. CASE e[2] # 0
    <3>1. \A t \in Threads : Main(t) # e
      BY <2>2, EntityFacts
    <3>2. I = {} /\ Main(order[1]) # e
      BY <1>1, <1>2, <1>4, <3>1
    <3> HIDE DEF I
    <3> QED BY <2>1, <2>2, <3>2, FS_EmptySet DEF One
  <2>3. CASE e[2] = 0
    <3>1. e = Main(e[1]) /\ e[1] \in Threads
      BY <2>3, EntityFacts
    <3>2. PICK k \in 1..N : order[k] = e[1]
      BY <1>1, <3>1
    <3>3. \A i \in 1..N : Main(order[i]) = e <=> i = k
      BY <1>1, <1>3, <3>1, <3>2, EntityFacts
    <3>4. CASE k = 1
      <4>1. I = {} /\ Main(order[1]) = e
        BY <1>2, <1>4, <3>3, <3>4
      <4> HIDE DEF I
      <4> QED BY <2>1, <2>3, <4>1, FS_EmptySet DEF One
    <3>5. CASE k # 1
      <4>1. I = {k - 1}
        BY <1>2, <1>4, <3>3, <3>5
      <4>2. Main(order[1]) # e
        BY <1>2, <3>3, <3>5
      <4> HIDE DEF I
      <4>3. Cardinality(I) = 1
        BY <4>1, FS_Singleton
      <4> QED BY <2>1, <2>3, <4>2, <4>3 DEF One
    <3> QED BY <3>4, <3>5
  <2> QED BY <2>2, <2>3
<1> QED BY <1>7, <1>9, <1>10, <1>11, <1>12, <1>13 DEF MailboxInv

-----------------------------------------------------------------------------
(***************************************************************************)
(* What a step of one thread leaves of the others.                         *)
(***************************************************************************)
OnlyMoves(t) ==
  \A u \in Threads \ {t} :
    /\ request'[u] = request[u] /\ ops'[u] = ops[u]
    /\ \A e \in Entities : e[1] = u => pc'[e] = pc[e]

\* Items stay where they are until their transaction is cancelled.
KeepsItems ==
  \A m \in Boxes : state[m].is = "EMPTY" =>
    \A k \in DOMAIN state[m].q : state[m].q[k].tx \notin cancelled' =>
      state'[m].is = "EMPTY" /\ \E j \in DOMAIN state'[m].q : state'[m].q[j] = state[m].q[k]

\* A thread about to perform an operation.
LEMMA AtSync ==
  ASSUME MailboxInv, NEW t \in Threads, pc[Main(t)] = "sync"
  PROVE  /\ ops[t] > 0 /\ Tx0(t) \in Tx /\ Tx0(t) \notin cancelled /\ result[Tx0(t)] = Nil
         /\ \A e \in Entities : e[1] = t /\ e # Main(t) => pc[e] \in {"recv", "none"}
         /\ \A e \in Entities : e[1] = t => val[e] = Nil
         /\ ~ Waits(t)
<1>1. ops[t] > 0 /\ Tx0(t) \notin cancelled /\ result[Tx0(t)] = Nil
  BY DEF MailboxInv, OpsInv
<1>2. Tx0(t) \in Tx
  BY <1>1, RequestFacts DEF MailboxInv
<1>3. \A e \in Entities : e[1] = t => val[e] = Nil
  BY <1>1 DEF MailboxInv, ValInv
<1>4. \A e \in Entities : e[1] = t /\ e # Main(t) => pc[e] \in {"recv", "none"}
  BY <1>3, EntityFacts DEF MailboxInv, ValInv, OpsInv
<1> QED BY <1>1, <1>2, <1>3, <1>4 DEF Waits

LEMMA BoxFacts ==
  ASSUME MailboxInv, NEW t \in Threads, pc[Main(t)] = "sync"
  PROVE  Box(Main(t)) \in Boxes
<1>1. /\ Len(request[t].boxes) \in 1 .. Fan /\ request[t].boxes \in Seq(Boxes)
      /\ DOMAIN request[t].boxes = 1 .. Len(request[t].boxes)
  BY AtSync, RequestFacts DEF MailboxInv
<1>2. request[t].boxes[1] \in Boxes
  BY <1>1
<1> QED BY <1>2 DEF Box, Main

LEMMA WaitingFacts ==
  ASSUME MailboxInv, NEW u \in Threads, Waits(u)
  PROVE  ops[u] > 0 /\ Tx0(u) \in Tx /\ result[Tx0(u)] = Nil
<1>1. ops[u] > 0 /\ result[Tx0(u)] = Nil
  BY DEF MailboxInv, OpsInv, Waits
<1> QED BY <1>1, RequestFacts DEF MailboxInv

\* Whose a live item is.
LEMMA LiveOwner ==
  ASSUME MailboxInv, NEW m, NEW item, LiveItem(m, item)
  PROVE  /\ item.tx[1] \in Threads /\ Waits(item.tx[1]) /\ item.tx = Tx0(item.tx[1])
         /\ item.thr \in Entities /\ item.thr[1] = item.tx[1] /\ pc[item.thr] = "recv"
         /\ Box(item.thr) = m
         /\ \E i \in DOMAIN request[item.tx[1]].boxes : item.thr = Waiter(item.tx[1], i)
<1>0. PICK u \in Threads :
        Waits(u) /\ \E i \in DOMAIN request[u].boxes :
          request[u].boxes[i] = m /\ item = Item(u, i) /\ pc[Waiter(u, i)] = "recv"
  BY DEF LiveItem
<1>1. PICK i \in DOMAIN request[u].boxes :
        Waits(u) /\ request[u].boxes[i] = m /\ item = Item(u, i) /\ pc[Waiter(u, i)] = "recv"
  BY <1>0
<1>2. item.tx = Tx0(u) /\ item.tx[1] = u /\ item.thr = Waiter(u, i)
  BY <1>1 DEF Item, Tx0
<1>3. Waiter(u, i) \in Entities /\ Waiter(u, i)[1] = u /\ Box(Waiter(u, i)) = m
  BY <1>1, WaitingFacts, RequestFacts DEF MailboxInv
<1> QED BY <1>1, <1>2, <1>3

LEMMA LiveItemKept ==
  ASSUME MailboxInv, NEW t \in Threads, OnlyMoves(t),
         NEW m, NEW item, LiveItem(m, item), item.tx[1] # t
  PROVE  LiveItem(m, item)'
<1>0. PICK u \in Threads :
        Waits(u) /\ \E i \in DOMAIN request[u].boxes :
          request[u].boxes[i] = m /\ item = Item(u, i) /\ pc[Waiter(u, i)] = "recv"
  BY DEF LiveItem
<1>1. PICK i \in DOMAIN request[u].boxes :
        Waits(u) /\ request[u].boxes[i] = m /\ item = Item(u, i) /\ pc[Waiter(u, i)] = "recv"
  BY <1>0
<1>2. u # t
  BY <1>1 DEF Item, Tx0
<1>3. Waiter(u, i) \in Entities /\ Waiter(u, i)[1] = u
  BY <1>1, WaitingFacts, RequestFacts DEF MailboxInv
<1>4. request'[u] = request[u] /\ ops'[u] = ops[u] /\ pc'[Main(u)] = pc[Main(u)]
  BY <1>2, EntityFacts DEF OnlyMoves
<1>5. pc'[Waiter(u, i)] = pc[Waiter(u, i)]
  BY <1>2, <1>3 DEF OnlyMoves
<1>6. Waits(u)' /\ Item(u, i)' = Item(u, i) /\ Waiter(u, i)' = Waiter(u, i)
  BY <1>1, <1>4 DEF Waits, Item, Tx0, Waiter
<1> QED BY <1>1, <1>4, <1>5, <1>6 DEF LiveItem

\* Items that are live after a step were so before, and are not of the thread that
\* moves, or they are new.
LEMMA ItemsStep ==
  ASSUME MailboxInv, NEW t \in Threads, OnlyMoves(t),
         \A m \in Boxes : \A item : 
           /\ state'[m].is = "EMPTY" /\ item.tx \notin cancelled'
           /\ \E k \in DOMAIN state'[m].q : state'[m].q[k] = item
           => \/ /\ state[m].is = "EMPTY" /\ item.tx[1] # t /\ item.tx \notin cancelled
                 /\ \E j \in DOMAIN state[m].q : state[m].q[j] = item
              \/ LiveItem(m, item)'
  PROVE  ItemsInv'
<1>1. ASSUME NEW m \in Boxes, state'[m].is = "EMPTY", NEW item, item.tx \notin cancelled',
             \E k \in DOMAIN state'[m].q : state'[m].q[k] = item
      PROVE  LiveItem(m, item)'
  <2>1. CASE LiveItem(m, item)'
    BY <2>1
  <2>2. CASE /\ state[m].is = "EMPTY" /\ item.tx[1] # t /\ item.tx \notin cancelled
             /\ \E j \in DOMAIN state[m].q : state[m].q[j] = item
    <3>1. LiveItem(m, item)
      BY <2>2 DEF MailboxInv, ItemsInv, Live
    <3> QED BY <2>2, <3>1, LiveItemKept
  <2> QED BY <1>1, <2>1, <2>2
<1>2. ASSUME NEW m \in Boxes, state'[m].is = "EMPTY", NEW k \in DOMAIN state'[m].q,
             state'[m].q[k].tx \notin cancelled'
      PROVE  LiveItem(m, state[m].q[k])'
  BY <1>1, <1>2 DEF LiveItem
<1> QED BY <1>2 DEF ItemsInv, Live

\* Threads that wait go on waiting until they are given a message.
LEMMA PendingKept ==
  ASSUME MailboxInv, NEW t \in Threads, OnlyMoves(t), KeepsItems,
         NEW u \in Threads, u # t, Waits(u), Pending(u), Tx0(u) \notin cancelled'
  PROVE  Pending(u)'
<1>1. request'[u] = request[u] /\ ops'[u] = ops[u]
  BY DEF OnlyMoves
<1>2. Tx0(u)' = Tx0(u) /\ \A i : Item(u, i)' = Item(u, i)
  BY <1>1 DEF Tx0, Item, Waiter
<1>3. ASSUME NEW i \in DOMAIN request[u].boxes
      PROVE  LET m == request[u].boxes[i] IN
             state'[m].is = "EMPTY" /\ \E k \in DOMAIN state'[m].q : state'[m].q[k] = Item(u, i)
  <2> DEFINE m == request[u].boxes[i]
  <2>1. m \in Boxes
    BY WaitingFacts, RequestFacts DEF MailboxInv
  <2>2. state[m].is = "EMPTY" /\ \E k \in DOMAIN state[m].q : state[m].q[k] = Item(u, i)
    BY DEF Pending
  <2>3. Item(u, i).tx = Tx0(u)
    BY DEF Item
  <2> HIDE DEF m
  <2>4. state'[m].is = "EMPTY" /\ \E j \in DOMAIN state'[m].q : state'[m].q[j] = Item(u, i)
    BY <2>1, <2>2, <2>3 DEF KeepsItems
  <2> QED BY <2>4 DEF m
<1> QED BY <1>1, <1>2, <1>3 DEF Pending

LEMMA BlockedStep ==
  ASSUME MailboxInv, NEW t \in Threads, OnlyMoves(t), KeepsItems,
         cancelled \subseteq cancelled',
         \A e \in Entities : e[1] # t /\ val[e] # Nil => val'[e] # Nil,
         \A u \in Threads : u # t /\ Tx0(u) \in cancelled' /\ Tx0(u) \notin cancelled =>
           \E e \in Entities : e[1] = u /\ val'[e] # Nil,
         Waits(t)' => (IF Tx0(t) \in cancelled THEN GivenTo(t) # {} ELSE Pending(t))'
  PROVE  BlockedInv'
<1> SUFFICES ASSUME NEW u \in Threads, u # t, Waits(u)'
             PROVE  (IF Tx0(u) \in cancelled THEN GivenTo(u) # {} ELSE Pending(u))'
  BY DEF BlockedInv
<1>1. Waits(u) /\ ops'[u] = ops[u]
  BY EntityFacts DEF OnlyMoves, Waits
<1>2. Tx0(u)' = Tx0(u)
  BY <1>1 DEF Tx0
<1>3. CASE Tx0(u) \in cancelled
  <2>1. PICK e \in Entities : e[1] = u /\ val[e] # Nil
    BY <1>1, <1>3 DEF MailboxInv, BlockedInv, GivenTo
  <2>2. val'[e] # Nil
    BY <2>1
  <2> QED BY <1>2, <1>3, <2>1, <2>2 DEF GivenTo
<1>4. CASE Tx0(u) \notin cancelled /\ Tx0(u) \in cancelled'
  BY <1>2, <1>4 DEF GivenTo
<1>5. CASE Tx0(u) \notin cancelled /\ Tx0(u) \notin cancelled'
  <2>1. Pending(u)
    BY <1>1, <1>5 DEF MailboxInv, BlockedInv
  <2>2. Pending(u)'
    BY <1>1, <1>5, <2>1, PendingKept
  <2> QED BY <1>2, <1>5, <2>2
<1> QED BY <1>3, <1>4, <1>5

\* A step of a thread that leaves nobody else with a message to be woken up for.
LEMMA ValStep ==
  ASSUME MailboxInv, NEW t \in Threads, OnlyMoves(t), cancelled \subseteq cancelled',
         sched.atomic = 1 => sched.cur[1] = t, sched'.atomic = 0,
         \A e \in Entities : e[1] # t => val'[e] = val[e],
         \A e \in Entities : e[1] = t => val'[e] = Nil /\ pc'[e] # "return"
  PROVE  ValInv'
<1>1. ASSUME NEW e \in Entities, val'[e] # Nil
      PROVE  /\ e[1] \in Threads \ {t} /\ val[e] # Nil /\ pc'[e] = pc[e]
             /\ ops'[e[1]] = ops[e[1]] /\ request'[e[1]] = request[e[1]]
             /\ pc'[Main(e[1])] = pc[Main(e[1])]
  BY <1>1, EntityFacts DEF OnlyMoves
<1>2. ASSUME NEW e \in Entities, val'[e] # Nil
      PROVE  /\ pc'[e] \in {"recv", "return"} /\ Waits(e[1])' /\ Tx0(e[1])' \in cancelled'
             /\ \E i \in DOMAIN request'[e[1]].boxes : e = Waiter(e[1], i)'
             /\ \A f \in Entities : f[1] = e[1] /\ val'[f] # Nil => f = e
             /\ pc'[e] # "recv"
  <2>1. /\ pc[e] \in {"recv", "return"} /\ Waits(e[1]) /\ Tx0(e[1]) \in cancelled
        /\ \E i \in DOMAIN request[e[1]].boxes : e = Waiter(e[1], i)
        /\ \A f \in Entities : f[1] = e[1] /\ val[f] # Nil => f = e
        /\ pc[e] # "recv"
    BY <1>1, <1>2 DEF MailboxInv, ValInv
  <2>2. Tx0(e[1])' = Tx0(e[1]) /\ \A i : Waiter(e[1], i)' = Waiter(e[1], i)
    BY <1>1, <1>2 DEF Tx0, Waiter
  <2> QED BY <1>1, <1>2, <2>1, <2>2 DEF Waits
<1>3. ASSUME NEW e \in Entities, pc'[e] = "return" PROVE val'[e] # Nil
  BY <1>3, EntityFacts DEF MailboxInv, ValInv, OnlyMoves
<1> QED BY <1>2, <1>3 DEF ValInv

-----------------------------------------------------------------------------
(***************************************************************************)
(* Every step preserves the invariant.                                     *)
(***************************************************************************)
LEMMA EvaluateStep ==
  ASSUME MailboxInv, NEW t \in Threads, NEW r \in Requests[t], Evaluate(t, r)
  PROVE  MailboxInv'
<1> USE DEF MailboxInv
<1>1. /\ sched' = sched /\ state' = state /\ cancelled' = cancelled /\ val' = val
      /\ result' = result /\ sched.atomic = 0 /\ ops[t] < MaxOps /\ pc[Main(t)] = "run"
      /\ ops' = [ops EXCEPT ![t] = @ + 1] /\ request' = [request EXCEPT ![t] = r]
      /\ pc' = [pc EXCEPT ![Main(t)] = "sync"]
  BY DEF Evaluate, Runs
<1>2. Main(t) \in Entities /\ Main(t)[1] = t /\ Main(t)[2] = 0
  BY EntityFacts
<1>3. /\ ops'[t] = ops[t] + 1 /\ ops[t] \in Nat /\ request'[t] = r /\ pc'[Main(t)] = "sync"
      /\ \A u \in Threads \ {t} : ops'[u] = ops[u] /\ request'[u] = request[u]
      /\ \A u \in Threads : ops'[u] \in Nat /\ ops[u] \in Nat /\ ops'[u] >= ops[u]
      /\ \A e \in Entities : e # Main(t) => pc'[e] = pc[e]
  BY <1>1, <1>2, RequestsAssumption DEF Types
<1>4. OnlyMoves(t) /\ KeepsItems
  BY <1>1, <1>2, <1>3 DEF OnlyMoves, KeepsItems
<1>5. ~ Waits(t) /\ ~ Waits(t)'
  BY <1>1, <1>3 DEF Waits
<1>6. \A e \in Entities : e[1] = t => val[e] = Nil /\ pc'[e] # "return"
  BY <1>1, <1>3, <1>5 DEF ValInv
<1>7. Types'
  <2>1. ops' \in [Threads -> 0..MaxOps]
    BY <1>1, RequestsAssumption DEF Types
  <2>2. DOMAIN request' = Threads /\ \A u \in Threads : ops'[u] > 0 => request'[u] \in Requests[u]
    BY <1>1, <1>3 DEF Types
  <2>3. /\ pc' \in [Entities -> {"run", "sync", "recv", "helped", "none", "return"}]
        /\ \A e \in Entities : e[2] = 0 => pc'[e] \notin {"none", "return"}
    BY <1>1, <1>2, <1>3 DEF Types
  <2> QED BY <1>1, <2>1, <2>2, <2>3 DEF Types
<1>8. OpsInv'
  <2>1. Tx0(t)' = <<t, ops[t] + 1>> /\ \A u \in Threads \ {t} : Tx0(u)' = Tx0(u)
    BY <1>3 DEF Tx0
  <2>2. \A x \in Tx : x[1] \in Threads /\ x[2] \in Nat
    BY DEF Tx
  <2>3. \A x \in cancelled : x \in Tx /\ x[2] <= ops'[x[1]]
    BY <1>3, <2>2 DEF OpsInv, Types
  <2>4. \A x \in Tx : result[x] # Nil => x[2] <= ops'[x[1]]
    BY <1>3, <2>2 DEF OpsInv
  <2>5. <<t, ops[t] + 1>> \in Tx /\ result[<<t, ops[t] + 1>>] = Nil
    <3>1. <<t, ops[t] + 1>> \in Tx
      BY <1>1, <1>3, RequestsAssumption DEF Tx
    <3> QED BY <1>3, <3>1 DEF OpsInv
  <2>6. <<t, ops[t] + 1>> \notin cancelled
    BY <1>3 DEF OpsInv
  <2>7. \A u \in Threads \ {t} : pc'[Main(u)] = pc[Main(u)] /\ (Waits(u)' <=> Waits(u))
    BY <1>3, EntityFacts DEF Waits
  <2>8. \A u \in Threads : pc'[Main(u)] # "run" => ops'[u] > 0 /\ result'[Tx0(u)'] = Nil
    BY <1>1, <1>3, <2>1, <2>5, <2>7 DEF OpsInv
  <2>9. \A u \in Threads : pc'[Main(u)] = "sync" => Tx0(u)' \notin cancelled'
    BY <1>1, <2>1, <2>6, <2>7 DEF OpsInv
  <2>10. \A u \in Threads : Waits(u)' =>
           (pc'[Main(u)] = "recv" <=> Len(request'[u].boxes) = 1)
    BY <1>3, <1>5, <2>7 DEF OpsInv
  <2>11. \A e \in Entities : e[2] # 0 => pc'[e] \in {"recv", "none", "return"}
    BY <1>2, <1>3 DEF OpsInv
  <2> QED BY <1>1, <2>3, <2>4, <2>8, <2>9, <2>10, <2>11 DEF OpsInv
<1>9. ItemsInv'
  <2>1. ASSUME NEW m \in Boxes, NEW item, state[m].is = "EMPTY", item.tx \notin cancelled,
               \E k \in DOMAIN state[m].q : state[m].q[k] = item
        PROVE  item.tx[1] # t
    <3>1. LiveItem(m, item)
      BY <2>1 DEF ItemsInv, Live
    <3> QED BY <1>5, <3>1, LiveOwner
  <2> QED BY <1>1, <1>4, <2>1, ItemsStep
<1>10. ValInv'
  BY <1>1, <1>4, <1>6, ValStep
<1>11. PlacesInv'
  <2>1. \A e \in Entities : Placed(e)' <=> Placed(e)
    BY <1>1, <1>3 DEF Placed
  <2> QED BY <1>1, <2>1 DEF PlacesInv, Scheduled, One
<1>12. BlockedInv'
  BY <1>1, <1>4, <1>5, BlockedStep
<1>13. QueueNeverEmpty'
  BY <1>1 DEF QueueNeverEmpty
<1> QED BY <1>7, <1>8, <1>9, <1>10, <1>11, <1>12, <1>13

\* An operation returns at once.
LEMMA ReturnStep ==
  ASSUME MailboxInv, NEW t \in Threads, pc[Main(t)] = "sync",
         NEW m \in Boxes, NEW msg \in Tx \cup {Nil}, Return(t, m, msg),
         ops' = ops, request' = request,
         \A x \in cancelled' \ cancelled : x \in Tx /\ x[2] <= ops[x[1]] /\ Waits(x[1])
  PROVE  /\ OnlyMoves(t) /\ ~ Waits(t)' /\ OpsInv' /\ pc'[Main(t)] = "run"
         /\ \A e \in Entities \ {Main(t)} : pc'[e] = pc[e]
         /\ \A e \in Entities : e[1] = t => pc'[e] # "return"
         /\ pc' \in [Entities -> {"run", "sync", "recv", "helped", "none", "return"}]
         /\ \A e \in Entities : e[2] = 0 => pc'[e] \notin {"none", "return"}
         /\ result' \in [Tx -> {Nil} \cup [box : Boxes, val : Tx \cup {Nil}]]
         /\ \A x \in Tx \ {Tx0(t)} : result'[x] = result[x]
         /\ result'[Tx0(t)] = [box |-> m, val |-> msg]
<1> USE DEF MailboxInv
<1>1. /\ pc' = [pc EXCEPT ![Main(t)] = "run"]
      /\ result' = [result EXCEPT ![Tx0(t)] = [box |-> m, val |-> msg]]
  BY DEF Return
<1>2. Main(t) \in Entities /\ Main(t)[1] = t /\ Main(t)[2] = 0
  BY EntityFacts
<1>3. /\ pc'[Main(t)] = "run" /\ \A e \in Entities \ {Main(t)} : pc'[e] = pc[e]
      /\ pc' \in [Entities -> {"run", "sync", "recv", "helped", "none", "return"}]
  BY <1>1, <1>2 DEF Types
<1>4. /\ ops[t] > 0 /\ Tx0(t) \in Tx /\ Tx0(t) \notin cancelled
      /\ \A e \in Entities : e[1] = t /\ e # Main(t) => pc[e] \in {"recv", "none"}
  BY AtSync
<1>5. /\ result' \in [Tx -> {Nil} \cup [box : Boxes, val : Tx \cup {Nil}]]
      /\ \A x \in Tx \ {Tx0(t)} : result'[x] = result[x]
      /\ result'[Tx0(t)] = [box |-> m, val |-> msg]
  BY <1>1, <1>4 DEF Types
<1>6. OnlyMoves(t)
  BY <1>2, <1>3 DEF OnlyMoves
<1>7. ~ Waits(t)'
  BY <1>3 DEF Waits
<1>8. /\ \A e \in Entities : e[2] = 0 => pc'[e] \notin {"none", "return"}
      /\ \A e \in Entities : e[1] = t => pc'[e] # "return"
  BY <1>2, <1>3, <1>4 DEF Types
<1>9. OpsInv'
  <2>1. \A u \in Threads : Tx0(u)' = Tx0(u) /\ Tx0(u)[1] = u
    BY DEF Tx0
  <2>2. \A u \in Threads \ {t} : pc'[Main(u)] = pc[Main(u)] /\ (Waits(u)' <=> Waits(u))
    BY <1>3, EntityFacts DEF Waits
  <2>3. \A x \in cancelled' : x[2] <= ops'[x[1]]
    BY DEF OpsInv
  <2>4. \A x \in Tx : result'[x] # Nil => x[2] <= ops'[x[1]]
    <3>1. Tx0(t)[2] <= ops[Tx0(t)[1]]
      BY RequestsAssumption DEF Tx0, Types
    <3> QED BY <1>5, <3>1 DEF OpsInv
  <2>5. \A u \in Threads : pc'[Main(u)] # "run" => ops'[u] > 0 /\ result'[Tx0(u)'] = Nil
    <3> SUFFICES ASSUME NEW u \in Threads \ {t}, pc[Main(u)] # "run"
                 PROVE  ops[u] > 0 /\ result'[Tx0(u)] = Nil
      BY <1>3, <2>1, <2>2
    <3>1. ops[u] > 0 /\ result[Tx0(u)] = Nil
      BY DEF OpsInv
    <3>2. Tx0(u) \in Tx \ {Tx0(t)}
      BY <2>1, <3>1, RequestFacts
    <3> QED BY <1>5, <3>1, <3>2
  <2>6. \A u \in Threads : pc'[Main(u)] = "sync" => Tx0(u)' \notin cancelled'
    <3> SUFFICES ASSUME NEW u \in Threads \ {t}, pc[Main(u)] = "sync", Tx0(u) \in cancelled'
                 PROVE  FALSE
      BY <1>3, <2>1, <2>2
    <3>1. Tx0(u) \notin cancelled /\ ~ Waits(u)
      BY DEF OpsInv, Waits
    <3> QED BY <2>1, <3>1
  <2>7. \A u \in Threads : Waits(u)' =>
          (pc'[Main(u)] = "recv" <=> Len(request'[u].boxes) = 1)
    BY <1>7, <2>2 DEF OpsInv
  <2>8. \A e \in Entities : e[2] # 0 => pc'[e] \in {"recv", "none", "return"}
    BY <1>2, <1>3 DEF OpsInv
  <2> QED BY <2>3, <2>4, <2>5, <2>6, <2>7, <2>8 DEF OpsInv
<1> QED BY <1>3, <1>5, <1>6, <1>7, <1>8, <1>9

\* The thread that moves has no live items: it does not wait.
LEMMA NoItemsOf ==
  ASSUME MailboxInv, NEW t \in Threads, ~ Waits(t) \/ Tx0(t) \in cancelled,
         NEW m \in Boxes, NEW item, state[m].is = "EMPTY", item.tx \notin cancelled,
         \E k \in DOMAIN state[m].q : state[m].q[k] = item
  PROVE  item.tx[1] # t
<1>1. LiveItem(m, item)
  BY DEF MailboxInv, ItemsInv, Live
<1> QED BY <1>1, LiveOwner

\* Where the current thread stays on the processor, or goes to a ready queue.
LEMMA PlacesSame ==
  ASSUME MailboxInv, NEW t \in Threads, pc[Main(t)] = "sync", pc'[Main(t)] = "run",
         \A e \in Entities \ {Main(t)} : pc'[e] = pc[e], val' = val,
         \A e \in Entities : Places(sched', e) = Places(sched, e)
  PROVE  PlacesInv'
<1>1. \A e \in Entities : Placed(e)' <=> Placed(e)
  BY DEF Placed
<1> QED BY <1>1 DEF MailboxInv, PlacesInv, Scheduled, One

LEMMA PollFailsStep ==
  ASSUME MailboxInv, NEW t \in Threads, PollFails(t)
  PROVE  MailboxInv'
<1> USE DEF MailboxInv
<1>1. /\ sched' = sched /\ state' = state /\ cancelled' = cancelled /\ val' = val
      /\ ops' = ops /\ request' = request /\ sched.atomic = 0 /\ pc[Main(t)] = "sync"
      /\ Return(t, Box(Main(t)), Nil)
  BY DEF PollFails, Receives, Runs
<1>2. Box(Main(t)) \in Boxes
  BY <1>1, AtSync, BoxFacts
<1>3. /\ OnlyMoves(t) /\ ~ Waits(t)' /\ OpsInv' /\ pc'[Main(t)] = "run"
      /\ \A e \in Entities \ {Main(t)} : pc'[e] = pc[e]
      /\ \A e \in Entities : e[1] = t => pc'[e] # "return"
      /\ pc' \in [Entities -> {"run", "sync", "recv", "helped", "none", "return"}]
      /\ \A e \in Entities : e[2] = 0 => pc'[e] \notin {"none", "return"}
      /\ result' \in [Tx -> {Nil} \cup [box : Boxes, val : Tx \cup {Nil}]]
  BY <1>1, <1>2, ReturnStep
<1>4. ~ Waits(t) /\ \A e \in Entities : e[1] = t => val[e] = Nil
  BY <1>1, AtSync
<1>5. KeepsItems
  BY <1>1 DEF KeepsItems
<1>6. Types'
  BY <1>1, <1>3 DEF Types
<1>7. ItemsInv'
  BY <1>1, <1>3, <1>4, NoItemsOf, ItemsStep
<1>8. ValInv'
  BY <1>1, <1>3, <1>4, ValStep
<1>9. PlacesInv'
  BY <1>1, <1>3, PlacesSame
<1>10. BlockedInv'
  BY <1>1, <1>3, <1>5, BlockedStep
<1>11. QueueNeverEmpty'
  BY <1>1 DEF QueueNeverEmpty
<1> QED BY <1>3, <1>6, <1>7, <1>8, <1>9, <1>10, <1>11

LEMMA GetMsgStep ==
  ASSUME MailboxInv, NEW t \in Threads, GetMsg(t)
  PROVE  MailboxInv'
<1> USE DEF MailboxInv
<1>1. /\ sched' = sched /\ cancelled' = cancelled /\ val' = val
      /\ ops' = ops /\ request' = request /\ sched.atomic = 0 /\ pc[Main(t)] = "sync"
  BY DEF GetMsg, Receives, Runs
<1>2. PICK m \in Ready(t) : /\ Return(t, m, Head(state[m].q))
                            /\ state' = [state EXCEPT ![m] = AfterGetMsg(@.q)]
  BY DEF GetMsg
<1>3. m \in Boxes /\ state[m].is = "NONEMPTY"
  BY <1>1, <1>2, AtSync, RequestFacts DEF Ready, BoxesOf
<1>4. state[m].q \in Seq(Tx) /\ state[m].q # <<>>
  BY <1>3 DEF Types, QueueNeverEmpty
<1>5. Head(state[m].q) \in Tx /\ Tail(state[m].q) \in Seq(Tx)
  BY <1>4
<1>6. /\ OnlyMoves(t) /\ ~ Waits(t)' /\ OpsInv' /\ pc'[Main(t)] = "run"
      /\ \A e \in Entities \ {Main(t)} : pc'[e] = pc[e]
      /\ \A e \in Entities : e[1] = t => pc'[e] # "return"
      /\ pc' \in [Entities -> {"run", "sync", "recv", "helped", "none", "return"}]
      /\ \A e \in Entities : e[2] = 0 => pc'[e] \notin {"none", "return"}
      /\ result' \in [Tx -> {Nil} \cup [box : Boxes, val : Tx \cup {Nil}]]
  BY <1>1, <1>2, <1>3, <1>5, ReturnStep
<1>7. ~ Waits(t) /\ \A e \in Entities : e[1] = t => val[e] = Nil
  BY <1>1, AtSync
<1>8. /\ \A n \in Boxes \ {m} : state'[n] = state[n]
      /\ state'[m] = AfterGetMsg(state[m].q)
      /\ state'[m].is = "EMPTY" => state'[m].q = <<>>
      /\ state'[m].is = "NONEMPTY" => state'[m].q # <<>>
  BY <1>2, <1>3 DEF Types, AfterGetMsg, EMPTY, NONEMPTY
<1>9. state' \in [Boxes -> [is : {"EMPTY"}, q : Seq(Items)] \cup [is : {"NONEMPTY"}, q : Seq(Tx)]]
  <2>1. AfterGetMsg(state[m].q) \in
          [is : {"EMPTY"}, q : Seq(Items)] \cup [is : {"NONEMPTY"}, q : Seq(Tx)]
    BY <1>5 DEF AfterGetMsg, EMPTY, NONEMPTY
  <2> QED BY <1>2, <2>1 DEF Types
<1>10. Types'
  BY <1>1, <1>6, <1>9 DEF Types
<1>11. KeepsItems
  BY <1>3, <1>8 DEF KeepsItems
<1>12. ItemsInv'
  <2>1. \A n \in Boxes : \A item :
          /\ state'[n].is = "EMPTY" /\ item.tx \notin cancelled'
          /\ \E k \in DOMAIN state'[n].q : state'[n].q[k] = item
          => /\ state[n].is = "EMPTY" /\ item.tx[1] # t /\ item.tx \notin cancelled
             /\ \E j \in DOMAIN state[n].q : state[n].q[j] = item
    BY <1>1, <1>7, <1>8, NoItemsOf
  <2> QED BY <1>6, <2>1, ItemsStep
<1>13. ValInv'
  BY <1>1, <1>6, <1>7, ValStep
<1>14. PlacesInv'
  BY <1>1, <1>6, PlacesSame
<1>15. BlockedInv'
  BY <1>1, <1>6, <1>11, BlockedStep
<1>16. QueueNeverEmpty'
  BY <1>8 DEF QueueNeverEmpty
<1> QED BY <1>6, <1>10, <1>12, <1>13, <1>14, <1>15, <1>16

\* The live receivers of a mailbox, in the order in which they came.
LEMMA LiveReceivers ==
  ASSUME MailboxInv, NEW m \in Boxes, state[m].is = "EMPTY"
  PROVE  LET q == CleanAndDeque(state[m].q) IN
         /\ q \in Seq(Items)
         /\ \A k \in DOMAIN q : /\ Live(q[k]) /\ LiveItem(m, q[k])
                                /\ \E i \in DOMAIN state[m].q : state[m].q[i] = q[k]
         /\ \A i \in DOMAIN state[m].q : Live(state[m].q[i]) => \E k \in DOMAIN q : q[k] = state[m].q[i]
<1> DEFINE L == {item \in Items : Live(item)}
           all == state[m].q
           q == Among(all, L)
<1>1. all \in Seq(Items)
  BY DEF MailboxInv, Types
<1>2. /\ q \in Seq(Items \cap L)
      /\ \A i \in DOMAIN all : all[i] \in L => \E k \in DOMAIN q : q[k] = all[i]
      /\ \A k \in DOMAIN q : \E i \in DOMAIN all : q[k] = all[i]
  <2> HIDE DEF all, L
  <2>1. q \in Seq(Items \cap L) /\ Selects(all, L, Len(all), q)
    BY <1>1, AmongElements
  <2> HIDE DEF q
  <2>2. DOMAIN all = 1 .. Len(all) /\ DOMAIN q = 1 .. Len(q)
    BY <1>1, <2>1
  <2> QED BY <2>1, <2>2 DEF Selects
<1>3. \A i \in DOMAIN all : all[i] \in Items /\ (Live(all[i]) => all[i] \in L)
  BY <1>1
<1>4. q \in Seq(Items) /\ \A k \in DOMAIN q : q[k] \in L
  <2> HIDE DEF q, L
  <2>1. \A k \in DOMAIN q : q[k] \in Items \cap L
    BY <1>2
  <2> QED BY <1>2, <2>1
<1>5. \A i \in DOMAIN all : Live(all[i]) => LiveItem(m, all[i])
  BY DEF MailboxInv, ItemsInv
<1>6. \A item \in L : Live(item)
  OBVIOUS
<1>7. CleanAndDeque(state[m].q) = q
  BY DEF CleanAndDeque
<1> HIDE DEF all, q, L
<1>8. \A k \in DOMAIN q : /\ Live(q[k]) /\ LiveItem(m, q[k])
                          /\ \E i \in DOMAIN all : all[i] = q[k]
  BY <1>2, <1>4, <1>5, <1>6
<1> QED BY <1>2, <1>3, <1>4, <1>7, <1>8 DEF all

LEMMA SendFirstStep ==
  ASSUME MailboxInv, NEW t \in Threads, SendFirst(t)
  PROVE  MailboxInv'
<1> USE DEF MailboxInv
<1> DEFINE m == Box(Main(t))
<1>1. /\ sched' = sched /\ cancelled' = cancelled /\ val' = val
      /\ ops' = ops /\ request' = request /\ sched.atomic = 0 /\ pc[Main(t)] = "sync"
      /\ Return(t, m, Nil) /\ state[m].is = "EMPTY" /\ CleanAndDeque(state[m].q) = <<>>
      /\ state' = [state EXCEPT ![m] = NONEMPTY(<<Tx0(t)>>)]
  BY DEF SendFirst, Sends, Runs
<1>2. m \in Boxes /\ Tx0(t) \in Tx
  BY <1>1, AtSync, BoxFacts
<1> HIDE DEF m
<1>3. /\ OnlyMoves(t) /\ ~ Waits(t)' /\ OpsInv' /\ pc'[Main(t)] = "run"
      /\ \A e \in Entities \ {Main(t)} : pc'[e] = pc[e]
      /\ \A e \in Entities : e[1] = t => pc'[e] # "return"
      /\ pc' \in [Entities -> {"run", "sync", "recv", "helped", "none", "return"}]
      /\ \A e \in Entities : e[2] = 0 => pc'[e] \notin {"none", "return"}
      /\ result' \in [Tx -> {Nil} \cup [box : Boxes, val : Tx \cup {Nil}]]
  BY <1>1, <1>2, ReturnStep
<1>4. ~ Waits(t) /\ \A e \in Entities : e[1] = t => val[e] = Nil
  BY <1>1, AtSync
<1>5. /\ \A n \in Boxes \ {m} : state'[n] = state[n]
      /\ state'[m].is = "NONEMPTY" /\ state'[m].q = <<Tx0(t)>>
  BY <1>1, <1>2 DEF Types, NONEMPTY
<1>6. state' \in [Boxes -> [is : {"EMPTY"}, q : Seq(Items)] \cup [is : {"NONEMPTY"}, q : Seq(Tx)]]
  <2>1. NONEMPTY(<<Tx0(t)>>) \in [is : {"NONEMPTY"}, q : Seq(Tx)]
    BY <1>2 DEF NONEMPTY
  <2> QED BY <1>1, <1>2, <2>1 DEF Types
<1>7. Types'
  BY <1>1, <1>3, <1>6 DEF Types
<1>8. \A k \in DOMAIN state[m].q : state[m].q[k].tx \in cancelled
  <2> SUFFICES ASSUME NEW k \in DOMAIN state[m].q, Live(state[m].q[k]) PROVE FALSE
    BY DEF Live
  <2>1. \E j \in DOMAIN CleanAndDeque(state[m].q) : TRUE
    BY <1>1, <1>2, LiveReceivers
  <2> QED BY <1>1, <2>1
<1>9. KeepsItems
  BY <1>1, <1>5, <1>8 DEF KeepsItems
<1>10. ItemsInv'
  <2>1. \A n \in Boxes : \A item :
          /\ state'[n].is = "EMPTY" /\ item.tx \notin cancelled'
          /\ \E k \in DOMAIN state'[n].q : state'[n].q[k] = item
          => /\ state[n].is = "EMPTY" /\ item.tx[1] # t /\ item.tx \notin cancelled
             /\ \E j \in DOMAIN state[n].q : state[n].q[j] = item
    BY <1>1, <1>4, <1>5, NoItemsOf
  <2> QED BY <1>3, <2>1, ItemsStep
<1>11. ValInv'
  BY <1>1, <1>3, <1>4, ValStep
<1>12. PlacesInv'
  BY <1>1, <1>3, PlacesSame
<1>13. BlockedInv'
  BY <1>1, <1>3, <1>9, BlockedStep
<1>14. QueueNeverEmpty'
  <2>1. <<Tx0(t)>> # <<>>
    OBVIOUS
  <2> QED BY <1>5, <2>1 DEF QueueNeverEmpty
<1> QED BY <1>3, <1>7, <1>10, <1>11, <1>12, <1>13, <1>14

LEMMA SendNextStep ==
  ASSUME MailboxInv, NEW t \in Threads, SendNext(t)
  PROVE  MailboxInv'
<1> USE DEF MailboxInv
<1> DEFINE m == Box(Main(t))
<1>1. /\ cancelled' = cancelled /\ val' = val
      /\ ops' = ops /\ request' = request /\ sched.atomic = 0 /\ pc[Main(t)] = "sync"
      /\ sched.cur = Main(t) /\ Return(t, m, Nil) /\ state[m].is = "NONEMPTY"
      /\ state' = [state EXCEPT ![m] = NONEMPTY(Append(@.q, Tx0(t)))]
      /\ sched' = atomicReadyAndSwitchToNext(atomicBegin(sched))
  BY DEF SendNext, Sends, Runs, Enque
<1>2. m \in Boxes /\ Tx0(t) \in Tx
  BY <1>1, AtSync, BoxFacts
<1> HIDE DEF m
<1>3. /\ OnlyMoves(t) /\ ~ Waits(t)' /\ OpsInv' /\ pc'[Main(t)] = "run"
      /\ \A e \in Entities \ {Main(t)} : pc'[e] = pc[e]
      /\ \A e \in Entities : e[1] = t => pc'[e] # "return"
      /\ pc' \in [Entities -> {"run", "sync", "recv", "helped", "none", "return"}]
      /\ \A e \in Entities : e[2] = 0 => pc'[e] \notin {"none", "return"}
      /\ result' \in [Tx -> {Nil} \cup [box : Boxes, val : Tx \cup {Nil}]]
  BY <1>1, <1>2, ReturnStep
<1>4. ~ Waits(t) /\ \A e \in Entities : e[1] = t => val[e] = Nil
  BY <1>1, AtSync
<1>5. state[m].q \in Seq(Tx) /\ state[m].q # <<>>
  BY <1>1, <1>2 DEF Types, QueueNeverEmpty
<1>6. Append(state[m].q, Tx0(t)) \in Seq(Tx) /\ Append(state[m].q, Tx0(t)) # <<>>
  BY <1>2, <1>5
<1>7. /\ \A n \in Boxes \ {m} : state'[n] = state[n]
      /\ state'[m].is = "NONEMPTY" /\ state'[m].q = Append(state[m].q, Tx0(t))
  BY <1>1, <1>2 DEF Types, NONEMPTY
<1>8. state' \in [Boxes -> [is : {"EMPTY"}, q : Seq(Items)] \cup [is : {"NONEMPTY"}, q : Seq(Tx)]]
  <2>1. NONEMPTY(Append(state[m].q, Tx0(t))) \in [is : {"NONEMPTY"}, q : Seq(Tx)]
    BY <1>6 DEF NONEMPTY
  <2> QED BY <1>1, <1>2, <2>1 DEF Types
<1>9. /\ sched' \in SchedulerStates(Entities) /\ sched'.atomic = 0
      /\ \A e \in Entities : Places(sched', e) = Places(sched, e)
  <2> DEFINE b == atomicBegin(sched)
  <2>1. /\ b \in SchedulerStates(Entities) /\ b.atomic = 1 /\ b.cur = Main(t)
        /\ \A e : Places(b, e) = Places(sched, e)
    BY <1>1, PlacesBegin DEF Types
  <2> HIDE DEF b
  <2> DEFINE r == ready(b, b.cur)
  <2>3. /\ r \in SchedulerStates(Entities) /\ r.atomic = 1 /\ r.cur = Main(t)
        /\ \A e : Places(r, e) = Places(b, e) + One(Main(t) = e)
    BY <2>1, EntityFacts, PlacesReady
  <2> HIDE DEF r
  <2>4. /\ atomicSwitchToNext(r) \in SchedulerStates(Entities)
        /\ atomicSwitchToNext(r).atomic = r.atomic - 1
        /\ \A e \in Entities : Places(atomicSwitchToNext(r), e) = Places(r, e) - One(r.cur = e)
    BY <2>3, EntityFacts, PlacesSwitchToNext
  <2>5. sched' = atomicSwitchToNext(r)
    BY <1>1 DEF atomicReadyAndSwitchToNext, r, b
  <2>6. \A e : Places(b, e) \in Nat
    BY <2>1, PlacesType
  <2> QED BY <2>1, <2>3, <2>4, <2>5, <2>6 DEF One
<1>10. Types'
  BY <1>1, <1>3, <1>8, <1>9 DEF Types
<1>11. KeepsItems
  BY <1>1, <1>7 DEF KeepsItems
<1>12. ItemsInv'
  <2>1. \A n \in Boxes : \A item :
          /\ state'[n].is = "EMPTY" /\ item.tx \notin cancelled'
          /\ \E k \in DOMAIN state'[n].q : state'[n].q[k] = item
          => /\ state[n].is = "EMPTY" /\ item.tx[1] # t /\ item.tx \notin cancelled
             /\ \E j \in DOMAIN state[n].q : state[n].q[j] = item
    BY <1>1, <1>4, <1>7, NoItemsOf
  <2> QED BY <1>3, <2>1, ItemsStep
<1>13. ValInv'
  BY <1>1, <1>3, <1>4, <1>9, ValStep
<1>14. PlacesInv'
  BY <1>1, <1>3, <1>9, PlacesSame
<1>15. BlockedInv'
  BY <1>1, <1>3, <1>11, BlockedStep
<1>16. QueueNeverEmpty'
  BY <1>6, <1>7 DEF QueueNeverEmpty
<1> QED BY <1>3, <1>10, <1>12, <1>13, <1>14, <1>15, <1>16

LEMMA SendToReceiverStep ==
  ASSUME MailboxInv, NEW t \in Threads, SendToReceiver(t)
  PROVE  MailboxInv'
<1> USE DEF MailboxInv
<1> DEFINE m == Box(Main(t))
           q == CleanAndDeque(state[m].q)
           h == Head(q)
           u == h.tx[1]
<1>1. /\ ops' = ops /\ request' = request /\ sched.atomic = 0 /\ pc[Main(t)] = "sync"
      /\ sched.cur = Main(t) /\ Return(t, m, Nil) /\ state[m].is = "EMPTY" /\ q # <<>>
      /\ state' = [state EXCEPT ![m] = EMPTY(Tail(q))]
      /\ cancelled' = cancelled \cup {h.tx} /\ val' = [val EXCEPT ![h.thr] = Tx0(t)]
      /\ sched' = readyAndSwitch(atomicBegin(sched), h.thr)
  BY DEF SendToReceiver, Sends, Runs
<1>2. m \in Boxes /\ Tx0(t) \in Tx
  BY <1>1, AtSync, BoxFacts
<1> HIDE DEF m
<1>3. /\ q \in Seq(Items)
      /\ \A k \in DOMAIN q : /\ Live(q[k]) /\ LiveItem(m, q[k])
                             /\ \E i \in DOMAIN state[m].q : state[m].q[i] = q[k]
      /\ \A i \in DOMAIN state[m].q : Live(state[m].q[i]) => \E k \in DOMAIN q : q[k] = state[m].q[i]
  BY <1>1, <1>2, LiveReceivers
<1> HIDE DEF q
<1>4. /\ h = q[1] /\ 1 \in DOMAIN q /\ Tail(q) \in Seq(Items)
      /\ \A k \in DOMAIN Tail(q) : k + 1 \in DOMAIN q /\ Tail(q)[k] = q[k + 1]
      /\ \A k \in DOMAIN q : k # 1 => k - 1 \in DOMAIN Tail(q) /\ Tail(q)[k - 1] = q[k]
  BY <1>1, <1>3
<1> HIDE DEF h
<1>5. /\ h \in Items /\ h.tx \notin cancelled /\ LiveItem(m, h)
  BY <1>3, <1>4 DEF Live
<1>6. /\ u \in Threads /\ Waits(u) /\ h.tx = Tx0(u) /\ h.tx \in Tx
      /\ h.thr \in Entities /\ h.thr[1] = u /\ pc[h.thr] = "recv"
      /\ \E i \in DOMAIN request[u].boxes : h.thr = Waiter(u, i)
  BY <1>5, LiveOwner DEF Items
<1> HIDE DEF u
<1>7. /\ ~ Waits(t) /\ u # t /\ \A e \in Entities : e[1] = t => val[e] = Nil
      /\ h.thr # Main(t) /\ Tx0(t) # Nil
  <2>1. ~ Waits(t) /\ \A e \in Entities : e[1] = t => val[e] = Nil
    BY <1>1, AtSync
  <2>2. Tx0(t) # Nil
    BY <1>2, RequestsAssumption DEF Tx
  <2> QED BY <1>1, <1>6, <2>1, <2>2
<1>8. /\ OnlyMoves(t) /\ ~ Waits(t)' /\ OpsInv' /\ pc'[Main(t)] = "run"
      /\ \A e \in Entities \ {Main(t)} : pc'[e] = pc[e]
      /\ \A e \in Entities : e[1] = t => pc'[e] # "return"
      /\ pc' \in [Entities -> {"run", "sync", "recv", "helped", "none", "return"}]
      /\ \A e \in Entities : e[2] = 0 => pc'[e] \notin {"none", "return"}
      /\ result' \in [Tx -> {Nil} \cup [box : Boxes, val : Tx \cup {Nil}]]
  <2>1. h.tx[2] <= ops[h.tx[1]] /\ Waits(h.tx[1])
    <3>1. h.tx[1] = u /\ h.tx[2] = ops[u] /\ ops[u] \in Int
      BY <1>6, RequestsAssumption DEF Tx0, Types
    <3> QED BY <1>6, <3>1
  <2>2. \A x \in cancelled' \ cancelled : x \in Tx /\ x[2] <= ops[x[1]] /\ Waits(x[1])
    BY <1>1, <1>6, <2>1
  <2> QED BY <1>1, <1>2, <2>2, ReturnStep
<1>9. /\ sched' \in SchedulerStates(Entities) /\ sched'.atomic = 1 /\ sched'.cur = h.thr
      /\ \A e \in Entities : Places(sched', e) = Places(sched, e) + One(h.thr = e)
  <2> DEFINE b == atomicBegin(sched)
             c == atomicBegin(b)
             r == ready(c, c.cur)
             d == atomicSwitch(r, h.thr)
  <2>1. /\ b \in SchedulerStates(Entities) /\ b.atomic = 1 /\ b.cur = Main(t)
        /\ \A e : Places(b, e) = Places(sched, e)
    BY <1>1, PlacesBegin DEF Types
  <2> HIDE DEF b
  <2>2. /\ c \in SchedulerStates(Entities) /\ c.atomic = 2 /\ c.cur = Main(t)
        /\ \A e : Places(c, e) = Places(b, e)
    BY <2>1, PlacesBegin
  <2> HIDE DEF c
  <2>3. /\ r \in SchedulerStates(Entities) /\ r.atomic = 2 /\ r.cur = Main(t)
        /\ \A e : Places(r, e) = Places(c, e) + One(Main(t) = e)
    BY <2>2, EntityFacts, PlacesReady
  <2> HIDE DEF r
  <2>4. /\ d \in SchedulerStates(Entities) /\ d.atomic = r.atomic - 1 /\ d.cur = h.thr
        /\ \A e : Places(d, e) = Places(r, e) - One(r.cur = e) + One(h.thr = e)
    BY <1>6, <2>3, EntityFacts, PlacesSwitch
  <2> HIDE DEF d
  <2>5. sched' = d
    BY <1>1 DEF readyAndSwitch, atomicReadyAndSwitch, b, c, d, r
  <2>6. \A e : Places(c, e) \in Nat
    BY <2>2, PlacesType
  <2> QED BY <2>1, <2>2, <2>3, <2>4, <2>5, <2>6 DEF One
<1>10. /\ \A n \in Boxes \ {m} : state'[n] = state[n]
       /\ state'[m].is = "EMPTY" /\ state'[m].q = Tail(q)
  BY <1>1, <1>2 DEF Types, EMPTY
<1>11. state' \in [Boxes -> [is : {"EMPTY"}, q : Seq(Items)] \cup [is : {"NONEMPTY"}, q : Seq(Tx)]]
  <2>1. EMPTY(Tail(q)) \in [is : {"EMPTY"}, q : Seq(Items)]
    BY <1>4 DEF EMPTY
  <2> QED BY <1>1, <1>2, <2>1 DEF Types
<1>12. /\ val' \in [Entities -> Tx \cup {Nil}] /\ val'[h.thr] = Tx0(t)
       /\ \A e \in Entities \ {h.thr} : val'[e] = val[e]
  BY <1>1, <1>2, <1>6 DEF Types
<1>13. Types'
  BY <1>1, <1>6, <1>8, <1>9, <1>11, <1>12 DEF Types
<1>14. KeepsItems
  <2> SUFFICES ASSUME state[m].is = "EMPTY", NEW k \in DOMAIN state[m].q,
                      state[m].q[k].tx \notin cancelled'
               PROVE  \E j \in DOMAIN Tail(q) : Tail(q)[j] = state[m].q[k]
    BY <1>10 DEF KeepsItems
  <2>1. PICK j \in DOMAIN q : q[j] = state[m].q[k]
    BY <1>1, <1>3 DEF Live
  <2>2. j # 1
    BY <1>1, <1>4, <2>1
  <2> QED BY <1>4, <2>1, <2>2
<1>15. ItemsInv'
  <2>1. ASSUME NEW n \in Boxes, NEW item, state'[n].is = "EMPTY", item.tx \notin cancelled',
               \E k \in DOMAIN state'[n].q : state'[n].q[k] = item
        PROVE  /\ state[n].is = "EMPTY" /\ item.tx[1] # t /\ item.tx \notin cancelled
               /\ \E j \in DOMAIN state[n].q : state[n].q[j] = item
    <3>1. CASE n # m
      BY <1>1, <1>7, <1>10, <2>1, <3>1, NoItemsOf
    <3>2. CASE n = m
      <4>1. PICK k \in DOMAIN Tail(q) : Tail(q)[k] = item
        BY <1>10, <2>1, <3>2
      <4>2. PICK j \in DOMAIN state[m].q : state[m].q[j] = item
        BY <1>3, <1>4, <4>1
      <4> QED BY <1>1, <1>7, <2>1, <3>2, <4>2, NoItemsOf
    <3> QED BY <3>1, <3>2
  <2> QED BY <1>8, <2>1, ItemsStep
<1>16. \A e \in Entities : val'[e] # Nil => \/ e = h.thr
                                            \/ val[e] # Nil /\ e[1] # u /\ e[1] # t
  BY <1>5, <1>6, <1>7, <1>12 DEF ValInv
<1>17. ValInv'
  <2>1. \A v : Tx0(v)' = Tx0(v) /\ \A i : Waiter(v, i)' = Waiter(v, i)
    BY <1>1 DEF Tx0, Waiter
  <2>2. \A v \in Threads \ {t} : Waits(v)' <=> Waits(v)
    BY <1>8, EntityFacts DEF Waits
  <2>3. ASSUME NEW e \in Entities, val'[e] # Nil
        PROVE  /\ pc'[e] \in {"recv", "return"} /\ Waits(e[1])' /\ Tx0(e[1])' \in cancelled'
               /\ \E i \in DOMAIN request'[e[1]].boxes : e = Waiter(e[1], i)'
               /\ \A f \in Entities : f[1] = e[1] /\ val'[f] # Nil => f = e
               /\ pc'[e] = "recv" => sched'.atomic = 1 /\ sched'.cur = e
    <3>1. CASE e = h.thr
      BY <1>1, <1>6, <1>7, <1>8, <1>9, <1>16, <2>1, <2>2, <3>1
    <3>2. CASE e # h.thr /\ val[e] # Nil /\ e[1] # u /\ e[1] # t
      <4>1. /\ pc[e] = "return" /\ Waits(e[1]) /\ Tx0(e[1]) \in cancelled
            /\ \E i \in DOMAIN request[e[1]].boxes : e = Waiter(e[1], i)
            /\ \A f \in Entities : f[1] = e[1] /\ val[f] # Nil => f = e
        BY <1>1, <3>2 DEF ValInv
      <4>2. e[1] \in Threads \ {t} /\ e # Main(t)
        BY <3>2, EntityFacts
      <4> QED BY <1>1, <1>6, <1>8, <1>12, <2>1, <2>2, <3>2, <4>1, <4>2
    <3> QED BY <1>16, <2>3, <3>1, <3>2
  <2>4. ASSUME NEW e \in Entities, pc'[e] = "return" PROVE val'[e] # Nil
    <3>1. e # Main(t) /\ pc[e] = "return" /\ e # h.thr
      BY <1>6, <1>8, <2>4
    <3> QED BY <1>12, <3>1 DEF ValInv
  <2>5. sched'.cur \in Entities /\ pc'[sched'.cur] = "recv" /\ val'[sched'.cur] # Nil
    BY <1>6, <1>7, <1>8, <1>9, <1>12
  <2> QED BY <2>3, <2>4, <2>5 DEF ValInv
<1>18. PlacesInv'
  <2>1. val[h.thr] = Nil
    BY <1>5, <1>6 DEF ValInv
  <2>2. \A e \in Entities \ {h.thr} : Placed(e)' <=> Placed(e)
    BY <1>1, <1>8, <1>12 DEF Placed
  <2>3. \A e \in Entities : Places(sched, e) = One(Placed(e))
    BY DEF PlacesInv, Scheduled
  <2>4. ASSUME NEW e \in Entities, e = h.thr PROVE Places(sched', e) = One(Placed(e)')
    <3>1. ~ Placed(e)
      BY <1>6, <2>1, <2>4 DEF Placed
    <3>2. Placed(e)'
      BY <1>7, <1>12, <2>4 DEF Placed
    <3>3. Places(sched, e) = 0
      BY <2>3, <3>1 DEF One
    <3> QED BY <1>9, <2>4, <3>2, <3>3 DEF One
  <2>5. ASSUME NEW e \in Entities, e # h.thr PROVE Places(sched', e) = One(Placed(e)')
    <3>1. Places(sched', e) = Places(sched, e) + 0
      BY <1>9, <2>5 DEF One
    <3>2. Places(sched, e) = One(Placed(e)) /\ Places(sched, e) \in Nat
      BY <2>3 DEF One
    <3> QED BY <2>2, <2>5, <3>1, <3>2 DEF One
  <2> QED BY <2>4, <2>5 DEF PlacesInv, Scheduled, One
<1>19. BlockedInv'
  <2>1. \A v \in Threads : v # t /\ Tx0(v) \in cancelled' /\ Tx0(v) \notin cancelled =>
          \E e \in Entities : e[1] = v /\ val'[e] # Nil
    <3> SUFFICES ASSUME NEW v \in Threads, Tx0(v) = h.tx PROVE h.thr[1] = v
      BY <1>1, <1>6, <1>7, <1>12
    <3> QED BY <1>6 DEF Tx0
  <2>2. \A e \in Entities : e[1] # t /\ val[e] # Nil => val'[e] # Nil
    BY <1>7, <1>12
  <2> QED BY <1>1, <1>8, <1>14, <2>1, <2>2, BlockedStep
<1>20. QueueNeverEmpty'
  BY <1>10 DEF QueueNeverEmpty
<1> QED BY <1>8, <1>13, <1>15, <1>17, <1>18, <1>19, <1>20

\* The items a blocking receive leaves in a mailbox: one for each of its events there.
LEMMA NewItemsFacts ==
  ASSUME Types, NEW t \in Threads, ops[t] > 0, NEW m \in Boxes
  PROVE  /\ NewItems(t, m) \in Seq(Items)
         /\ \A k \in DOMAIN NewItems(t, m) :
              \E i \in DOMAIN request[t].boxes :
                request[t].boxes[i] = m /\ NewItems(t, m)[k] = Item(t, i)
         /\ \A i \in DOMAIN request[t].boxes : request[t].boxes[i] = m =>
              \E k \in DOMAIN NewItems(t, m) : NewItems(t, m)[k] = Item(t, i)
<1> DEFINE n == Len(request[t].boxes)
           p == [k \in 1..n |-> n + 1 - k]
           S == {i \in 1..n : request[t].boxes[i] = m}
           index == Among(p, S)
<1>1. n \in Nat /\ DOMAIN request[t].boxes = 1..n
  BY RequestFacts
<1>2. \A i \in 1..n : Item(t, i) \in Items
  BY <1>1, RequestFacts
<1> HIDE DEF n
<1>3. p \in Seq(1..n) /\ Len(p) = n /\ \A k \in 1..n : p[k] = n + 1 - k
  BY <1>1
<1> HIDE DEF p
<1>4. index \in Seq((1..n) \cap S) /\ Selects(p, S, n, index)
  <2> HIDE DEF S
  <2> QED BY <1>3, AmongElements
<1> HIDE DEF index
<1>5. NewItems(t, m) = [k \in DOMAIN index |-> Item(t, index[k])]
  BY DEF NewItems, index, S, p, n
<1>6. DOMAIN index = 1..Len(index) /\ Len(index) \in Nat /\ \A k \in DOMAIN index : index[k] \in S
  BY <1>4
<1>7. \A i \in S : \E k \in DOMAIN index : index[k] = i
  <2> SUFFICES ASSUME NEW i \in S PROVE \E k \in DOMAIN index : index[k] = i
    OBVIOUS
  <2>1. i \in 1..n /\ n + 1 - i \in 1..n /\ p[n + 1 - i] = i
    BY <1>1, <1>3
  <2> HIDE DEF S
  <2> QED BY <2>1, <1>4 DEF Selects
<1>8. NewItems(t, m) \in Seq(Items) /\ DOMAIN NewItems(t, m) = DOMAIN index
  <2>1. \A k \in 1..Len(index) : Item(t, index[k]) \in Items
    BY <1>2, <1>6
  <2> HIDE DEF S
  <2> QED BY <1>5, <1>6, <2>1
<1> QED BY <1>1, <1>5, <1>6, <1>7, <1>8

LEMMA BlockStep ==
  ASSUME MailboxInv, NEW t \in Threads, Block(t)
  PROVE  MailboxInv'
<1> USE DEF MailboxInv
<1> DEFINE D == DOMAIN request[t].boxes
           W == {Waiter(t, i) : i \in D}
<1>1. /\ cancelled' = cancelled /\ ops' = ops /\ request' = request /\ val' = val
      /\ result' = result
      /\ sched.atomic = 0 /\ pc[Main(t)] = "sync" /\ sched.cur = Main(t)
      /\ Ready(t) = {}
      /\ state' = [n \in Boxes |->
           IF n \in BoxesOf(t) THEN EMPTY(state[n].q \o NewItems(t, n)) ELSE state[n]]
      /\ pc' = [e \in Entities |->
           IF e \in W THEN "recv" ELSE IF e = Main(t) THEN "helped" ELSE pc[e]]
      /\ sched' = atomicSwitchToNext([atomicBegin(sched) EXCEPT !.marked = @ \cup W])
  <2>1. \A e \in Entities : (\E i \in D : e = Waiter(t, i)) <=> e \in W
    OBVIOUS
  <2> QED BY <2>1 DEF Block, Receives, Runs
<1>2. /\ ops[t] > 0 /\ Tx0(t) \in Tx /\ Tx0(t) \notin cancelled /\ result[Tx0(t)] = Nil
      /\ \A e \in Entities : e[1] = t /\ e # Main(t) => pc[e] \in {"recv", "none"}
      /\ \A e \in Entities : e[1] = t => val[e] = Nil
      /\ ~ Waits(t)
  BY <1>1, AtSync
<1>3. /\ D = 1..Len(request[t].boxes) /\ Len(request[t].boxes) \in 1..Fan
      /\ \A i \in D : /\ request[t].boxes[i] \in Boxes /\ Waiter(t, i) \in Entities
                      /\ Waiter(t, i)[1] = t
  BY <1>2, RequestFacts
<1>4. W \subseteq Entities /\ \A e \in W : e[1] = t
  BY <1>3
<1>5. Main(t) \in W <=> Len(request[t].boxes) = 1
  <2>1. CASE Len(request[t].boxes) = 1
    BY <1>3, <2>1 DEF Waiter
  <2>2. CASE Len(request[t].boxes) # 1
    <3>1. Len(request[t].boxes) > 1
      <4>1. \A n \in 1..Fan : n # 1 => n > 1
        OBVIOUS
      <4> HIDE DEF D
      <4> QED BY <1>3, <2>2, <4>1
    <3>2. \A i \in D : Waiter(t, i) = <<t, i>> /\ i \in 1..Fan
      <4>1. \A i \in D : i \in 1..Fan
        BY <1>2, RequestFacts
      <4> HIDE DEF D
      <4> QED BY <3>1, <4>1 DEF Waiter
    <3> QED BY <2>2, <3>2, EntityFacts
  <2> QED BY <2>1, <2>2
<1>6. BoxesOf(t) \subseteq Boxes /\ \A n \in BoxesOf(t) : state[n].is = "EMPTY" /\ state[n].q \in Seq(Items)
  <2>1. BoxesOf(t) \subseteq Boxes
    BY <1>3 DEF BoxesOf
  <2> QED BY <1>1, <2>1 DEF Ready, Types
<1> HIDE DEF W
<1>7. /\ \A e \in W : pc'[e] = "recv"
      /\ Main(t) \notin W => pc'[Main(t)] = "helped"
      /\ \A e \in Entities : e \notin W /\ e # Main(t) => pc'[e] = pc[e]
  BY <1>1, <1>4, EntityFacts
<1>8. OnlyMoves(t)
  BY <1>1, <1>4, <1>7, EntityFacts DEF OnlyMoves
<1>9. Waits(t)' /\ pc'[Main(t)] \in {"recv", "helped"}
  BY <1>7 DEF Waits
<1>10. /\ \A n \in Boxes \ BoxesOf(t) : state'[n] = state[n]
       /\ \A n \in BoxesOf(t) : state'[n].is = "EMPTY" /\ state'[n].q = state[n].q \o NewItems(t, n)
  BY <1>1, <1>6 DEF EMPTY
<1>11. \A n \in BoxesOf(t) :
         state'[n].q \in Seq(Items) /\ Joins(state[n].q, NewItems(t, n), state'[n].q)
  <2> SUFFICES ASSUME NEW n \in BoxesOf(t)
               PROVE  /\ state[n].q \o NewItems(t, n) \in Seq(Items)
                      /\ Joins(state[n].q, NewItems(t, n), state[n].q \o NewItems(t, n))
    BY <1>10
  <2>1. state[n].q \in Seq(Items) /\ NewItems(t, n) \in Seq(Items)
    BY <1>2, <1>6, NewItemsFacts
  <2> QED BY <2>1, ConcatElements
<1>12. state' \in [Boxes -> [is : {"EMPTY"}, q : Seq(Items)] \cup [is : {"NONEMPTY"}, q : Seq(Tx)]]
  <2>1. \A n \in BoxesOf(t) : EMPTY(state[n].q \o NewItems(t, n)) \in [is : {"EMPTY"}, q : Seq(Items)]
    BY <1>10, <1>11 DEF EMPTY
  <2> QED BY <1>1, <2>1 DEF Types
<1>13. /\ sched' \in SchedulerStates(Entities) /\ sched'.atomic = 0
       /\ \A e \in Entities : Places(sched', e) = Places(sched, e) - One(Main(t) = e)
  <2> DEFINE b == atomicBegin(sched)
             w == b.marked \cup W
             r == [b EXCEPT !.marked = w]
  <2>1. /\ b \in SchedulerStates(Entities) /\ b.atomic = 1 /\ b.cur = Main(t)
        /\ \A e : Places(b, e) = Places(sched, e)
    BY <1>1, PlacesBegin DEF Types
  <2>2. sched' = atomicSwitchToNext(r)
    BY <1>1
  <2> HIDE DEF b
  <2>3. w \in SUBSET Entities
    BY <1>4, <2>1 DEF SchedulerStates
  <2> HIDE DEF w
  <2>4. /\ r \in SchedulerStates(Entities) /\ r.atomic = 1 /\ r.cur = Main(t)
        /\ \A e : Places(r, e) = Places(b, e)
    <3>1. \A s : s = r => /\ s \in SchedulerStates(Entities) /\ s.atomic = b.atomic
                          /\ s.cur = b.cur /\ \A e : Places(s, e) = Places(b, e)
      BY <2>1, <2>3, PlacesMarked
    <3> HIDE DEF r
    <3> QED BY <2>1, <3>1
  <2> HIDE DEF r
  <2>5. /\ atomicSwitchToNext(r) \in SchedulerStates(Entities)
        /\ atomicSwitchToNext(r).atomic = r.atomic - 1
        /\ \A e \in Entities : Places(atomicSwitchToNext(r), e) = Places(r, e) - One(r.cur = e)
    BY <2>4, EntityFacts, PlacesSwitchToNext
  <2> QED BY <2>1, <2>2, <2>4, <2>5
<1>14. Types'
  <2>1. pc' \in [Entities -> {"run", "sync", "recv", "helped", "none", "return"}]
    BY <1>1 DEF Types
  <2>2. \A e \in Entities : e[2] = 0 => pc'[e] \notin {"none", "return"}
    BY <1>1 DEF Types
  <2> QED BY <1>1, <1>12, <1>13, <2>1, <2>2 DEF Types
<1>15. OpsInv'
  <2>1. \A u : Tx0(u)' = Tx0(u)
    BY <1>1 DEF Tx0
  <2>2. \A u \in Threads \ {t} : pc'[Main(u)] = pc[Main(u)] /\ (Waits(u)' <=> Waits(u))
    BY <1>4, <1>7, EntityFacts DEF Waits
  <2>3. \A u \in Threads : pc'[Main(u)] # "run" => ops'[u] > 0 /\ result'[Tx0(u)'] = Nil
    BY <1>1, <1>2, <2>1, <2>2 DEF OpsInv
  <2>4. \A u \in Threads : pc'[Main(u)] = "sync" => Tx0(u)' \notin cancelled'
    BY <1>1, <1>9, <2>1, <2>2 DEF OpsInv
  <2>5. \A u \in Threads : Waits(u)' =>
          (pc'[Main(u)] = "recv" <=> Len(request'[u].boxes) = 1)
    BY <1>1, <1>5, <1>7, <2>2 DEF OpsInv
  <2>6. \A e \in Entities : e[2] # 0 => pc'[e] \in {"recv", "none", "return"}
    BY <1>7, EntityFacts DEF OpsInv
  <2> QED BY <1>1, <2>3, <2>4, <2>5, <2>6 DEF OpsInv
<1>16. \A i : Item(t, i)' = Item(t, i) /\ Waiter(t, i)' = Waiter(t, i)
  BY <1>1 DEF Item, Waiter, Tx0
<1>17. ItemsInv'
  <2>1. ASSUME NEW n \in Boxes, NEW item, state'[n].is = "EMPTY", item.tx \notin cancelled',
               \E k \in DOMAIN state'[n].q : state'[n].q[k] = item
        PROVE  \/ /\ state[n].is = "EMPTY" /\ item.tx[1] # t /\ item.tx \notin cancelled
                  /\ \E j \in DOMAIN state[n].q : state[n].q[j] = item
               \/ LiveItem(n, item)'
    <3>1. CASE n \notin BoxesOf(t)
      BY <1>1, <1>2, <1>10, <2>1, <3>1, NoItemsOf
    <3>2. CASE n \in BoxesOf(t)
      <4>1. \/ \E j \in DOMAIN state[n].q : item = state[n].q[j]
            \/ \E j \in DOMAIN NewItems(t, n) : item = NewItems(t, n)[j]
        <5> DEFINE c == state'[n].q
        <5>1. Joins(state[n].q, NewItems(t, n), c) /\ \E k \in DOMAIN c : c[k] = item
          BY <1>11, <2>1, <3>2
        <5> HIDE DEF c
        <5> QED BY <5>1 DEF Joins
      <4>2. CASE \E j \in DOMAIN state[n].q : item = state[n].q[j]
        BY <1>1, <1>2, <1>6, <2>1, <3>2, <4>2, NoItemsOf
      <4>3. CASE \E j \in DOMAIN NewItems(t, n) : item = NewItems(t, n)[j]
        <5>1. PICK i \in D : request[t].boxes[i] = n /\ item = Item(t, i)
          BY <1>2, <4>3, NewItemsFacts
        <5>2. pc'[Waiter(t, i)] = "recv"
          BY <1>7 DEF W
        <5> QED BY <1>1, <1>9, <1>16, <5>1, <5>2 DEF LiveItem
      <4> QED BY <4>1, <4>2, <4>3
    <3> QED BY <3>1, <3>2
  <2> QED BY <1>8, <2>1, ItemsStep
<1>18. \A e \in Entities : e[1] = t => pc'[e] \in {"recv", "helped", "none"}
  BY <1>2, <1>7
<1>19. ValInv'
  <2>1. sched.atomic # 1 /\ cancelled \subseteq cancelled'
    BY <1>1
  <2>2. \A e \in Entities : e[1] # t => val'[e] = val[e]
    BY <1>1
  <2>3. \A e \in Entities : e[1] = t => val'[e] = Nil /\ pc'[e] # "return"
    BY <1>1, <1>2, <1>18
  <2> QED BY <1>8, <1>13, <2>1, <2>2, <2>3, ValStep
<1>20. PlacesInv'
  <2>1. Placed(Main(t)) /\ ~ Placed(Main(t))'
    BY <1>1, <1>2, <1>9, EntityFacts DEF Placed
  <2>2. ASSUME NEW e \in Entities \ {Main(t)} PROVE Placed(e)' <=> Placed(e)
    <3>1. CASE e[1] = t
      BY <1>1, <1>2, <1>18, <3>1 DEF Placed
    <3>2. CASE e[1] # t
      BY <1>1, <1>4, <1>7, <3>2 DEF Placed
    <3> QED BY <3>1, <3>2
  <2>3. \A e \in Entities : Places(sched, e) = One(Placed(e))
    BY DEF PlacesInv, Scheduled
  <2>4. Places(sched', Main(t)) = One(Placed(Main(t))')
    BY <1>13, <2>1, <2>3, EntityFacts DEF One
  <2>5. ASSUME NEW e \in Entities \ {Main(t)} PROVE Places(sched', e) = One(Placed(e)')
    <3>1. Places(sched', e) = Places(sched, e) - 0
      BY <1>13 DEF One
    <3>2. Places(sched, e) = One(Placed(e)) /\ Places(sched, e) \in Nat
      BY <2>3 DEF One
    <3> QED BY <2>2, <3>1, <3>2 DEF One
  <2> QED BY <2>4, <2>5 DEF PlacesInv, Scheduled, One
<1>21. KeepsItems
  <2>1. \A n \in BoxesOf(t) : \A k \in DOMAIN state[n].q :
          \E j \in DOMAIN state'[n].q : state'[n].q[j] = state[n].q[k]
    BY <1>11 DEF Joins
  <2> QED BY <1>10, <2>1 DEF KeepsItems
<1>22. Pending(t)'
  <2>1. ASSUME NEW i \in D
        PROVE  /\ state'[request[t].boxes[i]].is = "EMPTY"
               /\ \E k \in DOMAIN state'[request[t].boxes[i]].q :
                    state'[request[t].boxes[i]].q[k] = Item(t, i)
    <3> DEFINE n == request[t].boxes[i]
    <3>1. n \in BoxesOf(t) /\ n \in Boxes
      BY <1>3 DEF BoxesOf
    <3>2. \E k \in DOMAIN NewItems(t, n) : NewItems(t, n)[k] = Item(t, i)
      BY <1>2, <3>1, NewItemsFacts
    <3> HIDE DEF n
    <3>3. /\ state'[n].is = "EMPTY"
          /\ \E k \in DOMAIN state'[n].q : state'[n].q[k] = Item(t, i)
      <4>1. Joins(state[n].q, NewItems(t, n), state'[n].q)
        BY <1>11, <3>1
      <4>2. \A k \in DOMAIN NewItems(t, n) :
              \E j \in DOMAIN state'[n].q : state'[n].q[j] = NewItems(t, n)[k]
        BY <4>1 DEF Joins
      <4> QED BY <1>10, <3>1, <3>2, <4>2
    <3> QED BY <3>3 DEF n
  <2> QED BY <1>1, <1>2, <1>16, <2>1 DEF Pending, Tx0
<1>23. BlockedInv'
  <2>1. Tx0(t)' \notin cancelled'
    BY <1>1, <1>2 DEF Tx0
  <2> QED BY <1>1, <1>8, <1>21, <1>22, <2>1, BlockedStep
<1>24. QueueNeverEmpty'
  BY <1>6, <1>10 DEF QueueNeverEmpty
<1> QED BY <1>14, <1>15, <1>17, <1>19, <1>20, <1>23, <1>24

\* A receiver returns with the message it has been given.
LEMMA FinishStep ==
  ASSUME MailboxInv, NEW e \in Entities, NEW t \in Threads, e[1] = t, val[e] # Nil,
         OnlyMoves(t), pc'[Main(t)] = "run", result' = Given(e),
         val' = [val EXCEPT ![e] = Nil], state' = state, cancelled' = cancelled,
         ops' = ops, request' = request,
         sched.atomic = 1 => sched.cur[1] = t,
         sched' \in SchedulerStates(Entities), sched'.atomic = 0,
         pc' \in [Entities -> {"run", "sync", "recv", "helped", "none", "return"}],
         \A f \in Entities : f[2] = 0 => pc'[f] \notin {"none", "return"},
         \A f \in Entities : f[2] # 0 => pc'[f] \in {"recv", "none", "return"},
         \A f \in Entities : f[1] = t => pc'[f] # "return"
  PROVE  Types' /\ OpsInv' /\ ItemsInv' /\ ValInv' /\ BlockedInv' /\ QueueNeverEmpty'
<1> USE DEF MailboxInv
<1>1. /\ Waits(t) /\ Tx0(t) \in cancelled
      /\ \E i \in DOMAIN request[t].boxes : e = Waiter(t, i)
      /\ \A f \in Entities : f[1] = t /\ val[f] # Nil => f = e
  BY DEF ValInv
<1>2. ops[t] > 0 /\ Tx0(t) \in Tx /\ result[Tx0(t)] = Nil
  BY <1>1, WaitingFacts
<1>3. Box(e) \in Boxes /\ val[e] \in Tx
  BY <1>1, <1>2, RequestFacts DEF Types
<1>4. /\ result'[Tx0(t)] = [box |-> Box(e), val |-> val[e]]
      /\ \A x \in Tx \ {Tx0(t)} : result'[x] = result[x]
      /\ result' \in [Tx -> {Nil} \cup [box : Boxes, val : Tx \cup {Nil}]]
  BY <1>2, <1>3 DEF Given, Types
<1>5. /\ val' \in [Entities -> Tx \cup {Nil}] /\ val'[e] = Nil
      /\ \A f \in Entities \ {e} : val'[f] = val[f]
  BY DEF Types
<1>6. ~ Waits(t)' /\ \A f \in Entities : f[1] = t => val'[f] = Nil
  BY <1>1, <1>5 DEF Waits
<1>7. \A u \in Threads \ {t} : pc'[Main(u)] = pc[Main(u)] /\ (Waits(u)' <=> Waits(u))
  BY EntityFacts DEF OnlyMoves, Waits
<1>8. \A u \in Threads : Tx0(u)' = Tx0(u) /\ Tx0(u)[1] = u
  BY DEF Tx0
<1>9. Types'
  BY <1>4, <1>5 DEF Types
<1>10. OpsInv'
  <2>1. \A x \in cancelled' : x[2] <= ops'[x[1]]
    BY DEF OpsInv
  <2>2. \A x \in Tx : result'[x] # Nil => x[2] <= ops'[x[1]]
    <3>1. Tx0(t)[2] <= ops[Tx0(t)[1]]
      BY RequestsAssumption DEF Tx0, Types
    <3> QED BY <1>4, <3>1 DEF OpsInv
  <2>3. \A u \in Threads : pc'[Main(u)] # "run" => ops'[u] > 0 /\ result'[Tx0(u)'] = Nil
    <3> SUFFICES ASSUME NEW u \in Threads \ {t}, pc[Main(u)] # "run"
                 PROVE  ops[u] > 0 /\ result'[Tx0(u)] = Nil
      BY <1>7, <1>8
    <3>1. ops[u] > 0 /\ result[Tx0(u)] = Nil
      BY DEF OpsInv
    <3>2. Tx0(u) \in Tx \ {Tx0(t)}
      BY <1>8, <3>1, RequestFacts
    <3> QED BY <1>4, <3>1, <3>2
  <2>4. \A u \in Threads : pc'[Main(u)] = "sync" => Tx0(u)' \notin cancelled'
    BY <1>7, <1>8 DEF OpsInv
  <2>5. \A u \in Threads : Waits(u)' =>
          (pc'[Main(u)] = "recv" <=> Len(request'[u].boxes) = 1)
    BY <1>6, <1>7 DEF OpsInv
  <2> QED BY <2>1, <2>2, <2>3, <2>4, <2>5 DEF OpsInv
<1>11. ItemsInv'
  <2>1. \A m \in Boxes : \A item :
          /\ state[m].is = "EMPTY" /\ item.tx \notin cancelled
          /\ \E k \in DOMAIN state[m].q : state[m].q[k] = item
          => item.tx[1] # t
    BY <1>1, NoItemsOf
  <2> QED BY <2>1, ItemsStep
<1>12. ValInv'
  BY <1>5, <1>6, ValStep
<1>13. BlockedInv'
  <2>1. KeepsItems
    BY DEF KeepsItems
  <2> QED BY <1>5, <1>6, <2>1, BlockedStep
<1>14. QueueNeverEmpty'
  BY DEF QueueNeverEmpty
<1> QED BY <1>9, <1>10, <1>11, <1>12, <1>13, <1>14

LEMMA ResumeStep ==
  ASSUME MailboxInv, NEW e \in Entities, Resume(e)
  PROVE  MailboxInv'
<1> USE DEF MailboxInv
<1> DEFINE t == e[1]
<1>1. /\ sched.cur = e /\ pc[e] = "recv" /\ sched.atomic = 1 /\ sched' = atomicEnd(sched)
      /\ state' = state /\ cancelled' = cancelled /\ ops' = ops /\ request' = request
  BY DEF Resume, Runs
<1>2. /\ t \in Threads /\ val[e] # Nil /\ Waits(t) /\ Tx0(t) \in cancelled
      /\ \A f \in Entities : f[1] = t /\ val[f] # Nil => f = e
      /\ \E i \in DOMAIN request[t].boxes : e = Waiter(t, i)
  BY <1>1, EntityFacts DEF ValInv
<1>3. /\ sched' \in SchedulerStates(Entities) /\ sched'.atomic = 0
      /\ \A f \in Entities : Places(sched', f) = Places(sched, f)
  BY <1>1, PlacesEnd DEF Types
<1>4. CASE e[2] = 0
  <2>1. /\ pc' = [pc EXCEPT ![e] = "run"] /\ result' = Given(e)
        /\ val' = [val EXCEPT ![e] = Nil]
    BY <1>4 DEF Resume
  <2>2. /\ pc'[e] = "run" /\ \A f \in Entities \ {e} : pc'[f] = pc[f]
        /\ pc' \in [Entities -> {"run", "sync", "recv", "helped", "none", "return"}]
        /\ \A f \in Entities \ {e} : val'[f] = val[f]
    BY <2>1 DEF Types
  <2>3. e = Main(t)
    BY <1>4, EntityFacts
  <2>4. OnlyMoves(t)
    BY <1>1, <2>2 DEF OnlyMoves
  <2>5. \A f \in Entities : f[1] = t => pc'[f] # "return"
    BY <1>2, <2>2 DEF ValInv
  <2>6. /\ \A f \in Entities : f[2] = 0 => pc'[f] \notin {"none", "return"}
        /\ \A f \in Entities : f[2] # 0 => pc'[f] \in {"recv", "none", "return"}
    BY <1>4, <2>2 DEF Types, OpsInv
  <2>7. Types' /\ OpsInv' /\ ItemsInv' /\ ValInv' /\ BlockedInv' /\ QueueNeverEmpty'
    <3>1. sched.cur[1] = t /\ pc'[Main(t)] = "run" /\ e[1] = t
      BY <1>1, <2>2, <2>3
    <3> HIDE DEF t
    <3> QED BY <1>1, <1>2, <1>3, <2>1, <2>2, <2>4, <2>5, <2>6, <3>1, FinishStep
  <2>8. PlacesInv'
    <3>1. \A f \in Entities : Placed(f)' <=> Placed(f)
      BY <1>2, <2>2 DEF Placed
    <3> QED BY <1>3, <3>1 DEF PlacesInv, Scheduled, One
  <2> QED BY <2>7, <2>8
<1>5. CASE e[2] # 0
  <2>1. pc' = [pc EXCEPT ![e] = "return"] /\ result' = result /\ val' = val
    BY <1>5 DEF Resume
  <2>2. /\ pc'[e] = "return" /\ \A f \in Entities \ {e} : pc'[f] = pc[f]
        /\ pc' \in [Entities -> {"run", "sync", "recv", "helped", "none", "return"}]
    BY <2>1 DEF Types
  <2>3. OnlyMoves(t)
    BY <1>1, <2>2 DEF OnlyMoves
  <2>4. \A u \in Threads : pc'[Main(u)] = pc[Main(u)] /\ (Waits(u)' <=> Waits(u))
    BY <1>5, <2>2, EntityFacts DEF Waits
  <2>5. Types'
    BY <1>1, <1>3, <1>5, <2>1, <2>2 DEF Types
  <2>6. \A u \in Threads : Tx0(u)' = Tx0(u) /\ \A i : Waiter(u, i)' = Waiter(u, i)
    BY <1>1 DEF Tx0, Waiter
  <2>7. OpsInv'
    BY <1>1, <1>5, <2>1, <2>2, <2>4, <2>6 DEF OpsInv
  <2>8. ItemsInv'
    BY <1>1, <1>2, <2>3, NoItemsOf, ItemsStep
  <2>9. ValInv'
    <3>1. ASSUME NEW f \in Entities, val[f] # Nil PROVE pc'[f] = "return"
      BY <1>1, <2>2, <3>1 DEF ValInv
    <3>2. ASSUME NEW f \in Entities, val[f] # Nil
          PROVE  /\ Waits(f[1])' /\ Tx0(f[1])' \in cancelled'
                 /\ \E i \in DOMAIN request'[f[1]].boxes : f = Waiter(f[1], i)'
                 /\ \A g \in Entities : g[1] = f[1] /\ val[g] # Nil => g = f
      <4>1. /\ f[1] \in Threads /\ Waits(f[1]) /\ Tx0(f[1]) \in cancelled
            /\ \E i \in DOMAIN request[f[1]].boxes : f = Waiter(f[1], i)
            /\ \A g \in Entities : g[1] = f[1] /\ val[g] # Nil => g = f
        BY <3>2, EntityFacts DEF ValInv
      <4> QED BY <1>1, <2>4, <2>6, <4>1
    <3>3. ASSUME NEW f \in Entities, pc'[f] = "return" PROVE val[f] # Nil
      BY <1>2, <2>2, <3>3 DEF ValInv
    <3> QED BY <1>3, <2>1, <3>1, <3>2, <3>3 DEF ValInv
  <2>10. PlacesInv'
    <3>1. \A f \in Entities : Placed(f)' <=> Placed(f)
      BY <1>2, <2>1, <2>2 DEF Placed
    <3> QED BY <1>3, <3>1 DEF PlacesInv, Scheduled, One
  <2>11. BlockedInv'
    <3>1. KeepsItems
      BY <1>1 DEF KeepsItems
    <3>2. (IF Tx0(t) \in cancelled THEN GivenTo(t) # {} ELSE Pending(t))'
      BY <1>1, <1>2, <2>1, <2>6 DEF GivenTo
    <3> QED BY <1>1, <1>2, <2>1, <2>3, <3>1, <3>2, BlockedStep
  <2>12. QueueNeverEmpty'
    BY <1>1 DEF QueueNeverEmpty
  <2> QED BY <2>5, <2>7, <2>8, <2>9, <2>10, <2>11, <2>12
<1> QED BY <1>4, <1>5

LEMMA HelperReturnsStep ==
  ASSUME MailboxInv, NEW e \in Entities, HelperReturns(e)
  PROVE  MailboxInv'
<1> USE DEF MailboxInv
<1> DEFINE t == e[1]
           h == Main(t)
<1>1. /\ sched.cur = e /\ pc[e] = "return" /\ sched.atomic = 0 /\ sched' = switch(sched, h)
      /\ pc' = [pc EXCEPT ![e] = "none", ![h] = "run"]
      /\ result' = Given(e) /\ val' = [val EXCEPT ![e] = Nil]
      /\ state' = state /\ cancelled' = cancelled /\ ops' = ops /\ request' = request
  BY DEF HelperReturns, Runs
<1>2. /\ t \in Threads /\ val[e] # Nil /\ Waits(t)
      /\ \A f \in Entities : f[1] = t /\ val[f] # Nil => f = e
  BY <1>1, EntityFacts DEF ValInv
<1>3. e[2] # 0 /\ h \in Entities /\ h # e /\ h[1] = t /\ h[2] = 0
  BY <1>1, <1>2, EntityFacts DEF Types
<1>4. /\ pc'[e] = "none" /\ pc'[h] = "run" /\ \A f \in Entities \ {e, h} : pc'[f] = pc[f]
      /\ pc' \in [Entities -> {"run", "sync", "recv", "helped", "none", "return"}]
      /\ val'[e] = Nil /\ \A f \in Entities \ {e} : val'[f] = val[f]
  BY <1>1, <1>3 DEF Types
<1>5. /\ sched' \in SchedulerStates(Entities) /\ sched'.atomic = 0
      /\ \A f \in Entities : Places(sched', f) = Places(sched, f) - One(e = f) + One(h = f)
  <2> DEFINE b == atomicBegin(sched)
  <2>1. /\ b \in SchedulerStates(Entities) /\ b.atomic = 1 /\ b.cur = e
        /\ \A f : Places(b, f) = Places(sched, f)
    BY <1>1, PlacesBegin DEF Types
  <2>2. sched' = atomicSwitch(b, h)
    BY <1>1 DEF switch
  <2> HIDE DEF b, h
  <2>3. /\ atomicSwitch(b, h) \in SchedulerStates(Entities)
        /\ atomicSwitch(b, h).atomic = b.atomic - 1
        /\ \A f : Places(atomicSwitch(b, h), f) = Places(b, f) - One(b.cur = f) + One(h = f)
    BY <1>3, <2>1, PlacesSwitch
  <2> QED BY <2>1, <2>2, <2>3
<1>6. OnlyMoves(t)
  BY <1>1, <1>3, <1>4 DEF OnlyMoves
<1>7. \A f \in Entities : f[1] = t => pc'[f] # "return"
  BY <1>2, <1>4 DEF ValInv
<1>8. /\ \A f \in Entities : f[2] = 0 => pc'[f] \notin {"none", "return"}
      /\ \A f \in Entities : f[2] # 0 => pc'[f] \in {"recv", "none", "return"}
  BY <1>3, <1>4 DEF Types, OpsInv
<1>9. Types' /\ OpsInv' /\ ItemsInv' /\ ValInv' /\ BlockedInv' /\ QueueNeverEmpty'
  BY <1>1, <1>2, <1>4, <1>5, <1>6, <1>7, <1>8, FinishStep
<1>10. PlacesInv'
  <2>1. Placed(e) /\ ~ Placed(e)' /\ Placed(h)'
    BY <1>1, <1>4 DEF Placed
  <2>2. ~ Placed(h)
    BY <1>2, <1>3 DEF Placed, Waits
  <2>3. \A f \in Entities \ {e, h} : Placed(f)' <=> Placed(f)
    BY <1>4 DEF Placed
  <2>4. \A f \in Entities : Places(sched, f) = One(Placed(f))
    BY DEF PlacesInv, Scheduled
  <2> HIDE DEF h
  <2>5. ASSUME NEW f \in Entities PROVE Places(sched', f) = One(Placed(f)')
    <3>1. CASE f = e
      BY <1>3, <1>5, <2>1, <2>4, <3>1 DEF One
    <3>2. CASE f = h
      BY <1>3, <1>5, <2>1, <2>2, <2>4, <3>2 DEF One
    <3>3. CASE f # e /\ f # h
      <4>1. Places(sched', f) = Places(sched, f) - 0 + 0
        BY <1>5, <3>3 DEF One
      <4>2. Places(sched, f) = One(Placed(f)) /\ Places(sched, f) \in Nat
        BY <2>4 DEF One
      <4> QED BY <2>3, <3>3, <4>1, <4>2 DEF One
    <3> QED BY <3>1, <3>2, <3>3
  <2> QED BY <2>5 DEF PlacesInv, Scheduled, One
<1> QED BY <1>9, <1>10

LEMMA SameItems ==
  ASSUME ItemsInv, UNCHANGED <<state, cancelled, ops, request, pc>>
  PROVE  ItemsInv'
<1>1. \A m, item : LiveItem(m, item) =>
        \E u \in Threads :
          /\ pc'[Main(u)] \in {"recv", "helped"}
          /\ \E i \in DOMAIN request'[u].boxes :
               /\ request'[u].boxes[i] = m /\ item = Item(u, i)'
               /\ pc'[Waiter(u, i)'] = "recv"
  BY DEF LiveItem, Waits, Item, Waiter, Tx0
<1>2. ASSUME NEW m \in Boxes, state'[m].is = "EMPTY", NEW k \in DOMAIN state'[m].q,
             state'[m].q[k].tx \notin cancelled'
      PROVE  LiveItem(m, state[m].q[k])'
  <2>1. LiveItem(m, state[m].q[k])
    BY <1>2 DEF ItemsInv, Live
  <2> QED BY <1>1, <2>1 DEF LiveItem, Waits
<1> QED BY <1>2 DEF ItemsInv, Live

LEMMA PreemptStep ==
  ASSUME MailboxInv, Preempt
  PROVE  MailboxInv'
<1> USE DEF MailboxInv
<1>1. /\ sched.cur \in Entities /\ sched.atomic = 0 /\ sched' = alrmHandler(sched)
      /\ UNCHANGED <<state, cancelled, ops, request, pc, val, result>>
  BY DEF Preempt, Types, SchedulerStates
<1>2. /\ sched' \in SchedulerStates(Entities) /\ sched'.atomic = 0
      /\ \A e \in Entities : Places(sched', e) = Places(sched, e)
  BY <1>1, EntityFacts, PlacesPreempt DEF Types
<1>3. Types'
  BY <1>1, <1>2 DEF Types
<1>4. OpsInv'
  BY <1>1 DEF OpsInv, Tx0, Waits
<1>5. ItemsInv'
  BY <1>1, SameItems
<1>6. ValInv'
  BY <1>1, <1>2 DEF ValInv, Waits, Tx0, Waiter
<1>7. PlacesInv'
  BY <1>1, <1>2 DEF PlacesInv, Scheduled, Placed, One
<1>8. BlockedInv'
  BY <1>1 DEF BlockedInv, Waits, GivenTo, Pending, Item, Tx0, Waiter
<1>9. QueueNeverEmpty'
  BY <1>1 DEF QueueNeverEmpty
<1> QED BY <1>3, <1>4, <1>5, <1>6, <1>7, <1>8, <1>9

LEMMA StutterStep ==
  ASSUME MailboxInv, UNCHANGED vars
  PROVE  MailboxInv'
<1> USE DEF MailboxInv, vars
<1>1. Types' /\ QueueNeverEmpty'
  BY DEF Types, QueueNeverEmpty
<1>2. OpsInv'
  BY DEF OpsInv, Tx0, Waits
<1>3. ItemsInv'
  BY SameItems
<1>4. ValInv'
  BY DEF ValInv, Waits, Tx0, Waiter
<1>5. PlacesInv'
  BY DEF PlacesInv, Scheduled, Placed, One
<1>6. BlockedInv'
  BY DEF BlockedInv, Waits, GivenTo, Pending, Item, Tx0, Waiter
<1> QED BY <1>1, <1>2, <1>3, <1>4, <1>5, <1>6

LEMMA InvariantStep ==
  ASSUME MailboxInv, [Next]_vars
  PROVE  MailboxInv'
<1>1. ASSUME NEW t \in Threads,
             \/ \E r \in Requests[t] : Evaluate(t, r)
             \/ SendToReceiver(t) \/ SendFirst(t) \/ SendNext(t)
             \/ GetMsg(t) \/ PollFails(t) \/ Block(t)
      PROVE  MailboxInv'
  BY <1>1, EvaluateStep, SendToReceiverStep, SendFirstStep, SendNextStep, GetMsgStep,
     PollFailsStep, BlockStep
<1>2. ASSUME NEW e \in Entities, Resume(e) \/ HelperReturns(e) PROVE MailboxInv'
  BY <1>2, ResumeStep, HelperReturnsStep
<1> QED BY <1>1, <1>2, PreemptStep, StutterStep DEF Next, Step

-----------------------------------------------------------------------------
(***************************************************************************)
(* Whatever the number of threads, mailboxes and operations, and whenever  *)
(* a thread is preempted: between critical sections every thread has one   *)
(* place, a thread that waits has a live item in all its mailboxes, and a  *)
(* NONEMPTY mailbox has a message.                                         *)
(***************************************************************************)
LEMMA MailboxInvariant == Spec => []MailboxInv
<1>1. Init => MailboxInv
  BY InitInv
<1>2. MailboxInv /\ [Next]_vars => MailboxInv'
  BY InvariantStep
<1> QED BY <1>1, <1>2, PTL DEF Spec

THEOREM MailboxSchedulingOk == Spec => []SchedulingOk
<1>1. MailboxInv => SchedulingOk
  BY InvImpliesOk
<1> QED BY <1>1, MailboxInvariant, PTL

-----------------------------------------------------------------------------
(***************************************************************************)
(* Mailboxes implement CmlFifo.                                            *)
(***************************************************************************)
Contents == [m \in Boxes |-> Messages(m)]
Outcomes == [x \in Tx |-> Completed(x)]
FifoStep == [Fifo!FifoNext]_(Fifo!fifoVars)

\* What an operation has completed with: what it has returned, or the message its
\* thread has been given.
OutcomesOk ==
  /\ \A x \in Tx : x # Tx0(x[1]) \/ (\A e \in Entities : e[1] = x[1] => val[e] = Nil)
                   => Completed(x) = result[x]
  /\ \A e \in Entities, x \in Tx : val[e] # Nil /\ x = Tx0(e[1])
                   => Completed(x) = [box |-> Box(e), val |-> val[e]]

LEMMA CompletedFacts == MailboxInv => OutcomesOk
<1> SUFFICES ASSUME MailboxInv PROVE OutcomesOk
  OBVIOUS
<1>1. ASSUME NEW x \in Tx, x # Tx0(x[1]) \/ (\A e \in Entities : e[1] = x[1] => val[e] = Nil)
      PROVE  Completed(x) = result[x]
  <2>1. x = <<x[1], x[2]>>
    BY DEF Tx
  <2>2. ~ (x[2] = ops[x[1]] /\ GivenTo(x[1]) # {})
    BY <1>1, <2>1 DEF Tx0, GivenTo
  <2> QED BY <2>2 DEF Completed
<1>2. ASSUME NEW e \in Entities, NEW x \in Tx, val[e] # Nil, x = Tx0(e[1])
      PROVE  Completed(x) = [box |-> Box(e), val |-> val[e]]
  <2>1. e[1] \in Threads /\ Waits(e[1]) /\ \A f \in Entities : f[1] = e[1] /\ val[f] # Nil => f = e
    BY <1>2, EntityFacts DEF MailboxInv, ValInv
  <2>2. result[x] = Nil
    BY <1>2, <2>1, WaitingFacts
  <2>3. x[1] = e[1] /\ x[2] = ops[x[1]] /\ GivenTo(e[1]) = {e}
    BY <1>2, <2>1 DEF Tx0, GivenTo
  <2>4. (CHOOSE f \in GivenTo(e[1]) : TRUE) = e
    BY <2>3
  <2> QED BY <2>2, <2>3, <2>4 DEF Completed
<1> QED BY <1>1, <1>2 DEF OutcomesOk

LEMMA RecordNotNil ==
  ASSUME NEW m \in Boxes, NEW msg \in Tx \cup {Nil}
  PROVE  [box |-> m, val |-> msg] # Nil
<1>1. msg \in (Threads \X Nat) \cup {Nil}
  BY RequestsAssumption DEF Tx
<1> QED BY <1>1, RequestsAssumption

\* A stuttering step of CmlFifo.
LEMMA FifoStutters ==
  ASSUME Contents' = Contents, Outcomes' = Outcomes
  PROVE  FifoStep
BY DEF FifoStep, Fifo!fifoVars, Contents, Outcomes

\* A thread that moves gives the other threads no outcome, unless it gives them a message.
LEMMA OutcomesOfOthers ==
  ASSUME MailboxInv, MailboxInv', OutcomesOk, OutcomesOk', NEW t \in Threads, OnlyMoves(t),
         NEW x \in Tx, x[1] # t, result'[x] = result[x],
         \A e \in Entities : e[1] = x[1] => val'[e] = val[e]
  PROVE  Completed(x)' = Completed(x)
<1>1. x[1] \in Threads
  BY DEF Tx
<1>2. ops'[x[1]] = ops[x[1]] /\ request'[x[1]] = request[x[1]]
  BY <1>1 DEF OnlyMoves
<1>3. CASE x # Tx0(x[1]) \/ \A e \in Entities : e[1] = x[1] => val[e] = Nil
  <2>1. Completed(x) = result[x]
    BY <1>3 DEF OutcomesOk
  <2>2. Completed(x)' = result'[x]
    BY <1>2, <1>3 DEF OutcomesOk, Tx0
  <2> QED BY <2>1, <2>2
<1>4. ASSUME NEW e \in Entities, e[1] = x[1], val[e] # Nil, x = Tx0(x[1])
      PROVE  Completed(x)' = Completed(x)
  <2>1. Completed(x) = [box |-> Box(e), val |-> val[e]]
    BY <1>4 DEF OutcomesOk
  <2>2. Completed(x)' = [box |-> Box(e)', val |-> val'[e]]
    <3>1. val'[e] # Nil /\ x = Tx0(e[1])'
      BY <1>2, <1>4 DEF Tx0
    <3> QED BY <3>1 DEF OutcomesOk
  <2>3. Box(e)' = Box(e)
    BY <1>2, <1>4 DEF Box
  <2> QED BY <1>4, <2>1, <2>2, <2>3
<1> QED BY <1>3, <1>4

\* An operation that returns at once has its outcome then, and nobody else has one.
LEMMA OutcomeOfReturn ==
  ASSUME MailboxInv, MailboxInv', OutcomesOk, OutcomesOk',
         NEW t \in Threads, pc[Main(t)] = "sync", NEW m \in Boxes, NEW msg \in Tx \cup {Nil},
         Return(t, m, msg), ops' = ops, request' = request, cancelled' = cancelled, val' = val
  PROVE  /\ Tx0(t) \in Tx /\ Outcomes[Tx0(t)] = Nil
         /\ Outcomes' = [Outcomes EXCEPT ![Tx0(t)] = [box |-> m, val |-> msg]]
         /\ Outcomes'[Tx0(t)] # Nil
<1> DEFINE y == Tx0(t)
<1>1. /\ y \in Tx /\ y[1] = t /\ result[y] = Nil
      /\ \A e \in Entities : e[1] = t => val[e] = Nil
  BY AtSync DEF Tx0
<1>2. /\ OnlyMoves(t) /\ \A x \in Tx \ {y} : result'[x] = result[x]
      /\ result'[y] = [box |-> m, val |-> msg]
  BY ReturnStep
<1>3. Completed(y) = Nil
  BY <1>1 DEF OutcomesOk
<1>4. \A x \in Tx : x[1] = t => Completed(x)' = result'[x] /\ Completed(x) = result[x]
  BY <1>1 DEF OutcomesOk
<1> HIDE DEF y
<1>5. \A x \in Tx : Completed(x)' = IF x = y THEN [box |-> m, val |-> msg] ELSE Completed(x)
  <2> SUFFICES ASSUME NEW x \in Tx
               PROVE  Completed(x)' = IF x = y THEN [box |-> m, val |-> msg] ELSE Completed(x)
    OBVIOUS
  <2>1. CASE x[1] = t
    BY <1>2, <1>4, <2>1
  <2>2. CASE x[1] # t
    BY <1>1, <1>2, <2>2, OutcomesOfOthers
  <2> QED BY <2>1, <2>2
<1>6. /\ Outcomes[y] = Nil
      /\ Outcomes' = [Outcomes EXCEPT ![y] = [box |-> m, val |-> msg]]
      /\ Outcomes'[y] # Nil
  BY <1>1, <1>3, <1>5, RecordNotNil DEF Outcomes
<1> QED BY <1>1, <1>6 DEF y

LEMMA SendQueues ==
  ASSUME MailboxInv, MailboxInv', OutcomesOk, OutcomesOk', NEW t \in Threads,
         SendFirst(t) \/ SendNext(t)
  PROVE  FifoStep
<1> DEFINE m == Box(Main(t))
           x == Tx0(t)
<1>1. /\ cancelled' = cancelled /\ val' = val /\ ops' = ops /\ request' = request
      /\ pc[Main(t)] = "sync" /\ Return(t, m, Nil)
  BY DEF SendFirst, SendNext, Sends, Runs
<1>2. m \in Boxes
  BY <1>1, BoxFacts
<1>3. \/ state[m].is = "EMPTY" /\ state' = [state EXCEPT ![m] = NONEMPTY(<<x>>)]
      \/ state[m].is = "NONEMPTY" /\ state' = [state EXCEPT ![m] = NONEMPTY(Append(state[m].q, x))]
  BY DEF SendFirst, SendNext, Enque
<1> HIDE DEF m
<1>4. /\ x \in Tx /\ Outcomes[x] = Nil
      /\ Outcomes' = [Outcomes EXCEPT ![x] = [box |-> m, val |-> Nil]] /\ Outcomes'[x] # Nil
  BY <1>1, <1>2, OutcomeOfReturn
<1> HIDE DEF x
<1>5. Contents' = [Contents EXCEPT ![m] = Append(Contents[m], x)]
  <2> DEFINE q == Append(Messages(m), x)
  <2>1. state' = [state EXCEPT ![m] = NONEMPTY(q)]
    <3>1. CASE state[m].is = "EMPTY"
      <4>1. q = <<x>>
        BY <3>1 DEF Messages
      <4> QED BY <1>3, <3>1, <4>1
    <3>2. CASE state[m].is = "NONEMPTY"
      BY <1>3, <3>2 DEF Messages
    <3> QED BY <1>3, <3>1, <3>2
  <2> HIDE DEF q
  <2>2. /\ \A n \in Boxes \ {m} : state'[n] = state[n]
        /\ state'[m].is = "NONEMPTY" /\ state'[m].q = q
    BY <1>2, <2>1 DEF MailboxInv, Types, NONEMPTY
  <2>3. \A n \in Boxes : Messages(n)' = IF n = m THEN q ELSE Messages(n)
    BY <2>2 DEF Messages
  <2> QED BY <1>2, <2>3 DEF Contents, q
<1>6. Fifo!Queue(x, m) /\ Fifo!Settles(x)
  BY <1>4, <1>5 DEF Fifo!Queue, Fifo!Undecided, Fifo!Outcome, Fifo!Settles, Contents, Outcomes
<1> QED BY <1>2, <1>4, <1>6 DEF FifoStep, Fifo!FifoNext

LEMMA GetMsgTakes ==
  ASSUME MailboxInv, MailboxInv', OutcomesOk, OutcomesOk', NEW t \in Threads, GetMsg(t)
  PROVE  FifoStep
<1> DEFINE x == Tx0(t)
<1>1. /\ cancelled' = cancelled /\ val' = val /\ ops' = ops /\ request' = request
      /\ pc[Main(t)] = "sync"
  BY DEF GetMsg, Receives, Runs
<1>2. PICK m \in Ready(t) : /\ Return(t, m, Head(state[m].q))
                            /\ state' = [state EXCEPT ![m] = AfterGetMsg(@.q)]
  BY DEF GetMsg
<1>3. m \in Boxes /\ state[m].is = "NONEMPTY"
  BY <1>1, <1>2, AtSync, RequestFacts DEF Ready, BoxesOf, MailboxInv
<1>4. state[m].q \in Seq(Tx) /\ state[m].q # <<>> /\ Head(state[m].q) \in Tx
  BY <1>3 DEF Types, QueueNeverEmpty, MailboxInv
<1>5. /\ x \in Tx /\ Outcomes[x] = Nil
      /\ Outcomes' = [Outcomes EXCEPT ![x] = [box |-> m, val |-> Head(state[m].q)]]
      /\ Outcomes'[x] # Nil
  BY <1>1, <1>2, <1>3, <1>4, OutcomeOfReturn
<1> HIDE DEF x
<1>6. Contents[m] = state[m].q
  BY <1>3 DEF Contents, Messages
<1>7. Contents' = [Contents EXCEPT ![m] = Tail(Contents[m])]
  <2>1. /\ \A n \in Boxes \ {m} : state'[n] = state[n]
        /\ state'[m] = AfterGetMsg(state[m].q)
    BY <1>2, <1>3 DEF MailboxInv, Types
  <2>2. Messages(m)' = Tail(state[m].q)
    <3> DEFINE rest == Tail(state[m].q)
    <3>1. state'[m] = IF rest = <<>> THEN EMPTY(<<>>) ELSE NONEMPTY(rest)
      BY <2>1 DEF AfterGetMsg
    <3> HIDE DEF rest
    <3>2. \/ state'[m].is = "EMPTY" /\ rest = <<>>
          \/ state'[m].is = "NONEMPTY" /\ state'[m].q = rest
      BY <3>1 DEF EMPTY, NONEMPTY
    <3>3. Messages(m)' = rest
      BY <3>2 DEF Messages
    <3> QED BY <3>3 DEF rest
  <2>3. \A n \in Boxes \ {m} : Messages(n)' = Messages(n)
    BY <2>1 DEF Messages
  <2> QED BY <1>3, <1>6, <2>2, <2>3 DEF Contents
<1>8. Fifo!Take(x, m) /\ Fifo!Settles(x)
  BY <1>4, <1>5, <1>6, <1>7
     DEF Fifo!Take, Fifo!Undecided, Fifo!Outcome, Fifo!Settles, Contents, Outcomes
<1> QED BY <1>3, <1>5, <1>8 DEF FifoStep, Fifo!FifoNext

LEMMA PollFindsNothing ==
  ASSUME MailboxInv, MailboxInv', OutcomesOk, OutcomesOk', NEW t \in Threads, PollFails(t)
  PROVE  FifoStep
<1> DEFINE m == Box(Main(t))
           x == Tx0(t)
<1>1. /\ cancelled' = cancelled /\ val' = val /\ ops' = ops /\ request' = request
      /\ state' = state /\ pc[Main(t)] = "sync" /\ Return(t, m, Nil) /\ Ready(t) = {}
  BY DEF PollFails, Receives, Runs
<1>2. m \in Boxes
  BY <1>1, BoxFacts
<1>3. m \in BoxesOf(t)
  <2>1. DOMAIN request[t].boxes = 1 .. Len(request[t].boxes) /\ Len(request[t].boxes) \in 1 .. Fan
    BY <1>1, AtSync, RequestFacts DEF MailboxInv
  <2>2. m = request[t].boxes[1]
    BY EntityFacts DEF Box
  <2>3. 1 \in DOMAIN request[t].boxes
    BY <2>1
  <2> QED BY <2>2, <2>3 DEF BoxesOf
<1>4. Messages(m) = <<>>
  BY <1>1, <1>3 DEF Ready, Messages
<1> HIDE DEF m
<1>5. /\ x \in Tx /\ Outcomes[x] = Nil
      /\ Outcomes' = [Outcomes EXCEPT ![x] = [box |-> m, val |-> Nil]] /\ Outcomes'[x] # Nil
  BY <1>1, <1>2, OutcomeOfReturn
<1> HIDE DEF x
<1>6. Contents' = Contents /\ Contents[m] = <<>>
  BY <1>1, <1>2, <1>4 DEF Contents, Messages
<1>7. Fifo!FindNothing(x, m) /\ Fifo!Settles(x)
  BY <1>5, <1>6 DEF Fifo!FindNothing, Fifo!Undecided, Fifo!Outcome, Fifo!Settles,
                    Contents, Outcomes
<1> QED BY <1>2, <1>5, <1>7 DEF FifoStep, Fifo!FifoNext

LEMMA SendPasses ==
  ASSUME MailboxInv, MailboxInv', OutcomesOk, OutcomesOk', NEW t \in Threads, SendToReceiver(t)
  PROVE  FifoStep
<1> USE DEF MailboxInv
<1> DEFINE m == Box(Main(t))
           q == CleanAndDeque(state[m].q)
           h == Head(q)
           u == h.tx[1]
           x == Tx0(t)
<1>1. /\ ops' = ops /\ request' = request /\ pc[Main(t)] = "sync"
      /\ Return(t, m, Nil) /\ state[m].is = "EMPTY" /\ q # <<>>
      /\ state' = [state EXCEPT ![m] = EMPTY(Tail(q))]
      /\ cancelled' = cancelled \cup {h.tx} /\ val' = [val EXCEPT ![h.thr] = x]
  BY DEF SendToReceiver, Sends, Runs
<1>2. /\ m \in Boxes /\ x \in Tx /\ x[1] = t /\ result[x] = Nil /\ ~ Waits(t)
      /\ \A e \in Entities : e[1] = t => val[e] = Nil
  BY <1>1, AtSync, BoxFacts DEF Tx0
<1> HIDE DEF m
<1>3. q \in Seq(Items) /\ \A k \in DOMAIN q : Live(q[k]) /\ LiveItem(m, q[k])
  BY <1>1, <1>2, LiveReceivers
<1> HIDE DEF q
<1>4. h = q[1] /\ 1 \in DOMAIN q
  BY <1>1, <1>3
<1> HIDE DEF h
<1>5. h \in Items /\ h.tx \notin cancelled /\ LiveItem(m, h)
  BY <1>3, <1>4 DEF Live
<1>6. /\ u \in Threads /\ Waits(u) /\ h.tx = Tx0(u) /\ h.tx \in Tx
      /\ h.thr \in Entities /\ h.thr[1] = u /\ Box(h.thr) = m
  BY <1>5, LiveOwner DEF Items
<1>7. u # t /\ x # Nil /\ result[h.tx] = Nil
  BY <1>2, <1>6, WaitingFacts, RequestsAssumption DEF Tx
<1>8. \A x2 \in cancelled' \ cancelled : x2 \in Tx /\ x2[2] <= ops[x2[1]] /\ Waits(x2[1])
  <2>1. h.tx[1] = u /\ h.tx[2] = ops[u] /\ ops[u] \in Int
    BY <1>6, RequestsAssumption DEF Tx0, Types
  <2> QED BY <1>1, <1>6, <2>1
<1>9. /\ OnlyMoves(t) /\ \A y \in Tx \ {x} : result'[y] = result[y]
      /\ result'[x] = [box |-> m, val |-> Nil]
  BY <1>1, <1>2, <1>8, ReturnStep
<1>10. val'[h.thr] = x /\ \A e \in Entities \ {h.thr} : val'[e] = val[e]
  BY <1>1, <1>6 DEF Types
<1>11. \A e \in Entities : e[1] = u => val[e] = Nil
  BY <1>5, <1>6 DEF ValInv
<1> DEFINE y == h.tx
<1>12. x # y /\ y[1] = u /\ y \in Tx /\ y = Tx0(u)
  BY <1>2, <1>6, <1>7
<1>13. Completed(x) = Nil /\ Completed(y) = Nil
  BY <1>2, <1>7, <1>11, <1>12 DEF OutcomesOk
<1>14. \A z \in Tx : z = x => Completed(z)' = [box |-> m, val |-> Nil]
  <2> SUFFICES ASSUME NEW z \in Tx, z = x PROVE Completed(z)' = [box |-> m, val |-> Nil]
    OBVIOUS
  <2>1. \A e \in Entities : e[1] = z[1] => val'[e] = Nil
    BY <1>2, <1>6, <1>7, <1>10
  <2> HIDE DEF x
  <2>2. Completed(z)' = result'[z]
    BY <2>1 DEF OutcomesOk
  <2> QED BY <1>9, <2>2
<1>15. \A z \in Tx : z = y => Completed(z)' = [box |-> m, val |-> x]
  <2> SUFFICES ASSUME NEW z \in Tx, z = y PROVE Completed(z)' = [box |-> m, val |-> x]
    OBVIOUS
  <2>0. PICK e \in Entities : e = h.thr
    BY <1>6
  <2>1. z = Tx0(e[1])' /\ Box(e)' = m /\ val'[e] = x
    BY <1>1, <1>6, <1>10, <1>12, <2>0 DEF Tx0, Box
  <2>2. Completed(z)' = [box |-> Box(e)', val |-> val'[e]]
    BY <1>7, <2>1 DEF OutcomesOk
  <2> QED BY <2>1, <2>2
<1>16. \A z \in Tx \ {x, y} : Completed(z)' = Completed(z)
  <2> SUFFICES ASSUME NEW z \in Tx \ {x, y} PROVE Completed(z)' = Completed(z)
    OBVIOUS
  <2>1. CASE z[1] = t
    <3>1. \A e \in Entities : e[1] = t => val'[e] = Nil
      BY <1>2, <1>6, <1>7, <1>10
    <3>2. Completed(z) = result[z] /\ Completed(z)' = result'[z]
      BY <1>2, <2>1, <3>1 DEF OutcomesOk
    <3> QED BY <1>9, <3>2
  <2>2. CASE z[1] = u
    <3>1. z # Tx0(z[1]) /\ z # Tx0(z[1])'
      BY <1>1, <1>12, <2>2 DEF Tx0
    <3>2. Completed(z) = result[z] /\ Completed(z)' = result'[z]
      BY <3>1 DEF OutcomesOk
    <3> QED BY <1>9, <3>2
  <2>3. CASE z[1] # t /\ z[1] # u
    <3>1. \A e \in Entities : e[1] = z[1] => val'[e] = val[e]
      BY <1>6, <1>10, <2>3
    <3> QED BY <1>9, <2>3, <3>1, OutcomesOfOthers
  <2> QED BY <2>1, <2>2, <2>3
<1> HIDE DEF x, y, u
<1>17. /\ Outcomes[x] = Nil /\ Outcomes[y] = Nil
       /\ Outcomes' = [Outcomes EXCEPT ![x] = [box |-> m, val |-> Nil], ![y] = [box |-> m, val |-> x]]
       /\ Outcomes'[x] # Nil /\ Outcomes'[y] # Nil
  <2>1. /\ [box |-> m, val |-> Nil] # Nil /\ [box |-> m, val |-> x] # Nil
    BY <1>2, RecordNotNil
  <2>2. \A z \in Tx : Completed(z)' = IF z = x THEN [box |-> m, val |-> Nil]
                                      ELSE IF z = y THEN [box |-> m, val |-> x] ELSE Completed(z)
    BY <1>12, <1>14, <1>15, <1>16
  <2> QED BY <1>2, <1>12, <1>13, <2>1, <2>2 DEF Outcomes
<1>18. Contents' = Contents /\ Contents[m] = <<>>
  <2>1. /\ \A n \in Boxes \ {m} : state'[n] = state[n]
        /\ state'[m].is = "EMPTY"
    BY <1>1, <1>2 DEF Types, EMPTY
  <2>2. \A n \in Boxes : Messages(n)' = Messages(n)
    BY <1>1, <2>1 DEF Messages
  <2>3. Messages(m) = <<>>
    BY <1>1 DEF Messages
  <2> QED BY <1>2, <2>2, <2>3 DEF Contents
<1>19. Fifo!Pass(x, y, m) /\ Fifo!Settles(x) /\ Fifo!Settles(y)
  BY <1>12, <1>17, <1>18
     DEF Fifo!Pass, Fifo!Undecided, Fifo!Outcome, Fifo!Settles, Contents, Outcomes
<1> QED BY <1>2, <1>12, <1>19 DEF FifoStep, Fifo!FifoNext

\* Steps that nobody but the mailboxes and the scheduler see.
LEMMA EvaluateStutters ==
  ASSUME MailboxInv, MailboxInv', OutcomesOk, OutcomesOk',
         NEW t \in Threads, NEW r \in Requests[t], Evaluate(t, r)
  PROVE  FifoStep
<1>1. /\ state' = state /\ val' = val /\ result' = result /\ pc[Main(t)] = "run"
      /\ ops' = [ops EXCEPT ![t] = @ + 1] /\ request' = [request EXCEPT ![t] = r]
      /\ pc' = [pc EXCEPT ![Main(t)] = "sync"]
  BY DEF Evaluate, Runs
<1>2. OnlyMoves(t)
  BY <1>1, EntityFacts DEF OnlyMoves, MailboxInv, Types
<1>3. \A e \in Entities : e[1] = t => val[e] = Nil
  BY <1>1 DEF MailboxInv, ValInv, Waits
<1>4. ASSUME NEW x \in Tx PROVE Completed(x)' = Completed(x)
  <2>1. CASE x[1] = t
    BY <1>1, <1>3, <2>1 DEF OutcomesOk
  <2>2. CASE x[1] # t
    BY <1>1, <1>2, <2>2, OutcomesOfOthers
  <2> QED BY <2>1, <2>2
<1>5. Outcomes' = Outcomes
  BY <1>4 DEF Outcomes
<1>6. Contents' = Contents
  BY <1>1 DEF Contents, Messages
<1> QED BY <1>5, <1>6, FifoStutters

LEMMA SameOutcomes ==
  ASSUME ops' = ops, request' = request, val' = val, result' = result
  PROVE  Outcomes' = Outcomes
BY DEF Outcomes, Completed, GivenTo, Box

LEMMA BlockStutters ==
  ASSUME MailboxInv, NEW t \in Threads, Block(t)
  PROVE  FifoStep
<1>1. /\ ops' = ops /\ request' = request /\ val' = val /\ result' = result
      /\ Ready(t) = {} /\ pc[Main(t)] = "sync"
      /\ state' = [n \in Boxes |->
           IF n \in BoxesOf(t) THEN EMPTY(state[n].q \o NewItems(t, n)) ELSE state[n]]
  BY DEF Block, Receives, Runs
<1>2. \A n \in BoxesOf(t) : state[n].is # "NONEMPTY"
  BY <1>1 DEF Ready
<1>3. \A n \in Boxes : Messages(n)' = Messages(n)
  <2> SUFFICES ASSUME NEW n \in Boxes PROVE Messages(n)' = Messages(n)
    OBVIOUS
  <2>1. CASE n \in BoxesOf(t)
    <3>1. state'[n].is = "EMPTY"
      BY <1>1, <2>1 DEF EMPTY
    <3> QED BY <1>2, <2>1, <3>1 DEF Messages
  <2>2. CASE n \notin BoxesOf(t)
    BY <1>1, <2>2 DEF Messages
  <2> QED BY <2>1, <2>2
<1>4. Contents' = Contents
  BY <1>3 DEF Contents
<1> QED BY <1>1, <1>4, SameOutcomes, FifoStutters

\* Returning with a message one has been given changes no outcome.
LEMMA FinishStutters ==
  ASSUME MailboxInv, MailboxInv', OutcomesOk, OutcomesOk', NEW e \in Entities, val[e] # Nil,
         OnlyMoves(e[1]), result' = Given(e), val' = [val EXCEPT ![e] = Nil],
         ops' = ops, request' = request
  PROVE  Outcomes' = Outcomes
<1> USE DEF MailboxInv
<1> DEFINE t == e[1]
           y == Tx0(t)
<1>1. /\ t \in Threads /\ y \in Tx /\ y[1] = t
      /\ \A f \in Entities : f[1] = t /\ val[f] # Nil => f = e
  BY EntityFacts, WaitingFacts DEF ValInv, Tx0
<1>2. /\ result'[y] = [box |-> Box(e), val |-> val[e]]
      /\ \A x \in Tx \ {y} : result'[x] = result[x]
      /\ val'[e] = Nil /\ \A f \in Entities \ {e} : val'[f] = val[f]
  BY <1>1 DEF Given, Types
<1>3. \A f \in Entities : f[1] = t => val'[f] = Nil
  BY <1>1, <1>2
<1>4. \A x \in Tx : x[1] = t => Completed(x)' = result'[x]
  BY <1>3 DEF OutcomesOk
<1>5. Completed(y) = [box |-> Box(e), val |-> val[e]]
  BY <1>1 DEF OutcomesOk
<1>6. ASSUME NEW x \in Tx PROVE Completed(x)' = Completed(x)
  <2>1. CASE x = y
    BY <1>1, <1>2, <1>4, <1>5, <2>1
  <2>2. CASE x[1] = t /\ x # y
    <3>1. Completed(x) = result[x]
      BY <2>2 DEF OutcomesOk
    <3> QED BY <1>2, <1>4, <2>2, <3>1
  <2>3. CASE x[1] # t
    <3>1. /\ result'[x] = result[x] /\ \A f \in Entities : f[1] = x[1] => val'[f] = val[f]
      BY <1>1, <1>2, <2>3
    <3> HIDE DEF t
    <3> QED BY <1>1, <2>3, <3>1, OutcomesOfOthers DEF t
  <2> QED BY <2>1, <2>2, <2>3
<1> QED BY <1>6 DEF Outcomes

LEMMA EntityStutters ==
  ASSUME MailboxInv, MailboxInv', OutcomesOk, OutcomesOk', NEW e \in Entities,
         Resume(e) \/ HelperReturns(e)
  PROVE  FifoStep
<1> USE DEF MailboxInv
<1>1. state' = state /\ ops' = ops /\ request' = request
  BY DEF Resume, HelperReturns
<1>2. Contents' = Contents
  BY <1>1 DEF Contents, Messages
<1>3. CASE result' = result /\ val' = val
  BY <1>1, <1>2, <1>3, SameOutcomes, FifoStutters
<1>4. ASSUME result' = Given(e), val' = [val EXCEPT ![e] = Nil],
             \/ Runs(e, "recv", 1) /\ pc' = [pc EXCEPT ![e] = "run"]
             \/ Runs(e, "return", 0) /\ pc' = [pc EXCEPT ![e] = "none", ![Main(e[1])] = "run"]
      PROVE  FifoStep
  <2>1. val[e] # Nil
    BY <1>4 DEF Runs, ValInv
  <2>2. OnlyMoves(e[1])
    BY <1>1, <1>4, EntityFacts DEF OnlyMoves, Types
  <2>3. Outcomes' = Outcomes
    BY <1>1, <1>4, <2>1, <2>2, FinishStutters
  <2> QED BY <1>2, <2>3, FifoStutters
<1> QED BY <1>3, <1>4 DEF Resume, HelperReturns

LEMMA FifoInitially ==
  ASSUME Init PROVE Fifo!FifoInit
<1>1. /\ state = [m \in Boxes |-> EMPTY(<<>>)] /\ ops = [t \in Threads |-> 0]
      /\ val = [e \in Entities |-> Nil] /\ result = [x \in Tx |-> Nil]
  BY DEF Init
<1>2. \A m \in Boxes : Messages(m) = <<>>
  BY <1>1 DEF Messages, EMPTY
<1>3. \A x \in Tx : Completed(x) = Nil
  BY <1>1 DEF Completed, GivenTo
<1> QED BY <1>2, <1>3 DEF Fifo!FifoInit

\* Every behaviour of the mailboxes, with its receiver queues, helper threads, dead
\* items and hand-overs, is a behaviour of CmlFifo.
THEOREM MailboxImplementsFifo == Spec => ImplementsFifo
<1>1. Init => Fifo!FifoInit
  BY FifoInitially
<1>2. MailboxInv /\ MailboxInv' /\ OutcomesOk /\ OutcomesOk' /\ [Next]_vars =>
        [Fifo!FifoNext]_(Fifo!fifoVars)
  <2> SUFFICES ASSUME MailboxInv, MailboxInv', OutcomesOk, OutcomesOk', [Next]_vars
               PROVE  FifoStep
    BY DEF FifoStep
  <2>1. ASSUME NEW t \in Threads,
               \/ \E r \in Requests[t] : Evaluate(t, r)
               \/ SendToReceiver(t) \/ SendFirst(t) \/ SendNext(t)
               \/ GetMsg(t) \/ PollFails(t) \/ Block(t)
        PROVE  FifoStep
    BY <2>1, EvaluateStutters, SendPasses, SendQueues, GetMsgTakes, PollFindsNothing,
       BlockStutters
  <2>2. ASSUME NEW e \in Entities, Resume(e) \/ HelperReturns(e) PROVE FifoStep
    BY <2>2, EntityStutters
  <2>3. ASSUME Preempt \/ UNCHANGED vars PROVE FifoStep
    <3>1. UNCHANGED <<state, ops, request, val, result>>
      BY <2>3 DEF Preempt, vars
    <3>2. Contents' = Contents
      BY <3>1 DEF Contents, Messages
    <3> QED BY <3>1, <3>2, SameOutcomes, FifoStutters
  <2> QED BY <2>1, <2>2, <2>3 DEF Next, Step
<1> QED BY <1>1, <1>2, MailboxInvariant, CompletedFacts, PTL
        DEF Spec, ImplementsFifo, Fifo!FifoSpec

-----------------------------------------------------------------------------
(***************************************************************************)
(* Queues.  The two lists of a queue implement one sequence, for any items *)
(* and any length; Q is the instance of CmlQueue.                          *)
(***************************************************************************)
LEMMA SameReverse == \A s : Q!Reverse(s) = Reverse(s)
  BY DEF Q!Reverse, Reverse

(***************************************************************************)
(* The dead prefix.  k is where the rest of q begins.                      *)
(***************************************************************************)
Begins(q, k) ==
  /\ k \in 1 .. Len(q) + 1
  /\ k <= Len(q) => q[k] \notin dead
  /\ \A i \in 1 .. Len(q) : i < k => q[i] \in dead

LEMMA FilterPrefixBegins ==
  ASSUME NEW q \in Seq(QueueItems)
  PROVE  \E k : Begins(q, k) /\ Q!filterPrefix(q) = SubSeq(q, k, Len(q))
<1> DEFINE n == Len(q)
           live == {i \in 1 .. n : q[i] \notin dead}
           k == CHOOSE i \in live : \A j \in live : i <= j
<1>1. n \in Nat /\ DOMAIN q = 1 .. n
  BY LenProperties
<1>2. Q!filterPrefix(q) = IF live = {} THEN <<>> ELSE SubSeq(q, k, n)
  BY <1>1 DEF Q!filterPrefix
<1> HIDE DEF n
<1>3. CASE live = {}
  <2>1. /\ n + 1 \in 1 .. n + 1 /\ ~ (n + 1 <= n) /\ n + 1 \in Int /\ n \in Int /\ n < n + 1
        /\ \A i \in 1 .. n : q[i] \in dead
    BY <1>1, <1>3
  <2>2. SubSeq(q, n + 1, n) = <<>>
    BY <2>1, SubSeqEmpty
  <2> QED BY <1>2, <1>3, <2>1, <2>2 DEF Begins, n
<1>4. CASE live # {}
  <2>1. \E i \in live : \A j \in live : i <= j
    <3>1. live \subseteq Nat
      BY <1>1
    <3> HIDE DEF live
    <3> QED BY <1>4, <3>1, LeastOfNat
  <2>2. k \in live /\ \A j \in live : k <= j
    <3> HIDE DEF live
    <3> QED BY <2>1
  <2> HIDE DEF k
  <2>3. k \in 1 .. n + 1 /\ q[k] \notin dead /\ \A i \in 1 .. n : i < k => q[i] \in dead
    BY <1>1, <2>2
  <2> QED BY <1>2, <1>4, <2>3 DEF Begins, n
<1> QED BY <1>3, <1>4

LEMMA TrimmedBegins ==
  ASSUME NEW q \in Seq(QueueItems), NEW k, Begins(q, k)
  PROVE  Q!Queue!Trimmed(q) = SubSeq(q, k, Len(q))
<1> DEFINE n == Len(q)
           R == {SubSeq(q, j, n) : j \in 1 .. (n + 1)}
           P(r) == /\ r = <<>> \/ Head(r) \notin dead
                   /\ \A i \in 1 .. (n - Len(r)) : q[i] \in dead
<1>1. n \in Nat /\ \A i \in 1 .. n : q[i] \in QueueItems
  BY LenProperties
<1>2. Q!Queue!Trimmed(q) = CHOOSE r \in R : P(r)
  BY DEF Q!Queue!Trimmed
<1>3. /\ k \in 1 .. n + 1 /\ (k <= n => q[k] \notin dead)
      /\ \A i \in 1 .. n : i < k => q[i] \in dead
  BY DEF Begins
<1>4. ASSUME NEW j \in 1 .. (n + 1)
      PROVE  /\ n - Len(SubSeq(q, j, n)) = j - 1
             /\ j <= n => SubSeq(q, j, n) # <<>> /\ Head(SubSeq(q, j, n)) = q[j]
             /\ ~ (j <= n) => SubSeq(q, j, n) = <<>>
  <2>1. Len(SubSeq(q, j, n)) = IF j <= n THEN n - j + 1 ELSE 0
    <3> HIDE DEF n
    <3>1. j \in Int /\ n \in Int /\ \A i \in j .. n : q[i] \in QueueItems
      BY <1>1
    <3> QED BY <3>1, SubSeqProperties
  <2>2. ~ (j <= n) => SubSeq(q, j, n) = <<>>
    <3> HIDE DEF n
    <3> QED BY <1>1, SubSeqEmpty
  <2>3. j <= n => Head(SubSeq(q, j, n)) = q[j]
    <3> SUFFICES ASSUME j <= n PROVE Head(SubSeq(q, j, n)) = q[j]
      OBVIOUS
    <3>1. j \in 1 .. Len(q) /\ n \in j .. Len(q)
      BY <1>1
    <3> QED BY <3>1, HeadTailOfSubSeq
  <2>4. j <= n => SubSeq(q, j, n) # <<>>
    <3>1. j <= n => n - j + 1 # 0
      BY <1>1
    <3> QED BY <2>1, <3>1, EmptySeq
  <2>5. n - Len(SubSeq(q, j, n)) = j - 1
    <3> HIDE DEF n
    <3> QED BY <1>1, <2>1
  <2> QED BY <2>2, <2>3, <2>4, <2>5
<1> HIDE DEF n
<1>5. SubSeq(q, k, n) \in R /\ P(SubSeq(q, k, n))
  <2>1. n - Len(SubSeq(q, k, n)) = k - 1
    BY <1>3, <1>4
  <2>2. \A i \in 1 .. k - 1 : q[i] \in dead
    BY <1>1, <1>3
  <2> QED BY <1>1, <1>3, <1>4, <2>1, <2>2
<1>6. ASSUME NEW r \in R, P(r) PROVE r = SubSeq(q, k, n)
  <2>1. PICK j \in 1 .. (n + 1) : r = SubSeq(q, j, n)
    OBVIOUS
  <2>2. \A i \in 1 .. j - 1 : q[i] \in dead
    BY <1>4, <1>6, <2>1
  <2>3. j <= n => q[j] \notin dead
    BY <1>4, <1>6, <2>1
  <2>4. ~ (j < k)
    BY <1>1, <1>3, <2>3
  <2>5. ~ (k < j)
    BY <1>1, <1>3, <2>2
  <2>6. j = k
    BY <1>1, <1>3, <2>4, <2>5
  <2> QED BY <2>1, <2>6
<1>7. Q!Queue!Trimmed(q) = SubSeq(q, k, n)
  <2> HIDE DEF R, P
  <2> QED BY <1>2, <1>5, <1>6
<1> QED BY <1>7 DEF n

-----------------------------------------------------------------------------
(***************************************************************************)
(* The refinement, operation by operation.                                 *)
(***************************************************************************)
ListTypes == front \in Seq(QueueItems) /\ back \in Seq(QueueItems)

Listed == front \o Reverse(back)

\* The operation op, answering a, leaves the lists f and b, that is the sequence c.
LEMMA AssignImplements ==
  ASSUME NEW act, NEW f \in Seq(QueueItems), NEW b \in Seq(QueueItems), NEW a,
         Q!Assign(act, f, b, a), NEW c, c = f \o Reverse(b)
  PROVE  ListTypes' /\ Q!Queue!Becomes(act, c, a) /\ UNCHANGED dead
<1>1. front' = f /\ back' = b /\ answer' = <<act, a>> /\ UNCHANGED dead
  BY DEF Q!Assign
<1>2. Q!Queue!Becomes(act, c, a)
  BY <1>1, SameReverse DEF Q!Queue!Becomes
<1> QED BY <1>1, <1>2 DEF ListTypes

LEMMA ContentFacts ==
  ASSUME ListTypes
  PROVE  /\ Reverse(back) \in Seq(QueueItems) /\ Listed \in Seq(QueueItems)
         /\ \A f \in Seq(QueueItems) : f \o Reverse(<<>>) = f /\ <<>> \o f = f
         /\ Reverse(back) = <<>> <=> back = <<>>
         /\ <<>> \in Seq(QueueItems)
<1>1. <<>> \in Seq(QueueItems) /\ Reverse(back) \in Seq(QueueItems) /\ Reverse(<<>>) = <<>>
      /\ (Reverse(back) = <<>> <=> back = <<>>)
  BY EmptySeq, ReverseFacts DEF ListTypes
<1>2. Listed \in Seq(QueueItems)
  BY <1>1, ConcatProperties DEF Listed, ListTypes
<1> QED BY <1>1, <1>2, ConcatEmptySeq

\* What taking the first of the content leaves, when it is in the front list or when
\* that is empty.
LEMMA FirstFacts ==
  ASSUME NEW f \in Seq(QueueItems), NEW r \in Seq(QueueItems)
  PROVE  /\ f # <<>> => /\ Q!Queue!First(f \o r) = Head(f) /\ Q!Queue!Rest(f \o r) = Tail(f) \o r
                        /\ Tail(f) \in Seq(QueueItems)
         /\ f = <<>> /\ r # <<>> => /\ Q!Queue!First(f \o r) = Head(r)
                                    /\ Q!Queue!Rest(f \o r) = Tail(r) /\ Tail(r) \in Seq(QueueItems)
         /\ f = <<>> /\ r = <<>> => /\ Q!Queue!First(f \o r) = Nil
                                    /\ Q!Queue!Rest(f \o r) = <<>>
<1>1. CASE f # <<>>
  <2>1. Head(f \o r) = Head(f) /\ Tail(f \o r) = Tail(f) \o r /\ f \o r # <<>>
    BY <1>1, HeadTailConcat
  <2> QED BY <1>1, <2>1, HeadTailProperties DEF Q!Queue!First, Q!Queue!Rest
<1>2. CASE f = <<>>
  <2>1. f \o r = r
    BY <1>2, ConcatEmptySeq
  <2> QED BY <1>2, <2>1, HeadTailProperties DEF Q!Queue!First, Q!Queue!Rest
<1> QED BY <1>1, <1>2

LEMMA DequeStep ==
  ASSUME ListTypes, Q!deque
  PROVE  ListTypes' /\ Q!Queue!Becomes("deque", Q!Queue!Rest(Listed), Q!Queue!First(Listed))
         /\ UNCHANGED dead
<1> DEFINE r == Reverse(back)
<1>1. /\ front \in Seq(QueueItems) /\ r \in Seq(QueueItems) /\ back \in Seq(QueueItems)
      /\ (r = <<>> <=> back = <<>>) /\ <<>> \in Seq(QueueItems) /\ Listed = front \o r
      /\ \A f \in Seq(QueueItems) : f \o Reverse(<<>>) = f
  BY ContentFacts DEF ListTypes, Listed
<1>2. CASE front # <<>>
  <2>1. Q!Assign("deque", Tail(front), back, Head(front))
    BY <1>2 DEF Q!deque
  <2>2. /\ Q!Queue!First(Listed) = Head(front) /\ Q!Queue!Rest(Listed) = Tail(front) \o r
        /\ Tail(front) \in Seq(QueueItems)
    BY <1>1, <1>2, FirstFacts
  <2> QED BY <1>1, <2>1, <2>2, AssignImplements
<1>3. CASE front = <<>> /\ back # <<>>
  <2>1. Q!Assign("deque", Tail(r), <<>>, Head(r))
    BY <1>3, SameReverse DEF Q!deque
  <2> HIDE DEF r
  <2>2. /\ Q!Queue!First(Listed) = Head(r) /\ Q!Queue!Rest(Listed) = Tail(r)
        /\ Tail(r) \in Seq(QueueItems)
    BY <1>1, <1>3, FirstFacts
  <2>3. Tail(r) \o Reverse(<<>>) = Tail(r)
    BY <1>1, <2>2
  <2> QED BY <1>1, <2>1, <2>2, <2>3, AssignImplements
<1>4. CASE front = <<>> /\ back = <<>>
  <2>1. Q!Assign("deque", <<>>, <<>>, Nil)
    BY <1>4 DEF Q!deque
  <2> HIDE DEF r
  <2>2. Q!Queue!First(Listed) = Nil /\ Q!Queue!Rest(Listed) = <<>>
    BY <1>1, <1>4, FirstFacts
  <2>3. <<>> \o Reverse(<<>>) = <<>>
    BY <1>1
  <2> QED BY <1>1, <2>1, <2>2, <2>3, AssignImplements
<1> QED BY <1>2, <1>3, <1>4

LEMMA PeekStep ==
  ASSUME ListTypes, Q!peek
  PROVE  ListTypes' /\ Q!Queue!Becomes("peek", Listed, Q!Queue!First(Listed))
         /\ UNCHANGED dead
<1> DEFINE r == Reverse(back)
<1>1. /\ front \in Seq(QueueItems) /\ r \in Seq(QueueItems) /\ back \in Seq(QueueItems)
      /\ (r = <<>> <=> back = <<>>) /\ <<>> \in Seq(QueueItems) /\ Listed = front \o r
      /\ \A f \in Seq(QueueItems) : f \o Reverse(<<>>) = f /\ <<>> \o f = f
  BY ContentFacts DEF ListTypes, Listed
<1>2. CASE front # <<>>
  <2>1. Q!Assign("peek", front, back, Head(front))
    BY <1>2 DEF Q!peek
  <2>2. Q!Queue!First(Listed) = Head(front)
    BY <1>1, <1>2, FirstFacts
  <2> QED BY <1>1, <2>1, <2>2, AssignImplements
<1>3. CASE front = <<>> /\ back # <<>>
  <2>1. Q!Assign("peek", r, <<>>, Head(r))
    BY <1>3, SameReverse DEF Q!peek
  <2> HIDE DEF r
  <2>2. Q!Queue!First(Listed) = Head(r)
    BY <1>1, <1>3, FirstFacts
  <2>3. Listed = r \o Reverse(<<>>)
    BY <1>1, <1>3
  <2> QED BY <1>1, <2>1, <2>2, <2>3, AssignImplements
<1>4. CASE front = <<>> /\ back = <<>>
  <2>1. Q!Assign("peek", <<>>, <<>>, Nil)
    BY <1>4 DEF Q!peek
  <2> HIDE DEF r
  <2>2. Q!Queue!First(Listed) = Nil
    BY <1>1, <1>4, FirstFacts
  <2>3. Listed = <<>> \o Reverse(<<>>)
    BY <1>1, <1>4
  <2> QED BY <1>1, <2>1, <2>2, <2>3, AssignImplements
<1> QED BY <1>2, <1>3, <1>4

\* An item more in front of the back list is one more at the end.
LEMMA ConsFacts ==
  ASSUME ListTypes, NEW x \in QueueItems
  PROVE  /\ Q!cons(x, back) \in Seq(QueueItems)
         /\ front \o Reverse(Q!cons(x, back)) = Append(Listed, x)
<1> DEFINE r == Reverse(back)
<1>1. front \in Seq(QueueItems) /\ r \in Seq(QueueItems) /\ back \in Seq(QueueItems)
      /\ Listed = front \o r
  BY ContentFacts DEF ListTypes, Listed
<1>2. <<x>> \in Seq(QueueItems) /\ Q!cons(x, back) \in Seq(QueueItems)
      /\ Reverse(Q!cons(x, back)) = Append(r, x)
  BY <1>1, ConcatProperties, ReverseCons DEF Q!cons
<1> HIDE DEF r
<1>3. front \o r \in Seq(QueueItems)
  BY <1>1, ConcatProperties
<1>4. Append(r, x) = r \o <<x>> /\ Append(front \o r, x) = (front \o r) \o <<x>>
  BY <1>1, <1>3, AppendIsConcat
<1>5. front \o Append(r, x) = Append(front \o r, x)
  BY <1>1, <1>2, <1>4, ConcatAssociative
<1> QED BY <1>1, <1>2, <1>5

LEMMA EnqueStep ==
  ASSUME ListTypes, NEW x \in QueueItems, Q!enque(x)
  PROVE  ListTypes' /\ Q!Queue!Becomes("enque", Append(Listed, x), Nil) /\ UNCHANGED dead
<1>1. Q!Assign("enque", front, Q!cons(x, back), Nil)
  BY DEF Q!enque
<1> QED BY <1>1, ConsFacts, AssignImplements DEF ListTypes

\* What is alive of the lists f and b is what is alive of their content.
LEMMA AliveFacts ==
  ASSUME NEW f \in Seq(QueueItems), NEW b \in Seq(QueueItems)
  PROVE  /\ Q!filter(f) \in Seq(QueueItems) /\ Q!filter(b) \in Seq(QueueItems)
         /\ Q!filterRev(b) \in Seq(QueueItems)
         /\ Q!filterRev(b) = Reverse(Q!filter(b))
         /\ Q!Queue!Alive(f \o Reverse(b)) = Q!filter(f) \o Q!filterRev(b)
<1> DEFINE S == QueueItems \ dead
<1>1. \A c \in Seq(QueueItems) : Among(c, S) \in Seq(QueueItems)
  <2>1. \A c \in Seq(QueueItems) : Among(c, S) \in Seq(QueueItems \cap S)
    BY AmongElements
  <2> QED BY <2>1, SeqMonotonic
<1>2. Reverse(b) \in Seq(QueueItems)
  BY ReverseFacts
<1> HIDE DEF S
<1>3. Among(f \o Reverse(b), S) = Among(f, S) \o Reverse(Among(b, S))
  <2> DEFINE c == Reverse(b)
  <2>1. Among(c, S) = Reverse(Among(b, S))
    BY AmongReverse
  <2> HIDE DEF c
  <2>2. Among(f \o c, S) = Among(f, S) \o Among(c, S)
    BY <1>2, AmongConcat DEF c
  <2> QED BY <2>1, <2>2 DEF c
<1>4. Reverse(Among(b, S)) \in Seq(QueueItems)
  <2> DEFINE c == Among(b, S)
  <2>1. c \in Seq(QueueItems)
    BY <1>1
  <2> HIDE DEF c
  <2>2. Reverse(c) \in Seq(QueueItems)
    BY <2>1, ReverseFacts
  <2> QED BY <2>2 DEF c
<1>5. /\ Q!filter(f) = Among(f, S) /\ Q!filter(b) = Among(b, S)
      /\ Q!filterRev(b) = Reverse(Among(b, S))
      /\ Q!Queue!Alive(f \o Reverse(b)) = Among(f \o Reverse(b), S)
  BY SameReverse DEF S, Q!filter, Q!filterRev, Q!Queue!Alive, Q!Among, Q!Filtered,
                     Q!Queue!Among, Q!Queue!Filtered, Among, Filtered
<1> QED BY <1>1, <1>3, <1>4, <1>5

LEMMA CleanedStep ==
  ASSUME ListTypes, NEW act, NEW b \in Seq(QueueItems), Q!Cleaned(act, b)
  PROVE  ListTypes' /\ Q!Queue!Becomes(act, Q!Queue!Alive(front \o Reverse(b)), Nil)
         /\ UNCHANGED dead
<1> DEFINE f == Q!filter(front)
           r == Q!filterRev(b)
<1>1. /\ f \in Seq(QueueItems) /\ r \in Seq(QueueItems) /\ Q!filter(b) \in Seq(QueueItems)
      /\ r = Reverse(Q!filter(b)) /\ Q!Queue!Alive(front \o Reverse(b)) = f \o r
  BY AliveFacts DEF ListTypes
<1>2. \/ f = <<>> /\ Q!Assign(act, r, <<>>, Nil)
      \/ f # <<>> /\ Q!Assign(act, f, Q!filter(b), Nil)
  BY DEF Q!Cleaned
<1> HIDE DEF f, r
<1>3. CASE f = <<>> /\ Q!Assign(act, r, <<>>, Nil)
  <2>1. <<>> \in Seq(QueueItems) /\ f \o r = r \o Reverse(<<>>)
    BY <1>1, <1>3, ContentFacts
  <2> QED BY <1>1, <1>3, <2>1, AssignImplements
<1>4. CASE f # <<>> /\ Q!Assign(act, f, Q!filter(b), Nil)
  BY <1>1, <1>4, AssignImplements
<1> QED BY <1>2, <1>3, <1>4

LEMMA CleanAndDequeStep ==
  ASSUME ListTypes, Q!cleanAndDeque
  PROVE  ListTypes' /\ Q!Queue!Becomes("cleanAndDeque", Q!Queue!Rest(Q!Queue!Alive(Listed)),
                                     Q!Queue!First(Q!Queue!Alive(Listed)))
         /\ UNCHANGED dead
<1> DEFINE f == Q!filter(front)
           r == Q!filterRev(back)
           p == Q!Queue!Rest(Q!Queue!Alive(Listed))
           a == Q!Queue!First(Q!Queue!Alive(Listed))
<1>1. /\ f \in Seq(QueueItems) /\ r \in Seq(QueueItems) /\ Q!filter(back) \in Seq(QueueItems)
      /\ r = Reverse(Q!filter(back)) /\ Q!Queue!Alive(Listed) = f \o r
      /\ <<>> \in Seq(QueueItems) /\ \A q \in Seq(QueueItems) : q \o Reverse(<<>>) = q /\ <<>> \o q = q
  BY AliveFacts, ContentFacts DEF ListTypes, Listed
<1>2. \/ f = <<>> /\ r = <<>> /\ Q!Assign("cleanAndDeque", <<>>, <<>>, Nil)
      \/ f = <<>> /\ r # <<>> /\ Q!Assign("cleanAndDeque", Tail(r), <<>>, Head(r))
      \/ Len(f) = 1 /\ Q!Assign("cleanAndDeque", r, <<>>, Head(f))
      \/ Len(f) > 1 /\ Q!Assign("cleanAndDeque", Tail(f), Q!filter(back), Head(f))
  BY DEF Q!cleanAndDeque
<1> HIDE DEF f, r
<1>3. /\ f # <<>> => a = Head(f) /\ p = Tail(f) \o r /\ Tail(f) \in Seq(QueueItems)
      /\ f = <<>> /\ r # <<>> => a = Head(r) /\ p = Tail(r) /\ Tail(r) \in Seq(QueueItems)
      /\ f = <<>> /\ r = <<>> => a = Nil /\ p = <<>>
  <2>1. p = Q!Queue!Rest(f \o r) /\ a = Q!Queue!First(f \o r)
    BY <1>1
  <2> HIDE DEF p, a
  <2> QED BY <1>1, <2>1, FirstFacts
<1>4. /\ Len(f) = 1 => f # <<>> /\ Tail(f) = <<>>
      /\ Len(f) > 1 => f # <<>>
  <2>1. Len(<<>>) = 0
    BY EmptySeq
  <2>2. Len(f) > 0 => f # <<>>
    BY <2>1
  <2>3. f # <<>> => Len(Tail(f)) = Len(f) - 1 /\ Tail(f) \in Seq(QueueItems)
    BY <1>1, HeadTailProperties
  <2>4. \A q \in Seq(QueueItems) : Len(q) = 0 => q = <<>>
    BY EmptySeq
  <2>5. Len(f) \in Nat
    BY <1>1, LenProperties
  <2>6. /\ Len(f) = 1 => Len(f) > 0 /\ Len(f) - 1 = 0
        /\ Len(f) > 1 => Len(f) > 0
    BY <2>5
  <2>7. Len(f) = 1 => Tail(f) \in Seq(QueueItems) /\ Len(Tail(f)) = 0
    BY <2>2, <2>3, <2>6
  <2> QED BY <2>2, <2>4, <2>6, <2>7
<1> HIDE DEF p, a
<1>5. CASE f = <<>> /\ r = <<>> /\ Q!Assign("cleanAndDeque", <<>>, <<>>, Nil)
  <2>1. p = <<>> \o Reverse(<<>>)
    BY <1>1, <1>3, <1>5
  <2>2. ListTypes' /\ Q!Queue!Becomes("cleanAndDeque", p, Nil) /\ UNCHANGED dead
    BY <1>1, <1>5, <2>1, AssignImplements
  <2> QED BY <1>3, <1>5, <2>2 DEF p, a
<1>6. CASE f = <<>> /\ r # <<>> /\ Q!Assign("cleanAndDeque", Tail(r), <<>>, Head(r))
  <2>1. p = Tail(r) \o Reverse(<<>>) /\ Tail(r) \in Seq(QueueItems)
    BY <1>1, <1>3, <1>6
  <2>2. ListTypes' /\ Q!Queue!Becomes("cleanAndDeque", p, Head(r)) /\ UNCHANGED dead
    BY <1>1, <1>6, <2>1, AssignImplements
  <2> QED BY <1>3, <1>6, <2>2 DEF p, a
<1>7. CASE Len(f) = 1 /\ Q!Assign("cleanAndDeque", r, <<>>, Head(f))
  <2>1. p = r \o Reverse(<<>>)
    BY <1>1, <1>3, <1>4, <1>7
  <2>2. ListTypes' /\ Q!Queue!Becomes("cleanAndDeque", p, Head(f)) /\ UNCHANGED dead
    BY <1>1, <1>7, <2>1, AssignImplements
  <2> QED BY <1>3, <1>4, <1>7, <2>2 DEF p, a
<1>8. CASE Len(f) > 1 /\ Q!Assign("cleanAndDeque", Tail(f), Q!filter(back), Head(f))
  <2>1. p = Tail(f) \o Reverse(Q!filter(back)) /\ Tail(f) \in Seq(QueueItems)
    BY <1>1, <1>3, <1>4, <1>8
  <2>2. ListTypes' /\ Q!Queue!Becomes("cleanAndDeque", p, Head(f)) /\ UNCHANGED dead
    BY <1>1, <1>8, <2>1, AssignImplements
  <2> QED BY <1>3, <1>4, <1>8, <2>2 DEF p, a
<1> QED BY <1>2, <1>5, <1>6, <1>7, <1>8

\* The dead prefix of two lists joined: within the first, or all of it.
LEMMA BeginsConcat ==
  ASSUME NEW f \in Seq(QueueItems), NEW r \in Seq(QueueItems)
  PROVE  /\ \A k : Begins(f, k) /\ k <= Len(f) =>
              /\ Begins(f \o r, k)
              /\ SubSeq(f \o r, k, Len(f \o r)) = SubSeq(f, k, Len(f)) \o r
              /\ SubSeq(f, k, Len(f)) \in Seq(QueueItems) /\ SubSeq(f, k, Len(f)) # <<>>
         /\ \A k : Begins(f, k) /\ ~ (k <= Len(f)) => SubSeq(f, k, Len(f)) = <<>>
         /\ (\E k : Begins(f, k) /\ ~ (k <= Len(f))) => \A k : Begins(r, k) =>
              /\ Begins(f \o r, Len(f) + k)
              /\ SubSeq(f \o r, Len(f) + k, Len(f \o r)) = SubSeq(r, k, Len(r))
              /\ SubSeq(r, k, Len(r)) \in Seq(QueueItems)
<1> DEFINE n == Len(f)
           m == Len(r)
           c == f \o r
<1>1. /\ n \in Nat /\ m \in Nat /\ c \in Seq(QueueItems) /\ Len(c) = n + m
      /\ \A i \in 1 .. n : f[i] \in QueueItems /\ c[i] = f[i]
      /\ \A i \in 1 .. m : r[i] \in QueueItems /\ c[n + i] = r[i]
  <2>1. n \in Nat /\ m \in Nat /\ \A i \in 1 .. n : f[i] \in QueueItems
    BY LenProperties
  <2>2. \A i \in 1 .. m : r[i] \in QueueItems
    BY LenProperties
  <2>3. /\ c \in Seq(QueueItems) /\ Len(c) = n + m
        /\ \A i \in 1 .. n + m : c[i] = IF i <= n THEN f[i] ELSE r[i - n]
    BY ConcatProperties
  <2> HIDE DEF n, m, c
  <2>4. /\ \A i \in 1 .. n : i \in 1 .. n + m /\ i <= n
        /\ \A i \in 1 .. m : n + i \in 1 .. n + m /\ ~ (n + i <= n) /\ (n + i) - n = i
    BY <2>1
  <2> QED BY <2>1, <2>2, <2>3, <2>4
<1>2. ASSUME NEW k, Begins(f, k), k <= n
      PROVE  /\ Begins(c, k) /\ SubSeq(c, k, n + m) = SubSeq(f, k, n) \o r
             /\ SubSeq(f, k, n) \in Seq(QueueItems) /\ SubSeq(f, k, n) # <<>>
  <2>1. k \in 1 .. n /\ f[k] \notin dead /\ \A i \in 1 .. n : i < k => f[i] \in dead
    BY <1>1, <1>2 DEF Begins
  <2>2. Begins(c, k)
    <3> HIDE DEF n, m, c
    <3>1. k \in 1 .. n + m + 1 /\ \A i \in 1 .. n + m : i < k => i \in 1 .. n
      BY <1>1, <2>1
    <3> QED BY <1>1, <2>1, <3>1 DEF Begins
  <2>3. SubSeq(f, k, n) \in Seq(QueueItems) /\ Len(SubSeq(f, k, n)) = n - k + 1
        /\ \A i \in 1 .. n - k + 1 : SubSeq(f, k, n)[i] = f[k + i - 1]
    <3> HIDE DEF n
    <3>1. k \in Int /\ n \in Int /\ k <= n /\ \A i \in k .. n : f[i] \in QueueItems
      BY <1>1, <2>1
    <3> QED BY <3>1, SubSeqProperties
  <2>4. SubSeq(c, k, n + m) \in Seq(QueueItems) /\ Len(SubSeq(c, k, n + m)) = (n + m) - k + 1
        /\ \A i \in 1 .. (n + m) - k + 1 : SubSeq(c, k, n + m)[i] = c[k + i - 1]
    <3> DEFINE l == n + m
    <3>1. \A i \in 1 .. l : c[i] \in QueueItems
      BY <1>1, LenProperties
    <3>2. l \in Int /\ k \in Int /\ k <= l /\ \A i \in k .. l : i \in 1 .. l
      <4> HIDE DEF n, m
      <4> QED BY <1>1, <2>1
    <3> HIDE DEF l, c
    <3>3. \A i \in k .. l : c[i] \in QueueItems
      BY <3>1, <3>2
    <3>4. SubSeq(c, k, l) \in Seq(QueueItems) /\ Len(SubSeq(c, k, l)) = l - k + 1
          /\ \A i \in 1 .. l - k + 1 : SubSeq(c, k, l)[i] = c[k + i - 1]
      BY <3>2, <3>3, SubSeqProperties
    <3> QED BY <3>4 DEF l
  <2> DEFINE u == SubSeq(f, k, n)
             v == SubSeq(c, k, n + m)
             w == u \o r
  <2>5. /\ w \in Seq(QueueItems) /\ Len(w) = Len(u) + m
        /\ \A i \in 1 .. Len(u) + m : w[i] = IF i <= Len(u) THEN u[i] ELSE r[i - Len(u)]
    BY <2>3, ConcatProperties
  <2>6. u # <<>>
    <3>1. n - k + 1 # 0
      BY <1>1, <2>1
    <3> QED BY <2>3, <3>1, EmptySeq
  <2> HIDE DEF u, v, w, c, n, m
  <2>7. \A i \in 1 .. (n + m) - k + 1 : v[i] = w[i]
    <3> SUFFICES ASSUME NEW i \in 1 .. (n + m) - k + 1 PROVE v[i] = w[i]
      OBVIOUS
    <3>1. Len(u) = n - k + 1 /\ Len(u) \in Nat /\ i \in 1 .. Len(u) + m
      BY <1>1, <2>1, <2>3 DEF u
    <3>2. v[i] = c[k + i - 1]
      BY <2>4 DEF v
    <3>3. CASE i <= Len(u)
      <4> DEFINE l == Len(u)
      <4>a. n \in Nat /\ m \in Nat /\ k \in Nat /\ k > 0 /\ l \in Nat /\ l = n - k + 1
            /\ i \in 1 .. l + m /\ i <= l
        BY <1>1, <2>1, <3>1, <3>3
      <4> HIDE DEF l
      <4>1. k + i - 1 \in 1 .. n /\ i \in 1 .. n - k + 1
        BY <4>a
      <4>2. u[i] = f[k + i - 1] /\ w[i] = u[i]
        BY <1>1, <2>3, <2>5, <3>1, <3>3, <4>1 DEF u
      <4> QED BY <1>1, <3>2, <4>1, <4>2
    <3>4. CASE ~ (i <= Len(u))
      <4> DEFINE l == Len(u)
      <4>1. n \in Nat /\ m \in Nat /\ k \in Nat /\ l \in Nat /\ l = n - k + 1
            /\ i \in 1 .. l + m /\ ~ (i <= l)
        BY <1>1, <2>1, <3>1, <3>4
      <4> HIDE DEF l
      <4>2. i - l \in 1 .. m /\ n + (i - l) = k + i - 1
        BY <4>1
      <4>3. i - Len(u) \in 1 .. m /\ n + (i - Len(u)) = k + i - 1
        BY <4>2 DEF l
      <4>4. w[i] = r[i - Len(u)]
        BY <2>5, <3>1, <3>4
      <4>5. c[k + i - 1] = r[i - Len(u)]
        BY <1>1, <4>3
      <4> QED BY <3>2, <4>4, <4>5
    <3> QED BY <3>3, <3>4
  <2>8. v \in Seq(QueueItems) /\ w \in Seq(QueueItems)
        /\ Len(v) = (n + m) - k + 1 /\ Len(w) = Len(v)
    <3>1. Len(u) = n - k + 1 /\ Len(w) = Len(u) + m
      BY <2>3, <2>5 DEF u
    <3> QED BY <1>1, <2>1, <2>4, <2>5, <3>1 DEF v
  <2>9. v = w
    BY <2>7, <2>8, SeqEqual
  <2> QED BY <2>2, <2>3, <2>6, <2>9 DEF u, v, w
<1>3. ASSUME NEW k, Begins(f, k), ~ (k <= n)
      PROVE  SubSeq(f, k, n) = <<>> /\ \A i \in 1 .. n : f[i] \in dead
  <2> HIDE DEF n
  <2>1. k = n + 1 /\ n < k /\ n \in Int /\ k \in Int
    BY <1>1, <1>3 DEF Begins, n
  <2>2. \A i \in 1 .. n : i < k
    BY <1>1, <2>1
  <2> QED BY <1>3, <2>1, <2>2, SubSeqEmpty DEF Begins, n
<1>4. ASSUME \A i \in 1 .. n : f[i] \in dead, NEW k, Begins(r, k)
      PROVE  /\ Begins(c, n + k) /\ SubSeq(c, n + k, n + m) = SubSeq(r, k, m)
             /\ SubSeq(r, k, m) \in Seq(QueueItems)
  <2>1. k \in 1 .. m + 1 /\ (k <= m => r[k] \notin dead)
        /\ \A i \in 1 .. m : i < k => r[i] \in dead
    BY <1>4 DEF Begins
  <2>2. Begins(c, n + k)
    <3> HIDE DEF n, m, c
    <3>1. /\ n + k \in 1 .. (n + m) + 1 /\ (n + k <= n + m => k \in 1 .. m /\ k <= m)
          /\ \A i \in 1 .. n + m : i \in 1 .. n \/ (i - n \in 1 .. m /\ n + (i - n) = i)
          /\ \A i \in 1 .. n + m : i < n + k /\ i \notin 1 .. n => i - n < k
      BY <1>1, <2>1
    <3>2. n + k <= n + m => c[n + k] \notin dead
      BY <1>1, <2>1, <3>1
    <3>3. ASSUME NEW i \in 1 .. n + m, i < n + k PROVE c[i] \in dead
      <4>1. CASE i \in 1 .. n
        BY <1>1, <1>4, <4>1
      <4>2. CASE i \notin 1 .. n
        <5>1. i - n \in 1 .. m /\ n + (i - n) = i /\ i - n < k
          BY <3>1, <3>3, <4>2
        <5>2. r[i - n] \in dead /\ c[n + (i - n)] = r[i - n]
          BY <1>1, <2>1, <5>1
        <5> QED BY <5>1, <5>2
      <4> QED BY <4>1, <4>2
    <3> QED BY <1>1, <3>1, <3>2, <3>3 DEF Begins
  <2>3. CASE k <= m
    <3>1. /\ n + k \in n + 1 .. n + m /\ n + m \in n + 1 .. n + m
          /\ (n + k) - n = k /\ (n + m) - n = m
      <4> HIDE DEF n, m
      <4> QED BY <1>1, <2>1, <2>3
    <3>2. SubSeq(c, n + k, n + m) = SubSeq(r, (n + k) - n, (n + m) - n)
      BY <3>1, SubSeqOfConcat2
    <3>3. SubSeq(r, k, m) \in Seq(QueueItems)
      <4> HIDE DEF m
      <4>1. k \in Int /\ m \in Int /\ \A i \in k .. m : r[i] \in QueueItems
        BY <1>1, <2>1
      <4> QED BY <4>1, SubSeqProperties
    <3> QED BY <2>2, <3>1, <3>2, <3>3
  <2>4. CASE ~ (k <= m)
    <3>1. n + k \in Int /\ n + m \in Int /\ n + m < n + k /\ m < k /\ m \in Int /\ k \in Int
      <4> HIDE DEF n, m
      <4> QED BY <1>1, <2>1, <2>4
    <3>2. SubSeq(r, k, m) = <<>>
      <4> HIDE DEF m
      <4> QED BY <3>1, SubSeqEmpty
    <3>3. SubSeq(c, n + k, n + m) = <<>>
      <4> DEFINE l == n + m
                 j == n + k
      <4>1. j \in Int /\ l \in Int /\ l < j
        BY <3>1
      <4> HIDE DEF l, j
      <4>2. SubSeq(c, j, l) = <<>>
        BY <4>1, SubSeqEmpty
      <4> QED BY <4>2 DEF l, j
    <3> QED BY <2>2, <3>2, <3>3, EmptySeq
  <2> QED BY <2>3, <2>4
<1>5. Len(c) = n + m
  BY <1>1
<1> HIDE DEF n, m, c
<1>6. /\ \A k : Begins(f, k) /\ k <= n =>
           /\ Begins(c, k) /\ SubSeq(c, k, Len(c)) = SubSeq(f, k, n) \o r
           /\ SubSeq(f, k, n) \in Seq(QueueItems) /\ SubSeq(f, k, n) # <<>>
      /\ \A k : Begins(f, k) /\ ~ (k <= n) => SubSeq(f, k, n) = <<>>
      /\ (\E k : Begins(f, k) /\ ~ (k <= n)) => \A k : Begins(r, k) =>
           /\ Begins(c, n + k) /\ SubSeq(c, n + k, Len(c)) = SubSeq(r, k, m)
           /\ SubSeq(r, k, m) \in Seq(QueueItems)
  BY <1>2, <1>3, <1>4, <1>5
<1> QED BY <1>6 DEF n, m, c

LEMMA CleanPrefixStep ==
  ASSUME ListTypes, Q!cleanPrefix
  PROVE  ListTypes' /\ Q!Queue!Becomes("cleanPrefix", Q!Queue!Trimmed(Listed), Nil)
         /\ UNCHANGED dead
<1> DEFINE r == Reverse(back)
           f == Q!filterPrefix(front)
           g == Q!filterPrefix(r)
<1>1. /\ front \in Seq(QueueItems) /\ r \in Seq(QueueItems) /\ back \in Seq(QueueItems)
      /\ <<>> \in Seq(QueueItems) /\ Listed = front \o r /\ Listed \in Seq(QueueItems)
      /\ \A q \in Seq(QueueItems) : q \o Reverse(<<>>) = q
  BY ContentFacts DEF ListTypes, Listed
<1>2. \/ f = <<>> /\ Q!Assign("cleanPrefix", g, <<>>, Nil)
      \/ f # <<>> /\ Q!Assign("cleanPrefix", f, back, Nil)
  BY SameReverse DEF Q!cleanPrefix
<1>3. PICK k : Begins(front, k) /\ f = SubSeq(front, k, Len(front))
  BY <1>1, FilterPrefixBegins
<1> HIDE DEF r
<1>6. PICK j : Begins(r, j) /\ g = SubSeq(r, j, Len(r))
  BY <1>1, FilterPrefixBegins
<1> HIDE DEF f, g
<1>7. /\ \A n : Begins(front, n) /\ n <= Len(front) =>
            /\ Begins(front \o r, n)
            /\ SubSeq(front \o r, n, Len(front \o r)) = SubSeq(front, n, Len(front)) \o r
            /\ SubSeq(front, n, Len(front)) \in Seq(QueueItems)
            /\ SubSeq(front, n, Len(front)) # <<>>
      /\ \A n : Begins(front, n) /\ ~ (n <= Len(front)) =>
            SubSeq(front, n, Len(front)) = <<>>
      /\ (\E n : Begins(front, n) /\ ~ (n <= Len(front))) => \A n : Begins(r, n) =>
            /\ Begins(front \o r, Len(front) + n)
            /\ SubSeq(front \o r, Len(front) + n, Len(front \o r)) = SubSeq(r, n, Len(r))
            /\ SubSeq(r, n, Len(r)) \in Seq(QueueItems)
  BY <1>1, BeginsConcat
<1>4. CASE f = <<>>
  <2>1. ~ (k <= Len(front))
    BY <1>1, <1>3, <1>4, <1>7
  <2>3. /\ Begins(front \o r, Len(front) + j)
        /\ SubSeq(front \o r, Len(front) + j, Len(front \o r)) = SubSeq(r, j, Len(r))
        /\ SubSeq(r, j, Len(r)) \in Seq(QueueItems)
    BY <1>1, <1>3, <1>6, <1>7, <2>1
  <2>4. Q!Queue!Trimmed(Listed) = g /\ g \in Seq(QueueItems)
    <3> DEFINE c == front \o r
               n == Len(front) + j
    <3>1. c \in Seq(QueueItems) /\ Begins(c, n) /\ SubSeq(c, n, Len(c)) = g /\ Listed = c
      BY <1>1, <1>6, <2>3
    <3> HIDE DEF c, n
    <3> QED BY <1>6, <2>3, <3>1, TrimmedBegins
  <2>5. Q!Assign("cleanPrefix", g, <<>>, Nil)
    BY <1>2, <1>4
  <2>6. Q!Queue!Trimmed(Listed) = g \o Reverse(<<>>)
    BY <1>1, <2>4
  <2> QED BY <1>1, <2>4, <2>5, <2>6, AssignImplements
<1>5. CASE f # <<>>
  <2>1. k <= Len(front)
    BY <1>1, <1>3, <1>5, <1>7
  <2>2. /\ Begins(front \o r, k)
        /\ SubSeq(front \o r, k, Len(front \o r)) = f \o r /\ f \in Seq(QueueItems)
    BY <1>1, <1>3, <1>7, <2>1
  <2>3. Q!Queue!Trimmed(Listed) = f \o r
    <3> DEFINE c == front \o r
    <3>1. c \in Seq(QueueItems) /\ Begins(c, k) /\ SubSeq(c, k, Len(c)) = f \o r /\ Listed = c
      BY <1>1, <2>2
    <3> HIDE DEF c
    <3> QED BY <3>1, TrimmedBegins
  <2>4. Q!Assign("cleanPrefix", f, back, Nil)
    BY <1>2, <1>5
  <2>5. Q!Queue!Trimmed(Listed) = f \o Reverse(back)
    BY <2>3 DEF r
  <2> QED BY <1>1, <2>2, <2>4, <2>5, AssignImplements
<1> QED BY <1>4, <1>5

LEMMA ResetStep ==
  ASSUME ListTypes, Q!reset
  PROVE  ListTypes' /\ Q!Queue!Becomes("reset", <<>>, Nil) /\ UNCHANGED dead
<1>1. <<>> \in Seq(QueueItems) /\ <<>> = <<>> \o Reverse(<<>>)
  BY ContentFacts
<1> QED BY <1>1, AssignImplements DEF Q!reset

LEMMA QueueStep ==
  ASSUME ListTypes, [Q!Next]_(Q!vars)
  PROVE  ListTypes' /\ [Q!Queue!AbstractNext]_(Q!Queue!abstractVars)
<1>1. Q!Queue!Operation <=>
        \/ \E x \in QueueItems : \/ Q!Queue!Becomes("enque", Append(Listed, x), Nil)
                                 \/ Q!Queue!Becomes("enqueAndClean",
                                                  Q!Queue!Alive(Append(Listed, x)), Nil)
        \/ Q!Queue!Becomes("deque", Q!Queue!Rest(Listed), Q!Queue!First(Listed))
        \/ Q!Queue!Becomes("cleanAndDeque", Q!Queue!Rest(Q!Queue!Alive(Listed)),
                         Q!Queue!First(Q!Queue!Alive(Listed)))
        \/ Q!Queue!Becomes("peek", Listed, Q!Queue!First(Listed))
        \/ Q!Queue!Becomes("clean", Q!Queue!Alive(Listed), Nil)
        \/ Q!Queue!Becomes("cleanPrefix", Q!Queue!Trimmed(Listed), Nil)
        \/ Q!Queue!Becomes("reset", <<>>, Nil)
  BY SameReverse DEF Q!Queue!Operation, Listed
<1>2. Q!Queue!Operation /\ UNCHANGED dead => Q!Queue!AbstractNext
  BY DEF Q!Queue!AbstractNext
<1>3. CASE UNCHANGED Q!vars
  BY <1>3 DEF Q!vars, ListTypes, Q!Queue!abstractVars
<1>4. ASSUME NEW x \in QueueItems, Q!enque(x) \/ Q!enqueAndClean(x) \/ Q!Cancel(x)
      PROVE  ListTypes' /\ Q!Queue!AbstractNext
  <2>1. CASE Q!enque(x)
    BY <1>1, <1>2, <2>1, EnqueStep
  <2>2. CASE Q!enqueAndClean(x)
    <3>1. Q!Cleaned("enqueAndClean", Q!cons(x, back))
      BY <2>2 DEF Q!enqueAndClean
    <3>2. Q!cons(x, back) \in Seq(QueueItems)
          /\ front \o Reverse(Q!cons(x, back)) = Append(Listed, x)
      BY ConsFacts
    <3>3. ListTypes' /\ Q!Queue!Becomes("enqueAndClean",
            Q!Queue!Alive(front \o Reverse(Q!cons(x, back))), Nil)
          /\ UNCHANGED dead
      BY <3>1, <3>2, CleanedStep
    <3>4. Q!Queue!Becomes("enqueAndClean", Q!Queue!Alive(Append(Listed, x)), Nil)
      BY <3>2, <3>3
    <3> QED BY <1>1, <1>2, <3>3, <3>4
  <2>3. CASE Q!Cancel(x)
    BY <2>3 DEF Q!Cancel, ListTypes, Q!Queue!AbstractNext
  <2> QED BY <1>4, <2>1, <2>2, <2>3
<1>5. CASE Q!clean
  <2>1. Q!Cleaned("clean", back) /\ back \in Seq(QueueItems)
    BY <1>5 DEF Q!clean, ListTypes
  <2>2. ListTypes' /\ Q!Queue!Becomes("clean", Q!Queue!Alive(front \o Reverse(back)), Nil)
        /\ UNCHANGED dead
    BY <2>1, CleanedStep
  <2>3. Q!Queue!Becomes("clean", Q!Queue!Alive(Listed), Nil)
    BY <2>2 DEF Listed
  <2> QED BY <1>1, <1>2, <2>2, <2>3
<1>6. CASE Q!deque
  BY <1>1, <1>2, <1>6, DequeStep
<1>7. CASE Q!peek
  BY <1>1, <1>2, <1>7, PeekStep
<1>8. CASE Q!cleanPrefix
  BY <1>1, <1>2, <1>8, CleanPrefixStep
<1>9. CASE Q!cleanAndDeque
  BY <1>1, <1>2, <1>9, CleanAndDequeStep
<1>10. CASE Q!reset
  BY <1>1, <1>2, <1>10, ResetStep
<1> QED BY <1>3, <1>4, <1>5, <1>6, <1>7, <1>8, <1>9, <1>10 DEF Q!Next

-----------------------------------------------------------------------------
\* Every operation of imp-queue.sml answers, and leaves, what it would on the one sequence
\* front \o Reverse(back), for any items, any length, and items that die at any time.
THEOREM QueueImplementsSequence == Q!Spec => Q!ImplementsSequence
<1>1. Q!Init => ListTypes /\ Q!Queue!AbstractInit
  <2>1. <<>> \in Seq(QueueItems) /\ Reverse(<<>>) = <<>>
    BY EmptySeq, ReverseFacts
  <2>2. <<>> \o Reverse(<<>>) = <<>>
    BY <2>1, ConcatEmptySeq
  <2> QED BY <2>1, <2>2, SameReverse DEF Q!Init, ListTypes, Q!Queue!AbstractInit
<1>2. ListTypes /\ [Q!Next]_(Q!vars) =>
        ListTypes' /\ [Q!Queue!AbstractNext]_(Q!Queue!abstractVars)
  BY QueueStep
<1> QED BY <1>1, <1>2, PTL DEF Q!Spec, Q!ImplementsSequence, Q!Queue!AbstractSpec

-----------------------------------------------------------------------------
(***************************************************************************)
(* Mailboxes and queues beside the other cells of Concurrent ML.           *)
(***************************************************************************)
\* Each part takes its own steps or rests, so that a behaviour of the whole is one of each part.
LEMMA PartsImplement == MCSpec => Spec /\ SyncVar!Spec /\ Q!Spec
<1>1. MCInit => Init /\ SyncVar!Init /\ Q!Init
  BY DEF MCInit
<1>2. ASSUME [MCNext]_<<vars, cellVars, queueVars, part>>
      PROVE  [Next]_vars /\ [SyncVar!Next]_(SyncVar!vars) /\ [Q!Next]_(Q!vars)
  <2>1. UNCHANGED queueVars => UNCHANGED Q!vars
    BY DEF queueVars, Q!vars
  <2>2. UNCHANGED cellVars => UNCHANGED SyncVar!vars
    BY DEF cellVars, SyncVar!vars
  <2> QED BY <1>2, <2>1, <2>2 DEF MCNext
<1> QED BY <1>1, <1>2, PTL DEF MCSpec, Spec, SyncVar!Spec, Q!Spec

\* imp-queue.sml: the two lists of a queue stay one sequence, beside cells and mailboxes.
THEOREM QueuesStaySequences == MCSpec => ImplementsSequence
<1>1. Q!Spec => Q!ImplementsSequence
  BY QueueImplementsSequence
<1>2. Q!ImplementsSequence <=> ImplementsSequence
  BY DEF ImplementsSequence
<1> QED BY <1>1, <1>2, PartsImplement, PTL

\* sync-var.sml: nobody is lost or sleeps before a full cell, and each value is in one cell
\* or taken by one operation, beside mailboxes and queues.
THEOREM CellsStayOk == MCSpec => []CellsOk
<1>1. SyncVar!Spec => []SyncVar!SchedulingOk
  BY SyncVarRequests, SyncVar!SyncVarSchedulingOk
<1>2. SyncVar!Spec => []SyncVar!ValuesConserved
  BY SyncVarRequests, SyncVarTakers, SyncVar!SyncVarValuesConserved
<1>3. SyncVar!SchedulingOk /\ SyncVar!ValuesConserved => CellsOk
  BY DEF CellsOk
<1> QED BY <1>1, <1>2, <1>3, PartsImplement, PTL
=============================================================================
