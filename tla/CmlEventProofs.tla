---------------------------- MODULE CmlEventProofs ----------------------------
(***************************************************************************)
(* Channels, choice and negative acknowledgements are sound for any        *)
(* threads, channels and requests: nobody is lost, no partners sleep side  *)
(* by side, a nack is set exactly when its group has lost, and what the    *)
(* queues, transaction ids and helpers do is synchronous rendezvous.  That *)
(* no internal exception is raised needs requests free of the race         *)
(* between a choice that sets its nacks and the partner it has polled.     *)
(***************************************************************************)
EXTENDS CmlEvent, CmlLemmas

(***************************************************************************)
(* The inductive invariant.                                                *)
(***************************************************************************)
Waits(t) == pc[Main(t)] \in {"send", "recv", "wait", "sent", "received", "helped"}
Idles(t) == pc[Main(t)] \in {"run", "exiting", "dead"}
Exec(e)  == sched.atomic = 1 /\ sched.cur = e

\* What the agenda holds.
ToBeSet(v)   == \E k \in DOMAIN agenda : agenda[k].do = "set" /\ agenda[k].cv = v
ToWake(item) == \E k \in DOMAIN agenda : agenda[k].do = "wake" /\ agenda[k].item = item
Readied(e)   == \E k \in DOMAIN agenda : agenda[k].do = "ready" /\ agenda[k].item.thr = e

\* An entity that has been given its rendezvous or its wake-up: its operation has
\* committed, and it has not passed the result on.
Given(e)  == \/ pc[e] = "return"
             \/ Exec(e) /\ pc[e] \in {"send", "recv", "sent", "received"}
             \/ Readied(e)
Placed(e) == \/ pc[e] \in {"run", "sync", "choice", "exiting", "sent", "received", "return"}
             \/ Exec(e)

\* The request of t is one of those of the program, its guards evaluated.
Events     == [kind : {"send", "recv"}, on : Channels, within : SUBSET {1, 2}]
                \cup [kind : {"wait"}, on : CVars, within : SUBSET {1, 2}]
Operations == [mode : {"call", "poll", "sync"}, events : Seq(Events), nacks : SUBSET {1, 2}]

Evaluated(t, r) ==
  /\ request[t] \in Operations /\ request[t].mode = r.mode /\ request[t].nacks = r.nacks
  /\ Len(request[t].events) = Len(r.events)
  /\ \A i \in DOMAIN r.events :
       /\ request[t].events[i].kind = r.events[i].kind
       /\ request[t].events[i].within = r.events[i].within
       /\ IF r.events[i].kind = "wait"
          THEN /\ request[t].events[i].on[3] = r.events[i].on[2]
               /\ cvars[request[t].events[i].on].state # "none"
          ELSE request[t].events[i].on = r.events[i].on

\* An operation has a result when its thread is back in user code, and its transaction
\* id is alive until it blocks.
OpsOk(t) ==
  /\ ops[t] > 0 => \E r \in Requests : Evaluated(t, r)
  /\ ~ Idles(t) => ops[t] > 0
  /\ ops[t] > 0 => (Idles(t) <=> result[Tx0(t)] # Nil)
  /\ pc[Main(t)] = "sync" => Tx0(t) \notin cancelled
  /\ Waits(t) => (pc[Main(t)] = "helped" <=> HasHelpers(t))

KindOf(point) == CASE point \in {"send", "sent"} -> "send"
                   [] point \in {"recv", "received"} -> "recv"
                   [] OTHER -> "wait"

\* One entity of a thread at most is given its rendezvous, by a partner that cancels the
\* transaction; a receiver has the message of the sender it was matched with.
GivenOk(e) ==
  Given(e) =>
    /\ Waits(e[1]) /\ Tx0(e[1]) \in cancelled
    /\ \E i \in DOMAIN request[e[1]].events : e = Waiter(e[1], i)
    /\ pc[e] # "return" => Event(e).kind = KindOf(pc[e])
    /\ Readied(e) => pc[e] = "wait"
    /\ \A f \in Entities : f[1] = e[1] /\ Given(f) => f = e
    /\ Event(e).kind = "recv" => \E c \in Channels : <<val[e], Tx0(e[1]), c>> \in matched
    /\ Event(e).kind = "send" => \E m \in matched : m[1] = Tx0(e[1])

\* Critical sections are entered by the thread on the processor.
EntityOk(e) ==
  /\ pc[e] \in {"choice", "exiting", "sent", "received"} => Exec(e)
  /\ e[2] # 0 => pc[e] \in {"none", "send", "recv", "wait", "sent", "received", "return"}

\* An operation that has met a partner has returned or is about to.
MeetsNow(t) == \/ pc[Main(t)] = "reply"
               \/ \E e \in Entities : e[1] = t /\ Given(e) /\ Event(e).kind # "wait"

MetOk(t) ==
  ops[t] > 0 /\ result[Tx0(t)] = Nil /\ (\E m \in matched : Tx0(t) \in {m[1], m[2]})
  => MeetsNow(t)

ThreadOk(t) ==
  /\ OpsOk(t) /\ MetOk(t)
  /\ \A e \in Entities : e[1] = t => GivenOk(e) /\ EntityOk(e)

\* The entity in the critical section, the thread it may have to answer, and what a
\* thread has committed to.
PhaseInv ==
  /\ sched.atomic = 0 => agenda = <<>>
  /\ sched.atomic = 1 =>
       /\ sched.cur \in Entities
       /\ pc[sched.cur] \in {"choice", "exiting", "send", "recv", "sent", "received"}
       /\ pc[sched.cur] \in {"send", "recv"} => agenda = <<>>
       /\ pc[sched.cur] \in {"send", "sent"} =>
            \E t \in Threads : val[sched.cur] = Main(t) /\ pc[Main(t)] = "reply"

ReplyOk(t) ==
  /\ sched.atomic = 1 /\ pc[sched.cur] \in {"send", "sent"} /\ val[sched.cur] = Main(t)
  /\ choice \in DOMAIN request[t].events /\ request[t].events[choice].kind = "recv"
  /\ \E c \in Channels : <<Tx0(sched.cur[1]), Tx0(t), c>> \in matched

\* What t has committed to is still there.
ChoiceOk(t) ==
  /\ choice \in DOMAIN request[t].events
  /\ request[t].events[choice].kind = "send" => inQ[request[t].events[choice].on] # <<>>
  /\ request[t].events[choice].kind = "recv" => outQ[request[t].events[choice].on] # <<>>
  /\ request[t].events[choice].kind = "wait" =>
       cvars[request[t].events[choice].on].state = "set"

CommitInv ==
  \A t \in Threads : /\ pc[Main(t)] = "reply" => ReplyOk(t)
                     /\ pc[Main(t)] = "choice" => ChoiceOk(t)

\* A live item belongs to a thread that waits with its last operation, and names a
\* waiter that is blocked on that queue.
LiveItem(item, kind, on) ==
  \E u \in Threads : Waits(u) /\ \E i \in DOMAIN request[u].events :
    /\ request[u].events[i].kind = kind /\ request[u].events[i].on = on
    /\ item = Item(u, i) /\ pc[Waiter(u, i)] = kind

In(item, q) == \E k \in DOMAIN q : q[k] = item

ItemsInv ==
  \A item : Live(item) =>
    /\ \A c \in Channels : In(item, inQ[c]) => LiveItem(item, "recv", c)
    /\ \A c \in Channels : In(item, outQ[c]) => LiveItem(item, "send", c)
    /\ \A v \in CVars : In(item, cvars[v].waiting) => LiveItem(item, "wait", v)
    /\ ToWake(item) => \E v \in CVars : LiveItem(item, "wait", v)

\* A thread that waits has been given its rendezvous, or has an item for each event.
InQueue(t, i) ==
  \/ In(Item(t, i), QueueOf(request[t].events[i]))
  \/ request[t].events[i].kind = "wait" /\ ToWake(Item(t, i))

BlockedOk(t) ==
  Waits(t) => IF Tx0(t) \in cancelled THEN \E e \in Entities : e[1] = t /\ Given(e)
              ELSE \A i \in DOMAIN request[t].events : InQueue(t, i)

PlacesInv == \A e \in Entities : Scheduled(e) = One(Placed(e))

PartnersInv ==
  \A c \in Channels : \A x, y :
    In(x, inQ[c]) /\ In(y, outQ[c]) /\ Live(x) /\ Live(y) => x.tx = y.tx

\* A nack is set, or about to be, if its thread has committed to an event outside the
\* group.
Settled(v) == cvars[v].state = "set" \/ ToBeSet(v)

Commits(t, i) ==
  \/ result[Tx0(t)] # Nil /\ result[Tx0(t)].event = i
  \/ pc[Main(t)] \in {"choice", "reply"} /\ choice = i
  \/ Waits(t) /\ \/ pc[Waiter(t, i)] \in {"sent", "received", "return"}
                 \/ Readied(Waiter(t, i))

Loses(t, n) ==
  \E i \in DOMAIN request[t].events : Commits(t, i) /\ n \notin request[t].events[i].within

NacksOk(t) ==
  ops[t] > 0 => \A n \in request[t].nacks :
    /\ cvars[<<t, ops[t], n>>].state # "none"
    /\ Settled(<<t, ops[t], n>>) <=> Loses(t, n)

Clash(x, y) == \/ x.do = "set" /\ y.do = "set" /\ x.cv = y.cv
               \/ x.do = "ready" /\ y.do = "ready" /\ x.item.thr[1] = y.item.thr[1]

Distinct(q) == \A k, l \in DOMAIN q : Clash(q[k], q[l]) => k = l

\* The agenda sets no variable and readies no thread twice.
CVarsInv ==
  /\ Distinct(agenda)
  /\ \A v \in CVars :
       /\ cvars[v].state # "unset" => cvars[v].waiting = <<>>
       /\ v[2] > ops[v[1]] => cvars[v].state = "none"
       /\ ToBeSet(v) => /\ cvars[v].state = "unset"
                        /\ \/ v = <<v[1], 0, 0>>
                           \/ ops[v[1]] > 0 /\ v \in Nacks(v[1])
  /\ \A t \in Threads :
       /\ cvars[<<t, 0, 0>>].state # "none"
       /\ Settled(<<t, 0, 0>>) => pc[Main(t)] \in {"exiting", "dead"}

\* Each operation meets one other at most.
MatchInv ==
  /\ \A x \in cancelled : x[2] <= ops[x[1]]
  /\ \A x \in Tx : x[2] > ops[x[1]] => result[x] = Nil
  /\ \A m \in matched : m[1][2] <= ops[m[1][1]] /\ m[2][2] <= ops[m[2][1]] /\ m[1] # m[2]
  /\ \A m, n \in matched : {m[1], m[2]} \cap {n[1], n[2]} # {} => m = n

ThreadsInv == \A t \in Threads : ThreadOk(t) /\ BlockedOk(t) /\ NacksOk(t)

EventInv ==
  /\ TypeOK /\ ThreadsInv /\ PhaseInv /\ CommitInv /\ ItemsInv /\ PlacesInv
  /\ PartnersInv /\ CVarsInv /\ MatchInv

-----------------------------------------------------------------------------
(***************************************************************************)
(* Threads, entities and requests.                                         *)
(***************************************************************************)
LEMMA EntityFacts ==
  /\ NoThread \notin Entities /\ Nil \notin Tx /\ MaxOps \in Nat /\ Fan \in Nat
  /\ \A t \in Threads : Main(t) \in Entities /\ Main(t)[1] = t /\ Main(t)[2] = 0
  /\ \A e \in Entities : e[1] \in Threads /\ e[2] \in 0 .. Fan /\ e = <<e[1], e[2]>>
  /\ \A e \in Entities : e[2] = 0 <=> e = Main(e[1])
  /\ \A t \in Threads, i \in 1 .. Fan :
       /\ <<t, i>> \in Entities /\ <<t, i>> # Main(t)
       /\ <<t, i>>[1] = t /\ <<t, i>>[2] = i
  /\ \A t, u : Main(t) = Main(u) => t = u
BY RequestsAssumption DEF Entities, Main, Tx

LEMMA TxFacts ==
  /\ \A x \in Tx : x[1] \in Threads /\ x[2] \in 1 .. MaxOps /\ x[2] \in Nat
                   /\ x = <<x[1], x[2]>>
  /\ \A t, u : Tx0(t) = Tx0(u) => t = u
  /\ \A t : Tx0(t)[1] = t /\ Tx0(t)[2] = ops[t]
BY EntityFacts DEF Tx, Tx0

LEMMA CVarFacts ==
  /\ \A v \in CVars : /\ v[1] \in Threads /\ v[2] \in 0 .. MaxOps /\ v[3] \in 0 .. 2
                      /\ v = <<v[1], v[2], v[3]>>
  /\ \A t \in Threads, k \in 0 .. MaxOps, n \in 0 .. 2 : <<t, k, n>> \in CVars
  /\ \A t \in Threads : <<t, 0, 0>> \in CVars
BY EntityFacts DEF CVars

\* The request of a thread that has begun an operation.
LEMMA RequestFacts ==
  ASSUME TypeOK, NEW t \in Threads, ops[t] > 0, OpsOk(t)
  PROVE  /\ request[t] \in Operations
         /\ Len(request[t].events) \in 1 .. Fan
         /\ DOMAIN request[t].events = 1 .. Len(request[t].events)
         /\ request[t].mode # "sync" =>
              /\ Len(request[t].events) = 1 /\ request[t].nacks = {} /\ ~ HasHelpers(t)
              /\ \A i \in DOMAIN request[t].events : request[t].events[i].kind # "wait"
         /\ ~ HasHelpers(t) => Len(request[t].events) = 1
         /\ \A i \in DOMAIN request[t].events :
              /\ request[t].events[i] \in Events /\ i \in 1 .. Fan
              /\ request[t].events[i].kind \in {"send", "recv", "wait"}
              /\ request[t].events[i].kind # "wait" => request[t].events[i].on \in Channels
              /\ request[t].events[i].kind = "wait" =>
                   /\ request[t].events[i].on \in CVars
                   /\ cvars[request[t].events[i].on].state # "none"
              /\ Waiter(t, i) \in Entities /\ Waiter(t, i)[1] = t
              /\ Item(t, i) \in Items /\ Event(Waiter(t, i)) = request[t].events[i]
         /\ request[t].nacks \subseteq {1, 2}
         /\ ops[t] \in 1 .. MaxOps /\ Tx0(t) \in Tx
         /\ \A n \in request[t].nacks : <<t, ops[t], n>> \in CVars
<1>1. PICK r \in Requests : Evaluated(t, r)
  BY DEF OpsOk
<1>2. /\ r \in [mode : {"call", "poll", "sync"}, events : Seq(BaseEvents), nacks : SUBSET {1, 2}]
      /\ Len(r.events) \in 1 .. Fan
      /\ r.mode # "sync" => r.nacks = {} /\ Len(r.events) = 1 /\ r.events[1].kind # "wait"
  BY RequestsAssumption
<1>3. /\ request[t] \in Operations /\ request[t].mode = r.mode /\ request[t].nacks = r.nacks
      /\ Len(request[t].events) = Len(r.events)
      /\ \A i \in DOMAIN r.events :
           /\ request[t].events[i].kind = r.events[i].kind
           /\ r.events[i].kind = "wait" => cvars[request[t].events[i].on].state # "none"
  BY <1>1 DEF Evaluated
<1>4. request[t].events \in Seq(Events) /\ request[t].nacks \subseteq {1, 2}
  BY <1>3 DEF Operations
<1>5. /\ DOMAIN request[t].events = 1 .. Len(request[t].events)
      /\ DOMAIN r.events = 1 .. Len(r.events)
      /\ Len(request[t].events) \in 1 .. Fan /\ Fan \in Nat
      /\ \A i \in DOMAIN request[t].events : request[t].events[i] \in Events
  BY <1>2, <1>3, <1>4, EntityFacts
<1>6. ops[t] \in 1 .. MaxOps /\ Tx0(t) \in Tx
  BY EntityFacts DEF TypeOK, Tx0, Tx
<1>7. ~ HasHelpers(t) => Len(request[t].events) = 1
  <2> DEFINE n == Len(request[t].events)
  <2>1. n \in 1 .. Fan /\ Fan \in Nat
    BY <1>5
  <2>2. ~ (n > 1) => n = 1
    <3> HIDE DEF n
    <3> QED BY <2>1
  <2> QED BY <2>2 DEF HasHelpers
<1>8. ASSUME NEW i \in DOMAIN request[t].events
      PROVE  /\ request[t].events[i].kind \in {"send", "recv", "wait"}
             /\ request[t].events[i].kind # "wait" => request[t].events[i].on \in Channels
             /\ request[t].events[i].kind = "wait" =>
                  /\ request[t].events[i].on \in CVars
                  /\ cvars[request[t].events[i].on].state # "none"
             /\ i \in 1 .. Fan /\ Waiter(t, i) \in Entities /\ Waiter(t, i)[1] = t
             /\ Item(t, i) \in Items /\ Event(Waiter(t, i)) = request[t].events[i]
  <2>1. request[t].events[i] \in Events /\ i \in 1 .. Fan
    BY <1>5
  <2>2. Waiter(t, i) \in Entities /\ Waiter(t, i)[1] = t
    BY <2>1, EntityFacts DEF Waiter
  <2>3. Item(t, i) \in Items
    BY <1>6, <2>2 DEF Item, Items
  <2>4. ~ HasHelpers(t) => i = 1
    BY <1>5, <1>7
  <2>5. Event(Waiter(t, i)) = request[t].events[i]
    BY <2>1, <2>4, EntityFacts DEF Event, Waiter, Main
  <2>6. /\ request[t].events[i].kind \in {"send", "recv", "wait"}
        /\ request[t].events[i].kind # "wait" => request[t].events[i].on \in Channels
        /\ request[t].events[i].kind = "wait" => request[t].events[i].on \in CVars
    BY <2>1 DEF Events
  <2>7. request[t].events[i].kind = "wait" => cvars[request[t].events[i].on].state # "none"
    BY <1>3, <1>5
  <2> QED BY <2>1, <2>2, <2>3, <2>5, <2>6, <2>7
<1>9. request[t].mode # "sync" =>
        /\ Len(request[t].events) = 1 /\ request[t].nacks = {} /\ ~ HasHelpers(t)
        /\ \A i \in DOMAIN request[t].events : request[t].events[i].kind # "wait"
  BY <1>2, <1>3, <1>5 DEF HasHelpers
<1>10. \A n \in request[t].nacks : <<t, ops[t], n>> \in CVars
  <2>1. ops[t] \in 0 .. MaxOps
    BY <1>6, EntityFacts
  <2>2. \A n \in request[t].nacks : n \in 0 .. 2
    BY <1>4
  <2> QED BY <2>1, <2>2, CVarFacts
<1> QED BY <1>3, <1>4, <1>5, <1>6, <1>7, <1>8, <1>9, <1>10

\* A thread in the middle of an operation.
LEMMA InOperation ==
  ASSUME EventInv, NEW t \in Threads, ~ Idles(t)
  PROVE  ops[t] > 0 /\ OpsOk(t) /\ result[Tx0(t)] = Nil /\ Tx0(t) \in Tx
<1>1. OpsOk(t) /\ TypeOK
  BY DEF EventInv, ThreadsInv, ThreadOk
<1>2. ops[t] > 0 /\ result[Tx0(t)] = Nil
  BY <1>1 DEF OpsOk
<1> QED BY <1>1, <1>2, RequestFacts

-----------------------------------------------------------------------------
(***************************************************************************)
(* What a step leaves alone.                                               *)
(***************************************************************************)
Same(u) ==
  /\ request'[u] = request[u] /\ ops'[u] = ops[u] /\ result'[Tx0(u)] = result[Tx0(u)]
  /\ Tx0(u) \in cancelled' <=> Tx0(u) \in cancelled
  /\ pc[Main(u)] \in {"choice", "reply"} => choice' = choice
  /\ \A e \in Entities : e[1] = u =>
       /\ pc'[e] = pc[e] /\ val'[e] = val[e]
       /\ Exec(e)' <=> Exec(e)
       /\ Readied(e)' <=> Readied(e)

LEMMA SameFacts ==
  ASSUME NEW u \in Threads, Same(u)
  PROVE  /\ pc'[Main(u)] = pc[Main(u)] /\ Tx0(u)' = Tx0(u)
         /\ Waits(u)' <=> Waits(u)
         /\ Idles(u)' <=> Idles(u)
         /\ HasHelpers(u)' <=> HasHelpers(u)
         /\ \A i : Waiter(u, i)' = Waiter(u, i) /\ Item(u, i)' = Item(u, i)
         /\ \A e \in Entities : e[1] = u => (Given(e)' <=> Given(e)) /\ Event(e)' = Event(e)
<1>1. /\ pc'[Main(u)] = pc[Main(u)] /\ Tx0(u)' = Tx0(u)
      /\ HasHelpers(u)' <=> HasHelpers(u)
  BY EntityFacts DEF Same, Tx0, HasHelpers
<1>2. \A i : Waiter(u, i)' = Waiter(u, i)
  BY <1>1 DEF Waiter
<1>3. \A i : Item(u, i)' = Item(u, i)
  BY <1>1, <1>2 DEF Item
<1>4. \A e \in Entities : e[1] = u => (Given(e)' <=> Given(e)) /\ Event(e)' = Event(e)
  BY DEF Same, Given, Event
<1> QED BY <1>1, <1>2, <1>3, <1>4 DEF Waits, Idles

\* Nothing alive leaves a queue, but for those a variable that is set is about to wake.
Kept ==
  \A item : item.tx \notin cancelled' =>
    /\ \A c \in Channels : In(item, inQ[c]) => In(item, inQ[c])'
    /\ \A c \in Channels : In(item, outQ[c]) => In(item, outQ[c])'
    /\ \A v \in CVars : In(item, cvars[v].waiting) => In(item, cvars[v].waiting)' \/ ToWake(item)'
    /\ ToWake(item) => ToWake(item)'

\* Nothing alive comes to a queue, but for the items of a thread that blocks.
Brought ==
  \A item : item.tx \notin cancelled' =>
    /\ \A c \in Channels : In(item, inQ[c])' => In(item, inQ[c]) \/ LiveItem(item, "recv", c)'
    /\ \A c \in Channels : In(item, outQ[c])' => In(item, outQ[c]) \/ LiveItem(item, "send", c)'
    /\ \A v \in CVars :
         In(item, cvars[v].waiting)' => In(item, cvars[v].waiting) \/ LiveItem(item, "wait", v)'
    /\ ToWake(item)' => ToWake(item) \/ \E v \in CVars : In(item, cvars[v].waiting)

CVarsLast == \A v \in CVars : cvars[v].state # "none" => cvars'[v].state # "none"

LEMMA ThreadFrame ==
  ASSUME EventInv, NEW u \in Threads, Same(u), CVarsLast, matched \subseteq matched',
         \A m \in matched' : m \notin matched => m[1] # Tx0(u) /\ m[2] # Tx0(u)
  PROVE  ThreadOk(u)'
<1>1. TypeOK /\ ThreadOk(u)
  BY DEF EventInv, ThreadsInv
<1>2. ops[u] > 0 => \E r \in Requests : Evaluated(u, r)'
  <2> SUFFICES ASSUME ops[u] > 0 PROVE \E r \in Requests : Evaluated(u, r)'
    OBVIOUS
  <2>1. PICK r \in Requests : Evaluated(u, r)
    BY <1>1 DEF ThreadOk, OpsOk
  <2>2. \A i \in DOMAIN request[u].events : request[u].events[i].kind = "wait" =>
          request[u].events[i].on \in CVars
    BY <1>1, RequestFacts DEF ThreadOk
  <2>3. DOMAIN r.events = DOMAIN request[u].events
    BY <2>1, RequestsAssumption DEF Evaluated, Operations
  <2>4. \A i \in DOMAIN r.events : r.events[i].kind = "wait" =>
          cvars'[request[u].events[i].on].state # "none"
    BY <2>1, <2>2, <2>3 DEF Evaluated, CVarsLast
  <2> QED BY <2>1, <2>4 DEF Evaluated, Same
<1>3. OpsOk(u)'
  BY <1>1, <1>2, SameFacts DEF ThreadOk, OpsOk, Same
<1>4. \A e \in Entities : e[1] = u => EntityOk(e)'
  BY <1>1 DEF ThreadOk, EntityOk, Same
<1>5. \A e \in Entities : e[1] = u => GivenOk(e)'
  <2> SUFFICES ASSUME NEW e \in Entities, e[1] = u, Given(e)
               PROVE  GivenOk(e)'
    BY SameFacts DEF GivenOk
  <2>1. /\ Waits(u) /\ Tx0(u) \in cancelled
        /\ \E i \in DOMAIN request[u].events : e = Waiter(u, i)
        /\ pc[e] # "return" => Event(e).kind = KindOf(pc[e])
        /\ Readied(e) => pc[e] = "wait"
        /\ \A f \in Entities : f[1] = u /\ Given(f) => f = e
        /\ Event(e).kind = "recv" => \E c \in Channels : <<val[e], Tx0(u), c>> \in matched
        /\ Event(e).kind = "send" => \E m \in matched : m[1] = Tx0(u)
    BY <1>1 DEF ThreadOk, GivenOk
  <2>2. /\ Waits(u)' /\ Tx0(u)' = Tx0(u) /\ Tx0(u)' \in cancelled' /\ Event(e)' = Event(e)
        /\ pc'[e] = pc[e] /\ val'[e] = val[e] /\ (Readied(e)' <=> Readied(e))
    BY <2>1, SameFacts DEF Same
  <2>3. \E i \in DOMAIN request'[u].events : e = Waiter(u, i)'
    BY <2>1, SameFacts DEF Same
  <2>4. \A f \in Entities : f[1] = u /\ Given(f)' => f = e
    BY <2>1, SameFacts
  <2>5. /\ Event(e).kind = "recv" => \E c \in Channels : <<val[e], Tx0(u), c>> \in matched'
        /\ Event(e).kind = "send" => \E m \in matched' : m[1] = Tx0(u)
    BY <2>1
  <2> QED BY <2>1, <2>2, <2>3, <2>4, <2>5 DEF GivenOk
<1>6. MetOk(u)'
  <2> SUFFICES ASSUME ops[u] > 0, result[Tx0(u)] = Nil,
                      NEW m \in matched', Tx0(u) \in {m[1], m[2]}
               PROVE  MeetsNow(u)'
    BY SameFacts DEF MetOk, Same
  <2>1. MeetsNow(u)
    BY <1>1 DEF ThreadOk, MetOk
  <2> QED BY <2>1, SameFacts DEF MeetsNow
<1> QED BY <1>3, <1>4, <1>5, <1>6 DEF ThreadOk

LEMMA BlockedFrame ==
  ASSUME EventInv, NEW u \in Threads, Same(u), Kept
  PROVE  BlockedOk(u)'
<1>1. TypeOK /\ ThreadOk(u) /\ BlockedOk(u)
  BY DEF EventInv, ThreadsInv
<1>2. CASE ~ Waits(u)
  BY <1>2, SameFacts DEF BlockedOk
<1>3. CASE Waits(u) /\ Tx0(u) \in cancelled
  <2>1. PICK e \in Entities : e[1] = u /\ Given(e)
    BY <1>1, <1>3 DEF BlockedOk
  <2> QED BY <1>3, <2>1, SameFacts DEF BlockedOk, Same
<1>4. CASE Waits(u) /\ Tx0(u) \notin cancelled
  <2>1. Tx0(u)' \notin cancelled' /\ ops[u] > 0
    BY <1>1, <1>4, SameFacts DEF Same, ThreadOk, OpsOk, Waits, Idles
  <2>2. ASSUME NEW i \in DOMAIN request[u].events
        PROVE  InQueue(u, i)'
    <3>1. InQueue(u, i)
      BY <1>1, <1>4 DEF BlockedOk
    <3>2. /\ request[u].events[i].kind \in {"send", "recv", "wait"}
          /\ request[u].events[i].kind # "wait" => request[u].events[i].on \in Channels
          /\ request[u].events[i].kind = "wait" => request[u].events[i].on \in CVars
      BY <1>1, <2>1, RequestFacts DEF ThreadOk
    <3>3. Item(u, i)' = Item(u, i) /\ Item(u, i).tx = Tx0(u) /\ Item(u, i).tx \notin cancelled'
      BY <2>1, SameFacts DEF Item
    <3>4. request'[u] = request[u]
      BY DEF Same
    <3> QED BY <3>1, <3>2, <3>3, <3>4 DEF InQueue, QueueOf, Kept
  <2> QED BY <1>4, <2>1, <2>2, SameFacts DEF BlockedOk, Same
<1> QED BY <1>2, <1>3, <1>4

LEMMA CommitsFrame ==
  ASSUME NEW u \in Threads, TypeOK, ops[u] > 0, OpsOk(u), Same(u)
  PROVE  \A n : Loses(u, n)' <=> Loses(u, n)
<1>1. \A i \in DOMAIN request[u].events : Waiter(u, i) \in Entities /\ Waiter(u, i)[1] = u
  BY RequestFacts
<1>2. \A i \in DOMAIN request[u].events : Commits(u, i)' <=> Commits(u, i)
  BY <1>1, SameFacts DEF Commits, Same
<1> QED BY <1>2 DEF Loses, Same

LEMMA NacksFrame ==
  ASSUME EventInv, NEW u \in Threads, Same(u), CVarsLast,
         \A v \in CVars : v[1] = u => (Settled(v)' <=> Settled(v))
  PROVE  NacksOk(u)'
<1>1. TypeOK /\ OpsOk(u) /\ NacksOk(u)
  BY DEF EventInv, ThreadsInv, ThreadOk
<1> SUFFICES ASSUME ops[u] > 0, NEW n \in request[u].nacks
             PROVE  /\ cvars'[<<u, ops[u], n>>].state # "none"
                    /\ Settled(<<u, ops[u], n>>)' <=> Loses(u, n)'
  BY DEF NacksOk, Same
<1>2. <<u, ops[u], n>> \in CVars
  BY <1>1, RequestFacts
<1>3. Loses(u, n)' <=> Loses(u, n)
  BY <1>1, CommitsFrame
<1>4. <<u, ops[u], n>>[1] = u /\ <<u, ops[u], n>>' = <<u, ops[u], n>>
  BY DEF Same
<1> HIDE DEF Settled
<1>5. Settled(<<u, ops[u], n>>)' <=> Settled(<<u, ops[u], n>>)
  BY <1>2, <1>4
<1> QED BY <1>1, <1>2, <1>3, <1>5 DEF NacksOk, CVarsLast

\* A live item stays that of a blocked waiter, as long as its owner does nothing.
LEMMA LiveItemFrame ==
  ASSUME NEW item, NEW kind, NEW on, LiveItem(item, kind, on), TypeOK, ThreadsInv,
         \A u \in Threads : Waits(u) /\ item.tx = Tx0(u) => Same(u)
  PROVE  LiveItem(item, kind, on)'
<1>1. PICK u \in Threads : Waits(u) /\ \E i \in DOMAIN request[u].events :
        /\ request[u].events[i].kind = kind /\ request[u].events[i].on = on
        /\ item = Item(u, i) /\ pc[Waiter(u, i)] = kind
  BY DEF LiveItem
<1>2. PICK i \in DOMAIN request[u].events :
        /\ request[u].events[i].kind = kind /\ request[u].events[i].on = on
        /\ item = Item(u, i) /\ pc[Waiter(u, i)] = kind
  BY <1>1
<1>3. Same(u)
  BY <1>1, <1>2 DEF Item
<1>4. Waiter(u, i) \in Entities /\ Waiter(u, i)[1] = u
  BY <1>1, RequestFacts DEF ThreadsInv, ThreadOk, OpsOk, Waits, Idles
<1>5. /\ Waits(u)' /\ Waiter(u, i)' = Waiter(u, i) /\ Item(u, i)' = Item(u, i)
      /\ pc'[Waiter(u, i)] = pc[Waiter(u, i)] /\ request'[u] = request[u]
  BY <1>1, <1>3, <1>4, SameFacts DEF Same
<1> QED BY <1>2, <1>5 DEF LiveItem

LEMMA ItemsFrame ==
  ASSUME EventInv, cancelled \subseteq cancelled', Brought,
         \A u \in Threads : Waits(u) => Same(u) \/ Tx0(u) \in cancelled'
  PROVE  ItemsInv'
<1>1. TypeOK /\ ThreadsInv /\ ItemsInv
  BY DEF EventInv
<1>2. ASSUME NEW item, item.tx \notin cancelled', NEW kind, NEW on, LiveItem(item, kind, on)
      PROVE  LiveItem(item, kind, on)'
  BY <1>1, <1>2, LiveItemFrame
<1>3. ASSUME NEW item, item.tx \notin cancelled'
      PROVE  /\ \A c \in Channels : In(item, inQ[c])' => LiveItem(item, "recv", c)'
             /\ \A c \in Channels : In(item, outQ[c])' => LiveItem(item, "send", c)'
             /\ \A v \in CVars : In(item, cvars[v].waiting)' => LiveItem(item, "wait", v)'
             /\ ToWake(item)' => \E v \in CVars : LiveItem(item, "wait", v)'
  <2>1. /\ \A c \in Channels : In(item, inQ[c]) => LiveItem(item, "recv", c)
        /\ \A c \in Channels : In(item, outQ[c]) => LiveItem(item, "send", c)
        /\ \A v \in CVars : In(item, cvars[v].waiting) => LiveItem(item, "wait", v)
        /\ ToWake(item) => \E v \in CVars : LiveItem(item, "wait", v)
    BY <1>1, <1>3 DEF ItemsInv, Live
  <2>2. \A c \in Channels : In(item, inQ[c])' => LiveItem(item, "recv", c)'
    BY <1>2, <1>3, <2>1 DEF Brought
  <2>3. \A c \in Channels : In(item, outQ[c])' => LiveItem(item, "send", c)'
    BY <1>2, <1>3, <2>1 DEF Brought
  <2>4. \A v \in CVars : In(item, cvars[v].waiting)' => LiveItem(item, "wait", v)'
    BY <1>2, <1>3, <2>1 DEF Brought
  <2>5. ToWake(item)' => \E v \in CVars : LiveItem(item, "wait", v)'
    <3> SUFFICES ASSUME ToWake(item)' PROVE \E v \in CVars : LiveItem(item, "wait", v)'
      OBVIOUS
    <3>1. PICK v \in CVars : LiveItem(item, "wait", v)
      BY <1>3, <2>1 DEF Brought
    <3> QED BY <1>2, <1>3, <3>1
  <2> QED BY <2>2, <2>3, <2>4, <2>5
<1> QED BY <1>3 DEF ItemsInv, Live

LEMMA PlacesFrame ==
  ASSUME EventInv, NEW M,
         \A u \in Threads : u \notin M => Same(u),
         \A e \in Entities : IF e[1] \in M THEN Scheduled(e)' = One(Placed(e)')
                             ELSE Scheduled(e)' = Scheduled(e)
  PROVE  PlacesInv'
<1>1. PlacesInv
  BY DEF EventInv
<1> HIDE DEF Scheduled
<1>2. \A e \in Entities : e[1] \notin M => (Placed(e)' <=> Placed(e))
  BY EntityFacts DEF Placed, Same
<1>3. \A e \in Entities : e[1] \notin M => Scheduled(e)' = One(Placed(e)')
  BY <1>1, <1>2 DEF PlacesInv, One
<1> QED BY <1>3 DEF PlacesInv

\* No partner is left behind by a step that queues nothing.
LEMMA PartnersFrame ==
  ASSUME EventInv, cancelled \subseteq cancelled',
         \A item : item.tx \notin cancelled' => \A c \in Channels :
           /\ In(item, inQ[c])' => In(item, inQ[c])
           /\ In(item, outQ[c])' => In(item, outQ[c])
  PROVE  PartnersInv'
<1> SUFFICES ASSUME NEW c \in Channels, NEW x, NEW y, In(x, inQ[c])', In(y, outQ[c])',
                    x.tx \notin cancelled', y.tx \notin cancelled'
             PROVE  x.tx = y.tx
  BY DEF PartnersInv, Live
<1>1. In(x, inQ[c]) /\ In(y, outQ[c]) /\ x.tx \notin cancelled /\ y.tx \notin cancelled
  OBVIOUS
<1> QED BY <1>1 DEF EventInv, PartnersInv, Live

\* What remains of the invariant after a step of the threads in M.
LEMMA StepOk ==
  ASSUME EventInv, NEW M, TypeOK',
         \A u \in Threads : u \notin M => Same(u),
         cancelled \subseteq cancelled', CVarsLast, Kept, Brought,
         \A u \in Threads : u \in M /\ Waits(u) => Tx0(u) \in cancelled',
         matched \subseteq matched',
         \A m \in matched' : m \notin matched => m[1][1] \in M /\ m[2][1] \in M,
         \A v \in CVars : v[1] \notin M => (Settled(v)' <=> Settled(v)),
         \A u \in Threads : u \in M => ThreadOk(u)' /\ BlockedOk(u)' /\ NacksOk(u)',
         \A e \in Entities : IF e[1] \in M THEN Scheduled(e)' = One(Placed(e)')
                             ELSE Scheduled(e)' = Scheduled(e),
         PhaseInv', CommitInv', PartnersInv', CVarsInv', MatchInv'
  PROVE  EventInv'
<1>1. ASSUME NEW u \in Threads, u \notin M
      PROVE  ThreadOk(u)' /\ BlockedOk(u)' /\ NacksOk(u)'
  <2>1. \A m \in matched' : m \notin matched => m[1] # Tx0(u) /\ m[2] # Tx0(u)
    BY <1>1, TxFacts
  <2>2. ThreadOk(u)'
    BY <1>1, <2>1, ThreadFrame
  <2>3. BlockedOk(u)'
    BY <1>1, BlockedFrame
  <2>4. NacksOk(u)'
    BY <1>1, NacksFrame
  <2> QED BY <2>2, <2>3, <2>4
<1>2. ThreadsInv'
  BY <1>1 DEF ThreadsInv
<1>3. ItemsInv'
  BY ItemsFrame
<1>4. PlacesInv'
  BY PlacesFrame
<1> QED BY <1>2, <1>3, <1>4 DEF EventInv

\* Between critical sections.
LEMMA Quiet ==
  ASSUME EventInv, sched.atomic = 0
  PROVE  /\ agenda = <<>>
         /\ \A v : ~ ToBeSet(v)
         /\ \A item : ~ ToWake(item)
         /\ \A e : ~ Readied(e)
         /\ \A e : ~ Exec(e)
         /\ \A e \in Entities : pc[e] \notin {"choice", "exiting", "sent", "received"}
         /\ \A t \in Threads : pc[Main(t)] \notin {"choice", "exiting", "sent", "received", "reply"}
         /\ \A e \in Entities : Given(e) <=> pc[e] = "return"
<1>1. agenda = <<>>
  BY DEF EventInv, PhaseInv
<1>2. /\ \A v : ~ ToBeSet(v)
      /\ \A item : ~ ToWake(item)
      /\ \A e : ~ Readied(e)
      /\ \A e : ~ Exec(e)
  BY <1>1 DEF ToBeSet, ToWake, Readied, Exec
<1>3. \A e \in Entities : pc[e] \notin {"choice", "exiting", "sent", "received"}
  BY <1>2, EntityFacts DEF EventInv, ThreadsInv, ThreadOk, EntityOk
<1>4. \A t \in Threads : pc[Main(t)] # "reply"
  BY DEF EventInv, CommitInv, ReplyOk
<1>5. \A e \in Entities : Given(e) <=> pc[e] = "return"
  BY <1>2 DEF Given
<1> QED BY <1>1, <1>2, <1>3, <1>4, <1>5, EntityFacts

\* In a critical section.
LEMMA InSection ==
  ASSUME EventInv, sched.atomic = 1
  PROVE  /\ sched.cur \in Entities /\ sched.cur[1] \in Threads /\ Exec(sched.cur)
         /\ pc[sched.cur] \in {"choice", "exiting", "send", "recv", "sent", "received"}
         /\ pc[sched.cur] \in {"send", "recv"} => agenda = <<>>
         /\ \A e : Exec(e) <=> e = sched.cur
         /\ \A e \in Entities : pc[e] \in {"choice", "exiting", "sent", "received"} =>
              e = sched.cur
         /\ \A t \in Threads : pc[Main(t)] \in {"choice", "exiting", "sent", "received"} =>
              Main(t) = sched.cur
         /\ \A t \in Threads : pc[Main(t)] = "reply" =>
              pc[sched.cur] \in {"send", "sent"} /\ val[sched.cur] = Main(t)
<1>1. /\ sched.cur \in Entities
      /\ pc[sched.cur] \in {"choice", "exiting", "send", "recv", "sent", "received"}
      /\ pc[sched.cur] \in {"send", "recv"} => agenda = <<>>
  BY DEF EventInv, PhaseInv
<1>2. \A e : Exec(e) <=> e = sched.cur
  BY DEF Exec
<1>3. \A e \in Entities : pc[e] \in {"choice", "exiting", "sent", "received"} => e = sched.cur
  BY <1>2, EntityFacts DEF EventInv, ThreadsInv, ThreadOk, EntityOk
<1>4. \A t \in Threads : pc[Main(t)] = "reply" =>
        pc[sched.cur] \in {"send", "sent"} /\ val[sched.cur] = Main(t)
  BY DEF EventInv, CommitInv, ReplyOk
<1> QED BY <1>1, <1>2, <1>3, <1>4, EntityFacts

\* A thread that does not wait has no entity at work but itself.
LEMMA NotWaiting ==
  ASSUME EventInv, NEW t \in Threads, ~ Waits(t)
  PROVE  /\ \A e \in Entities : e[1] = t => ~ Given(e)
         /\ \A e \in Entities : e[1] = t /\ e # Main(t) => ~ Exec(e) /\ ~ Placed(e)
         /\ \A e \in Entities : e[1] = t => ~ Readied(e) /\ pc[e] # "return"
         /\ \A e \in Entities : e[1] = t /\ e # Main(t) => pc[e] \in {"none", "send", "recv", "wait"}
<1>1. \A e \in Entities : e[1] = t => GivenOk(e) /\ EntityOk(e)
  BY DEF EventInv, ThreadsInv, ThreadOk
<1>2. \A e \in Entities : e[1] = t => ~ Given(e)
  BY <1>1 DEF GivenOk
<1>3. ASSUME NEW e \in Entities, e[1] = t, e # Main(t)
      PROVE  ~ Exec(e) /\ ~ Placed(e) /\ pc[e] \in {"none", "send", "recv", "wait"}
  <2>1. pc[e] \in {"none", "send", "recv", "wait", "sent", "received", "return"}
    BY <1>1, <1>3, EntityFacts DEF EntityOk
  <2>2. pc[e] \notin {"sent", "received", "return"} /\ (Exec(e) => pc[e] \notin {"send", "recv"})
    BY <1>1, <1>2, <1>3 DEF Given, EntityOk
  <2>3. Exec(e) => pc[e] \in {"choice", "exiting", "send", "recv", "sent", "received"}
    BY DEF Exec, EventInv, PhaseInv
  <2> QED BY <2>1, <2>2, <2>3 DEF Placed
<1>4. \A e \in Entities : e[1] = t => ~ Readied(e) /\ pc[e] # "return"
  BY <1>2 DEF Given
<1> QED BY <1>2, <1>3, <1>4

\* The condition variables a thread may set: the nacks of its operation, its death.
LEMMA OwnVariables ==
  ASSUME EventInv, NEW t \in Threads, ops[t] > 0
  PROVE  \A n \in request[t].nacks :
           /\ <<t, ops[t], n>> \in CVars /\ <<t, ops[t], n>>[1] = t
           /\ cvars[<<t, ops[t], n>>].state # "none"
           /\ Settled(<<t, ops[t], n>>) <=> Loses(t, n)
BY RequestFacts DEF EventInv, ThreadsInv, ThreadOk, NacksOk

\* An operation that has not committed has settled none.
LEMMA NoLosers ==
  ASSUME EventInv, NEW t \in Threads, pc[Main(t)] = "sync"
  PROVE  \A n : ~ Loses(t, n)
<1>1. result[Tx0(t)] = Nil
  BY DEF EventInv, ThreadsInv, ThreadOk, OpsOk, Idles
<1>2. \A i : ~ Commits(t, i)
  BY <1>1 DEF Commits, Waits
<1> QED BY <1>2 DEF Loses

-----------------------------------------------------------------------------
(***************************************************************************)
(* The initial state.                                                      *)
(***************************************************************************)
LEMMA InitPlaces ==
  ASSUME Init
  PROVE  /\ sched \in SchedulerStates(Entities) /\ sched.atomic = 0
         /\ \A e \in Entities : Scheduled(e) = One(e[2] = 0)
<1> DEFINE n == Cardinality(Threads)
<1>1. PICK order \in [1 .. n -> Threads] :
        /\ \A t \in Threads : \E i \in DOMAIN order : order[i] = t
        /\ sched = Started(Main(order[1]), [i \in 1 .. (n - 1) |-> Main(order[i + 1])])
  BY DEF Init
<1>2. n \in Nat \ {0}
  BY RequestsAssumption, FS_CardinalityType, FS_EmptySet
<1>3. \A i, j \in 1 .. n : order[i] = order[j] => i = j
  <2>1. order \in Surjection(1 .. n, Threads)
    BY <1>1 DEF Surjection
  <2>2. IsFiniteSet(1 .. n) /\ Cardinality(1 .. n) = n
    BY <1>2, FS_Interval
  <2>3. order \in Injection(1 .. n, Threads)
    BY <2>1, <2>2, RequestsAssumption, FS_SurjSameCardinalityImpliesInj
  <2> QED BY <2>3 DEF Injection, IsInjective
<1> HIDE DEF n
<1> DEFINE o == [i \in 1 .. n |-> Main(order[i])]
<1>4. o \in [1 .. n -> Entities] /\ \A i \in 1 .. n : o[i] = Main(order[i])
  BY <1>1, EntityFacts
<1>5. \A i, j \in 1 .. n : o[i] = o[j] => i = j
  BY <1>3, <1>4, EntityFacts
<1> DEFINE q == [i \in 1 .. (n - 1) |-> o[i + 1]]
<1>6. sched = Started(o[1], q)
  <2>1. o[1] = Main(order[1])
    BY <1>2, <1>4
  <2>2. \A i \in 1 .. (n - 1) : o[i + 1] = Main(order[i + 1])
    BY <1>2, <1>4
  <2>3. q = [i \in 1 .. (n - 1) |-> Main(order[i + 1])]
    BY <2>2
  <2> QED BY <1>1, <2>1, <2>3
<1>10. /\ q \in Seq(Entities) /\ DOMAIN q = 1 .. (n - 1)
       /\ \A i \in 1 .. (n - 1) : q[i] = o[i + 1]
  <2> HIDE DEF o
  <2>1. n - 1 \in Nat /\ \A i \in 1 .. (n - 1) : o[i + 1] \in Entities
    BY <1>2, <1>4
  <2> QED BY <2>1
<1> HIDE DEF o, q
<1>7. /\ sched \in SchedulerStates(Entities) /\ sched.atomic = 0
      /\ \A e : /\ (\E i \in 1 .. n : o[i] = e) => Places(sched, e) = 1
                /\ (\A i \in 1 .. n : o[i] # e) => Places(sched, e) = 0
  <2>1. n \in Nat \ {0} /\ o \in [1 .. n -> Entities] /\ q \in Seq(Entities)
    BY <1>2, <1>4, <1>10
  <2>2. OnePlaceEach(sched, Entities, o, n)
    BY <2>1, <1>5, <1>6, <1>10, PlacesStarted
  <2> QED BY <2>2 DEF OnePlaceEach
<1>8. \A e \in Entities : (\E i \in 1 .. n : o[i] = e) <=> e[2] = 0
  <2> SUFFICES ASSUME NEW e \in Entities PROVE (\E i \in 1 .. n : o[i] = e) <=> e[2] = 0
    OBVIOUS
  <2>1. (\E i \in 1 .. n : o[i] = e) => e[2] = 0
    BY <1>1, <1>4, EntityFacts
  <2>2. ASSUME e[2] = 0 PROVE \E i \in 1 .. n : o[i] = e
    <3>1. e = Main(e[1]) /\ e[1] \in Threads
      BY <2>2, EntityFacts
    <3>2. PICK i \in 1 .. n : order[i] = e[1]
      BY <1>1, <3>1
    <3> QED BY <1>4, <3>1, <3>2
  <2> QED BY <2>1, <2>2
<1>9. \A e \in Entities : Scheduled(e) = One(e[2] = 0)
  BY <1>7, <1>8 DEF Scheduled, One
<1> QED BY <1>7, <1>9

LEMMA InitInv ==
  ASSUME Init
  PROVE  EventInv
<1>1. /\ inQ = [c \in Channels |-> <<>>] /\ outQ = [c \in Channels |-> <<>>]
      /\ cvars = [v \in CVars |-> IF v[2] = 0 /\ v[3] = 0 THEN Unset ELSE NotCreated]
      /\ cancelled = {}
      /\ ops = [t \in Threads |-> 0] /\ request = [t \in Threads |-> Nil]
      /\ pc = [e \in Entities |-> IF e[2] = 0 THEN "run" ELSE "none"]
      /\ val = [e \in Entities |-> Nil]
      /\ choice = 0 /\ agenda = <<>> /\ failed = FALSE
      /\ matched = {} /\ result = [x \in Tx |-> Nil]
  BY DEF Init
<1>2. sched \in SchedulerStates(Entities) /\ sched.atomic = 0
  BY InitPlaces
<1>3. \A v \in CVars :
        /\ cvars[v].waiting = <<>> /\ cvars[v].state \in {"none", "unset"}
        /\ cvars[v].state = "unset" <=> v[2] = 0 /\ v[3] = 0
        /\ cvars[v] \in [state : {"none", "unset", "set"}, waiting : Seq(Items)]
  BY <1>1 DEF Unset, NotCreated
<1>4. TypeOK
  <2>1. cvars \in [CVars -> [state : {"none", "unset", "set"}, waiting : Seq(Items)]]
    BY <1>1, <1>3
  <2>9. \A e \in Entities : e[2] = 0 => pc[e] \notin {"none", "return"}
    BY <1>1
  <2>2. 0 \in 0 .. MaxOps /\ 0 \in 0 .. Fan
    BY EntityFacts
  <2>3. ops \in [Threads -> 0 .. MaxOps] /\ DOMAIN request = Threads /\ choice \in 0 .. Fan
    BY <1>1, <2>2
  <2>4. \A t \in Threads : ops[t] > 0 =>
          request[t].nacks \subseteq {1, 2} /\ Len(request[t].events) \in 1 .. Fan
    BY <1>1
  <2>5. inQ \in [Channels -> Seq(Items)] /\ outQ \in [Channels -> Seq(Items)]
    BY <1>1
  <2>6. pc \in [Entities -> Points] 
    BY <1>1 DEF Points
  <2>7. /\ val \in [Entities -> Entities \cup Tx \cup {Nil}]
        /\ result \in [Tx -> {Nil} \cup [event : 0 .. Fan, val : Tx \cup {Nil}]]
    BY <1>1
  <2>8. /\ cancelled \subseteq Tx /\ agenda \in Seq(Tasks) /\ failed \in BOOLEAN
        /\ matched \subseteq Tx \X Tx \X Channels /\ sched.atomic \in 0 .. 1
    <3>1. sched.atomic \in 0 .. 1
      BY <1>2
    <3>2. cancelled \subseteq Tx /\ agenda \in Seq(Tasks)
      BY <1>1
    <3>4. failed \in BOOLEAN
      BY <1>1
    <3>3. matched \subseteq Tx \X Tx \X Channels
      BY <1>1
    <3> QED BY <3>1, <3>2, <3>3, <3>4
  <2>10. /\ sched \in SchedulerStates(Entities) /\ sched.atomic \in 0 .. 1
         /\ inQ \in [Channels -> Seq(Items)] /\ outQ \in [Channels -> Seq(Items)]
    BY <1>2, <2>5, <2>8
  <2> QED BY <2>10, <2>1, <2>3, <2>4, <2>6, <2>7, <2>8, <2>9, Zenon DEF TypeOK
<1>5. /\ \A t \in Threads : pc[Main(t)] = "run" /\ ~ Waits(t) /\ Idles(t) /\ ops[t] = 0
      /\ \A e : ~ Exec(e) /\ ~ Readied(e)
      /\ \A v : ~ ToBeSet(v)
      /\ \A item : ~ ToWake(item)
      /\ \A e \in Entities : ~ Given(e) /\ (Placed(e) <=> e[2] = 0)
  BY <1>1, <1>2, EntityFacts
     DEF Waits, Idles, Exec, Readied, ToBeSet, ToWake, Given, Placed
<1>6. \A t \in Threads : OpsOk(t) /\ MetOk(t) /\ BlockedOk(t) /\ NacksOk(t)
  BY <1>1, <1>5 DEF OpsOk, MetOk, BlockedOk, NacksOk
<1>7. \A e \in Entities : GivenOk(e) /\ EntityOk(e)
  BY <1>1, <1>5 DEF GivenOk, EntityOk
<1>8. ThreadsInv
  BY <1>6, <1>7 DEF ThreadsInv, ThreadOk
<1>9. PhaseInv /\ CommitInv
  BY <1>1, <1>2, <1>5 DEF PhaseInv, CommitInv
<1>10. ItemsInv /\ PartnersInv
  BY <1>1, <1>3, <1>5 DEF ItemsInv, PartnersInv, In
<1>11. PlacesInv
  BY <1>5, InitPlaces DEF PlacesInv, One
<1>12. CVarsInv
  <2>1. Distinct(agenda)
    BY <1>1 DEF Distinct
  <2>2. \A v \in CVars : v[2] > ops[v[1]] => cvars[v].state = "none"
    BY <1>1, <1>3, CVarFacts
  <2>3. \A t \in Threads : cvars[<<t, 0, 0>>].state = "unset" /\ ~ Settled(<<t, 0, 0>>)
    BY <1>3, <1>5, CVarFacts DEF Settled
  <2> QED BY <1>3, <1>5, <2>1, <2>2, <2>3 DEF CVarsInv
<1>13. MatchInv
  BY <1>1, TxFacts DEF MatchInv
<1> QED BY <1>4, <1>8, <1>9, <1>10, <1>11, <1>12, <1>13 DEF EventInv

-----------------------------------------------------------------------------
(***************************************************************************)
(* The exception, the timer, and the start of an operation.                *)
(***************************************************************************)
\* The invariant does not mention what it is for to exclude.
LEMMA NothingMoves ==
  ASSUME EventInv, failed' \in BOOLEAN,
         UNCHANGED <<sched, inQ, outQ, cvars, cancelled, ops, request, pc, val, choice, agenda,
                     matched, result>>
  PROVE  EventInv'
<1>1. /\ sched' = sched /\ inQ' = inQ /\ outQ' = outQ /\ cvars' = cvars
      /\ cancelled' = cancelled /\ ops' = ops /\ request' = request /\ pc' = pc
      /\ val' = val /\ choice' = choice /\ agenda' = agenda /\ matched' = matched
      /\ result' = result /\ failed' \in BOOLEAN
  OBVIOUS
<1>2. TypeOK'
  BY <1>1 DEF EventInv, TypeOK
<1>3. \A u \in Threads : Same(u)
  BY <1>1 DEF Same, Exec, Readied, Tx0
<1>4. \A v : Settled(v)' <=> Settled(v)
  BY <1>1 DEF Settled, ToBeSet
<1>5. \A e : Scheduled(e)' = Scheduled(e)
  BY <1>1 DEF Scheduled
<1>6. Kept /\ CVarsLast
  BY <1>1 DEF Kept, CVarsLast, In, ToWake
<1>7. Brought
  BY <1>1 DEF Brought, ToWake, In
<1>8. PhaseInv'
  BY <1>1 DEF EventInv, PhaseInv
<1>9. CommitInv'
  BY <1>1 DEF EventInv, CommitInv, ReplyOk, ChoiceOk, Tx0
<1>10. PartnersInv'
  BY <1>1 DEF EventInv, PartnersInv, In, Live
<1>11. CVarsInv'
  BY <1>1 DEF EventInv, CVarsInv, Distinct, ToBeSet, Settled, Nacks
<1>12. MatchInv'
  BY <1>1 DEF EventInv, MatchInv
<1>13. PICK M : M = {}
  OBVIOUS
<1> HIDE DEF Scheduled
<1> QED BY <1>1, <1>2, <1>3, <1>4, <1>5, <1>6, <1>7, <1>8, <1>9, <1>10, <1>11, <1>12, <1>13,
          StepOk

\* A step that leaves the queues alone.
LEMMA QueuesStay ==
  ASSUME EventInv, inQ' = inQ, outQ' = outQ, cancelled \subseteq cancelled',
         \A v \in CVars : cvars'[v].waiting = cvars[v].waiting,
         \A item : ToWake(item)' <=> ToWake(item)
  PROVE  Kept /\ Brought /\ PartnersInv'
<1>1. Kept
  BY DEF Kept, In
<1>2. Brought
  BY DEF Brought, In
<1>3. \A item : item.tx \notin cancelled' => \A c \in Channels :
        /\ In(item, inQ[c])' => In(item, inQ[c])
        /\ In(item, outQ[c])' => In(item, outQ[c])
  BY DEF In
<1>4. PartnersInv'
  BY <1>3, PartnersFrame
<1> QED BY <1>1, <1>2, <1>4

\* A step in which no two operations meet.
LEMMA MatchFrame ==
  ASSUME EventInv, matched' = matched, ops' = ops,
         \A x \in cancelled' : x \in cancelled \/ x[2] <= ops[x[1]],
         \A x \in Tx : result'[x] = result[x] \/ x[2] = ops[x[1]]
  PROVE  MatchInv'
<1>1. MatchInv /\ TypeOK
  BY DEF EventInv
<1>2. \A x \in cancelled' : x[2] <= ops[x[1]]
  BY <1>1 DEF MatchInv
<1>3. \A x \in Tx : x[2] > ops[x[1]] => result'[x] = Nil
  <2> SUFFICES ASSUME NEW x \in Tx, x[2] > ops[x[1]] PROVE result'[x] = Nil
    OBVIOUS
  <2>1. x[2] # ops[x[1]]
    BY TxFacts, <1>1 DEF TypeOK
  <2> QED BY <1>1, <2>1 DEF MatchInv
<1> QED BY <1>1, <1>2, <1>3 DEF MatchInv

\* A step outside critical sections that leaves the thread it moves outside.
LEMMA StillQuiet ==
  ASSUME EventInv, sched.atomic = 0, sched'.atomic = 0, agenda' = agenda, TypeOK,
         NEW M, \A e \in Entities : e[1] \notin M => pc'[e] = pc[e],
         \A t \in Threads : t \in M => pc'[Main(t)] \notin {"choice", "reply"}
  PROVE  PhaseInv' /\ CommitInv' /\ \A e : ~ Exec(e)' /\ ~ Readied(e)'
<1>1. PhaseInv'
  BY Quiet DEF PhaseInv
<1>2. CommitInv'
  BY Quiet, EntityFacts DEF CommitInv
<1>3. \A e : ~ Exec(e)' /\ ~ Readied(e)'
  BY Quiet DEF Exec, Readied
<1> QED BY <1>1, <1>2, <1>3

LEMMA FailStep ==
  ASSUME EventInv, Fail
  PROVE  EventInv'
<1>1. failed' \in BOOLEAN
  BY DEF Fail
<1> QED BY <1>1, NothingMoves DEF Fail

LEMMA Unchanged ==
  ASSUME EventInv, UNCHANGED vars
  PROVE  EventInv'
<1>1. failed' \in BOOLEAN
  BY DEF EventInv, TypeOK, vars
<1> QED BY <1>1, NothingMoves DEF vars

LEMMA PreemptStep ==
  ASSUME EventInv, Preempt
  PROVE  EventInv'
<1>1. /\ inQ' = inQ /\ outQ' = outQ /\ cvars' = cvars /\ cancelled' = cancelled
      /\ ops' = ops /\ request' = request /\ pc' = pc /\ val' = val /\ choice' = choice
      /\ agenda' = agenda /\ matched' = matched /\ result' = result /\ failed' = failed
      /\ sched.atomic = 0 /\ sched.cur # NoThread /\ sched' = alrmHandler(sched)
  BY DEF Preempt
<1>2. TypeOK
  BY DEF EventInv
<1>3. /\ sched' \in SchedulerStates(Entities) /\ sched'.atomic = 0
      /\ \A e \in Entities : Scheduled(e)' = Scheduled(e)
  <2>1. NoThread \notin Entities /\ sched \in SchedulerStates(Entities) /\ sched.cur \in Entities
    BY <1>1, <1>2, EntityFacts DEF TypeOK, SchedulerStates
  <2> QED BY <1>1, <2>1, PlacesPreempt DEF Scheduled
<1>4. TypeOK'
  BY <1>1, <1>2, <1>3 DEF TypeOK
<1>5. PICK M : M = {}
  OBVIOUS
<1>6. PhaseInv' /\ CommitInv' /\ \A e : ~ Exec(e)' /\ ~ Readied(e)'
  BY <1>1, <1>2, <1>3, <1>5, StillQuiet
<1>7. \A u \in Threads : Same(u)
  BY <1>1, <1>6, Quiet DEF Same
<1>8. \A v : (ToBeSet(v)' <=> ToBeSet(v)) /\ (Settled(v)' <=> Settled(v))
  BY <1>1 DEF Settled, ToBeSet
<1>9. Kept /\ Brought /\ PartnersInv' /\ CVarsLast
  <2>1. \A item : ToWake(item)' <=> ToWake(item)
    BY <1>1 DEF ToWake
  <2> QED BY <1>1, <2>1, QueuesStay DEF CVarsLast
<1>10. CVarsInv'
  BY <1>1, <1>8 DEF EventInv, CVarsInv, Distinct, Nacks
<1>11. MatchInv'
  BY <1>1, MatchFrame
<1> HIDE DEF Scheduled
<1> QED BY <1>1, <1>3, <1>4, <1>5, <1>6, <1>7, <1>8, <1>9, <1>10, <1>11, StepOk

LEMMA CVarOfFacts ==
  ASSUME TypeOK, NEW on \in Threads \X (0 .. 2)
  PROVE  CVarOf(on) \in CVars /\ CVarOf(on)[1] = on[1] /\ CVarOf(on)[3] = on[2]
<1>1. on[1] \in Threads /\ on[2] \in 0 .. 2 /\ ops[on[1]] \in 0 .. MaxOps /\ 0 \in 0 .. MaxOps
  BY EntityFacts DEF TypeOK
<1> QED BY <1>1, CVarFacts DEF CVarOf

LEMMA EvaluateRequest ==
  ASSUME EventInv, NEW t \in Threads, NEW r \in Requests, Evaluate(t, r)
  PROVE  /\ Evaluated(t, r)' /\ DOMAIN request' = Threads
         /\ request'[t].nacks = r.nacks /\ request'[t].nacks \subseteq {1, 2}
         /\ Len(request'[t].events) \in 1 .. Fan
         /\ \A u \in Threads : u # t => request'[u] = request[u]
<1> DEFINE f(i) == IF r.events[i].kind = "wait"
                   THEN [r.events[i] EXCEPT !.on = CVarOf(r.events[i].on)] ELSE r.events[i]
           evs  == [i \in DOMAIN r.events |-> f(i)]
<1>1. TypeOK
  BY DEF EventInv
<1>2. /\ request' = [request EXCEPT ![t] = Forced(r)]
      /\ \A i \in DOMAIN r.events : r.events[i].kind = "wait" =>
           /\ r.events[i].on[1] # t
           /\ cvars[CVarOf(r.events[i].on)].state # "none"
      /\ cvars' = [v \in CVars |->
           IF v[1] = t /\ v[2] = ops[t] + 1 /\ v[3] \in r.nacks THEN Unset ELSE cvars[v]]
  BY DEF Evaluate
<1>3. /\ r \in [mode : {"call", "poll", "sync"}, events : Seq(BaseEvents), nacks : SUBSET {1, 2}]
      /\ Len(r.events) \in 1 .. Fan /\ Fan \in Nat
  BY RequestsAssumption
<1>4. request'[t] = [r EXCEPT !.events = evs] /\ DOMAIN request' = Threads
  BY <1>1, <1>2 DEF TypeOK, Forced
<1>5. \A u \in Threads : u # t => request'[u] = request[u]
  BY <1>1, <1>2 DEF TypeOK
<1>6. ASSUME NEW i \in DOMAIN r.events
      PROVE  /\ f(i) \in Events /\ f(i).kind = r.events[i].kind
             /\ f(i).within = r.events[i].within
             /\ IF r.events[i].kind = "wait"
                THEN f(i).on[3] = r.events[i].on[2] /\ cvars'[f(i).on].state # "none"
                ELSE f(i).on = r.events[i].on
  <2>1. r.events[i] \in BaseEvents
    BY <1>3, <1>6
  <2>2. CASE r.events[i].kind = "wait"
    <3>1. /\ r.events[i] \in [kind : {"wait"}, on : Threads \X (0 .. 2), within : SUBSET {1, 2}]
          /\ r.events[i].on \in Threads \X (0 .. 2)
      BY <2>1, <2>2 DEF BaseEvents
    <3>2. PICK v \in CVars : v = CVarOf(r.events[i].on) /\ v[1] = r.events[i].on[1]
                             /\ v[3] = r.events[i].on[2]
      BY <1>1, <3>1, CVarOfFacts
    <3>3. f(i) = [r.events[i] EXCEPT !.on = v]
      BY <2>2, <3>2
    <3>4. /\ [r.events[i] EXCEPT !.on = v] \in [kind : {"wait"}, on : CVars, within : SUBSET {1, 2}]
          /\ [r.events[i] EXCEPT !.on = v].on = v
          /\ [r.events[i] EXCEPT !.on = v].kind = r.events[i].kind
          /\ [r.events[i] EXCEPT !.on = v].within = r.events[i].within
      BY <3>1
    <3>5. cvars'[v] = cvars[v] /\ cvars[v].state # "none"
      BY <1>2, <2>2, <3>2
    <3> HIDE DEF f
    <3> QED BY <2>2, <3>2, <3>3, <3>4, <3>5 DEF Events
  <2>3. CASE r.events[i].kind # "wait"
    <3>1. r.events[i] \in [kind : {"send", "recv"}, on : Channels, within : SUBSET {1, 2}]
      BY <2>1, <2>3 DEF BaseEvents
    <3>2. f(i) = r.events[i]
      BY <2>3
    <3> HIDE DEF f
    <3> QED BY <2>3, <3>1, <3>2 DEF Events
  <2> QED BY <2>2, <2>3
<1> HIDE DEF f
<1>7. evs \in Seq(Events) /\ Len(evs) = Len(r.events) /\ DOMAIN evs = DOMAIN r.events
      /\ \A i \in DOMAIN r.events : evs[i] = f(i)
  BY <1>3, <1>6
<1> HIDE DEF evs
<1>8. /\ request'[t].events = evs /\ request'[t].mode = r.mode /\ request'[t].nacks = r.nacks
      /\ request'[t] \in Operations
  BY <1>3, <1>4, <1>7 DEF Operations
<1>9. Evaluated(t, r)'
  BY <1>6, <1>7, <1>8 DEF Evaluated
<1>10. r.nacks \subseteq {1, 2}
  BY <1>3
<1> QED BY <1>3, <1>4, <1>5, <1>7, <1>8, <1>9, <1>10

LEMMA EvaluateStep ==
  ASSUME EventInv, NEW t \in Threads, NEW r \in Requests, Evaluate(t, r)
  PROVE  EventInv'
<1>1. /\ sched.cur = Main(t) /\ pc[Main(t)] = "run" /\ sched.atomic = 0
      /\ sched' = sched /\ inQ' = inQ /\ outQ' = outQ /\ cancelled' = cancelled
      /\ val' = val /\ choice' = choice /\ agenda' = agenda /\ failed' = failed
      /\ matched' = matched /\ result' = result /\ ops[t] < MaxOps
      /\ ops' = [ops EXCEPT ![t] = @ + 1]
      /\ pc' = [pc EXCEPT ![Main(t)] = "sync"]
      /\ cvars' = [v \in CVars |->
           IF v[1] = t /\ v[2] = ops[t] + 1 /\ v[3] \in r.nacks THEN Unset ELSE cvars[v]]
  BY DEF Evaluate, Runs
<1>2. TypeOK /\ ThreadsInv /\ CVarsInv /\ MatchInv /\ PlacesInv
  BY DEF EventInv
<1>3. /\ Evaluated(t, r)' /\ DOMAIN request' = Threads
      /\ request'[t].nacks = r.nacks /\ request'[t].nacks \subseteq {1, 2}
      /\ Len(request'[t].events) \in 1 .. Fan
      /\ \A u \in Threads : u # t => request'[u] = request[u]
  BY EvaluateRequest
<1>4. /\ ops[t] \in 0 .. MaxOps /\ ops'[t] = ops[t] + 1 /\ ops'[t] \in 1 .. MaxOps
      /\ \A u \in Threads : u # t => ops'[u] = ops[u]
      /\ ops' \in [Threads -> 0 .. MaxOps]
  BY <1>1, <1>2, EntityFacts DEF TypeOK
<1>5. /\ pc'[Main(t)] = "sync" /\ \A e \in Entities : e # Main(t) => pc'[e] = pc[e]
      /\ pc' \in [Entities -> Points]
  BY <1>1, <1>2, EntityFacts DEF TypeOK, Points
<1>6. \A v \in CVars :
        \/ cvars'[v] = cvars[v] /\ ~ (v[1] = t /\ v[2] = ops[t] + 1 /\ v[3] \in r.nacks)
        \/ /\ cvars'[v] = Unset /\ v[1] = t /\ v[2] = ops[t] + 1 /\ v[3] \in r.nacks
           /\ cvars[v].state = "none" /\ cvars[v].waiting = <<>>
  <2> SUFFICES ASSUME NEW v \in CVars, v[1] = t, v[2] = ops[t] + 1, v[3] \in r.nacks
               PROVE  cvars[v].state = "none" /\ cvars[v].waiting = <<>>
    BY <1>1
  <2>1. v[2] > ops[v[1]]
    BY <1>4
  <2> QED BY <1>2, <2>1 DEF CVarsInv
<1>7. TypeOK'
  <2>1. cvars' \in [CVars -> [state : {"none", "unset", "set"}, waiting : Seq(Items)]]
    <3>1. Unset \in [state : {"none", "unset", "set"}, waiting : Seq(Items)]
      BY DEF Unset
    <3> QED BY <1>1, <1>2, <3>1 DEF TypeOK
  <2>2. \A u \in Threads : ops'[u] > 0 =>
          request'[u].nacks \subseteq {1, 2} /\ Len(request'[u].events) \in 1 .. Fan
    BY <1>2, <1>3, <1>4 DEF TypeOK
  <2>3. \A e \in Entities : e[2] = 0 => pc'[e] \notin {"none", "return"}
    BY <1>2, <1>5, EntityFacts DEF TypeOK
  <2> QED BY <1>1, <1>2, <1>3, <1>4, <1>5, <2>1, <2>2, <2>3 DEF TypeOK
<1>8. PICK M : M = {t}
  OBVIOUS
<1>9. PhaseInv' /\ CommitInv' /\ \A e : ~ Exec(e)' /\ ~ Readied(e)'
  <2>1. \A e \in Entities : e[1] \notin M => pc'[e] = pc[e]
    BY <1>5, <1>8, EntityFacts
  <2>2. \A u \in Threads : u \in M => pc'[Main(u)] \notin {"choice", "reply"}
    BY <1>5, <1>8
  <2> QED BY <1>1, <1>2, <2>1, <2>2, StillQuiet
<1>10. \A u \in Threads : u \notin M => Same(u)
  BY <1>1, <1>3, <1>4, <1>5, <1>8, <1>9, Quiet, EntityFacts DEF Same, Tx0
<1>11. /\ \A v : ~ ToBeSet(v) /\ ~ ToBeSet(v)'
       /\ \A item : ~ ToWake(item) /\ ~ ToWake(item)'
  BY <1>1, Quiet DEF ToBeSet, ToWake
<1>12. /\ CVarsLast /\ \A v \in CVars : cvars'[v].waiting = cvars[v].waiting
       /\ \A v \in CVars : Settled(v)' <=> Settled(v)
  BY <1>6, <1>11 DEF CVarsLast, Settled, Unset
<1>13. Kept /\ Brought /\ PartnersInv'
  BY <1>1, <1>11, <1>12, QueuesStay
<1>14. Idles(t) /\ ~ Waits(t) /\ ~ Waits(t)' /\ ~ Idles(t)'
  BY <1>1, <1>5 DEF Idles, Waits
<1>15. /\ \A e \in Entities : e[1] = t => ~ Given(e)' /\ (e # Main(t) => ~ Placed(e))
       /\ \A e \in Entities : e[1] = t => (Placed(e)' <=> Placed(e))
  <2>1. /\ \A e \in Entities : e[1] = t => ~ Given(e) /\ pc[e] # "return"
        /\ \A e \in Entities : e[1] = t /\ e # Main(t) => ~ Placed(e)
    BY <1>14, NotWaiting
  <2>2. \A e \in Entities : e[1] = t => ~ Given(e)'
    BY <1>5, <1>9, <2>1 DEF Given
  <2>3. \A e \in Entities : e[1] = t => (Placed(e)' <=> Placed(e))
    BY <1>1, <1>5, <1>9, Quiet DEF Placed
  <2> QED BY <2>1, <2>2, <2>3
<1>16. Tx0(t)' \in Tx /\ Tx0(t)' \notin cancelled' /\ result'[Tx0(t)'] = Nil
       /\ \A m \in matched : Tx0(t)' \notin {m[1], m[2]}
  <2>1. Tx0(t)' = <<t, ops[t] + 1>> /\ <<t, ops[t] + 1>> \in Tx
    BY <1>4 DEF Tx0, Tx
  <2>2. <<t, ops[t] + 1>>[1] = t /\ <<t, ops[t] + 1>>[2] = ops[t] + 1 /\ ~ (ops[t] + 1 <= ops[t])
        /\ ops[t] + 1 > ops[t]
    BY <1>4
  <2> QED BY <1>1, <1>2, <2>1, <2>2 DEF MatchInv
<1>17. ThreadOk(t)'
  <2>1. OpsOk(t)'
    BY <1>3, <1>4, <1>5, <1>14, <1>16 DEF OpsOk
  <2>2. MetOk(t)'
    BY <1>1, <1>16 DEF MetOk
  <2>3. \A e \in Entities : e[1] = t => GivenOk(e)' /\ EntityOk(e)'
    <3> SUFFICES ASSUME NEW e \in Entities, e[1] = t PROVE EntityOk(e)'
      BY <1>15 DEF GivenOk
    <3>1. EntityOk(e)
      BY <1>2 DEF ThreadsInv, ThreadOk
    <3>2. CASE e = Main(t)
      BY <1>5, <3>2, EntityFacts DEF EntityOk
    <3>3. CASE e # Main(t)
      <4>1. pc'[e] = pc[e] /\ pc[e] \notin {"choice", "exiting", "sent", "received"}
        BY <1>1, <1>5, <3>3, Quiet
      <4> QED BY <3>1, <4>1 DEF EntityOk
    <3> QED BY <3>2, <3>3
  <2> QED BY <2>1, <2>2, <2>3 DEF ThreadOk
<1>18. BlockedOk(t)'
  BY <1>14 DEF BlockedOk
<1>19. NacksOk(t)'
  <2>1. \A n : ~ Loses(t, n)'
    BY <1>5, <1>14, <1>16 DEF Loses, Commits
  <2> SUFFICES ASSUME NEW n \in r.nacks
               PROVE  /\ cvars'[<<t, ops'[t], n>>].state # "none"
                      /\ ~ Settled(<<t, ops[t], n>>)'
    BY <1>3, <2>1 DEF NacksOk
  <2>2. n \in 0 .. 2
    BY <1>3
  <2>3. PICK v \in CVars : v = <<t, ops'[t], n>> /\ v[1] = t /\ v[2] = ops[t] + 1 /\ v[3] = n
    <3>1. ops'[t] \in 0 .. MaxOps
      BY <1>4
    <3> QED BY <1>4, <2>2, <3>1, CVarFacts
  <2>4. cvars'[v] = Unset
    BY <1>6, <2>3
  <2>5. ~ Settled(v)'
    BY <1>11, <2>4 DEF Unset, Settled
  <2> QED BY <2>3, <2>4, <2>5 DEF Unset
<1>20. \A e \in Entities : Scheduled(e)' = Scheduled(e) /\ Scheduled(e) = One(Placed(e))
  BY <1>1, <1>2 DEF Scheduled, PlacesInv
<1>21. \A e \in Entities : IF e[1] \in M THEN Scheduled(e)' = One(Placed(e)')
                           ELSE Scheduled(e)' = Scheduled(e)
  BY <1>8, <1>15, <1>20 DEF One
<1>22. CVarsInv'
  <2>1. Distinct(agenda)'
    BY <1>1, <1>2 DEF CVarsInv, Distinct
  <2>2. \A v \in CVars : cvars'[v].state # "unset" => cvars'[v].waiting = <<>>
    BY <1>2, <1>6 DEF CVarsInv, Unset
  <2>3. \A v \in CVars : v[2] > ops'[v[1]] => cvars'[v].state = "none"
    <3> SUFFICES ASSUME NEW v \in CVars, v[2] > ops'[v[1]] PROVE cvars'[v].state = "none"
      OBVIOUS
    <3>1. v[1] \in Threads /\ v[2] \in 0 .. MaxOps
      BY CVarFacts
    <3>2. ops[v[1]] \in 0 .. MaxOps /\ v[2] > ops[v[1]] /\ ~ (v[1] = t /\ v[2] = ops[t] + 1)
      BY <1>2, <1>4, <3>1 DEF TypeOK
    <3> QED BY <1>2, <1>6, <3>2 DEF CVarsInv
  <2>4. \A u \in Threads : cvars'[<<u, 0, 0>>].state # "none"
    BY <1>2, <1>12, CVarFacts DEF CVarsInv, CVarsLast
  <2>5. \A u \in Threads : Settled(<<u, 0, 0>>)' => pc'[Main(u)] \in {"exiting", "dead"}
    <3> SUFFICES ASSUME NEW u \in Threads, Settled(<<u, 0, 0>>)
                 PROVE  pc'[Main(u)] \in {"exiting", "dead"}
      BY <1>12, CVarFacts DEF Settled
    <3>1. pc[Main(u)] \in {"exiting", "dead"}
      BY <1>2 DEF CVarsInv
    <3> QED BY <1>1, <1>5, <3>1, EntityFacts
  <2> QED BY <1>11, <2>1, <2>2, <2>3, <2>4, <2>5 DEF CVarsInv
<1>23. MatchInv'
  <2>1. \A u \in Threads : ops[u] \in Nat /\ ops'[u] \in Nat /\ ops[u] <= ops'[u]
    <3>1. \A u \in Threads : ops[u] \in Nat /\ ops'[u] \in Nat
      BY <1>2, <1>4, EntityFacts DEF TypeOK
    <3> QED BY <1>4, <3>1
  <2>2. \A x \in Tx : x[2] <= ops[x[1]] => x[2] <= ops'[x[1]]
    BY <2>1, TxFacts
  <2>3. \A x \in cancelled' : x[2] <= ops'[x[1]]
    BY <1>1, <1>2, <2>2 DEF MatchInv, TypeOK
  <2>4. \A x \in Tx : x[2] > ops'[x[1]] => result'[x] = Nil
    <3> SUFFICES ASSUME NEW x \in Tx, x[2] > ops'[x[1]] PROVE x[2] > ops[x[1]]
      BY <1>1, <1>2 DEF MatchInv
    <3> QED BY <2>1, TxFacts
  <2>5. \A m \in matched : m[1] \in Tx /\ m[2] \in Tx
    BY <1>2 DEF TypeOK
  <2> QED BY <1>1, <1>2, <2>2, <2>3, <2>4, <2>5 DEF MatchInv
<1> HIDE DEF Scheduled
<1> QED BY <1>1, <1>7, <1>8, <1>9, <1>10, <1>12, <1>13, <1>14, <1>17, <1>18, <1>19, <1>21, <1>22,
          <1>23, StepOk

-----------------------------------------------------------------------------
(***************************************************************************)
(* Polling.                                                                *)
(***************************************************************************)
LEMMA CleanFacts ==
  ASSUME NEW q \in Seq(Items)
  PROVE  /\ Clean(q) \in Seq(Items)
         /\ \A item : In(item, Clean(q)) <=> In(item, q) /\ Live(item)
<1> DEFINE S == {item \in Items : Live(item)}
<1>1. Clean(q) \in Seq(Items \cap S) /\ Selects(q, S, Len(q), Clean(q))
  BY AmongElements DEF Clean
<1>2. \A k \in DOMAIN Clean(q) : Clean(q)[k] \in Items \cap S
  BY <1>1
<1>3. Clean(q) \in Seq(Items)
  <2>1. Items \cap S \subseteq Items
    OBVIOUS
  <2> QED BY <1>1, <2>1
<1>4. \A k \in DOMAIN q : q[k] \in Items
  OBVIOUS
<1>5. DOMAIN q = 1 .. Len(q)
  OBVIOUS
<1>6. \A item : In(item, Clean(q)) => In(item, q) /\ Live(item)
  BY <1>1, <1>2, <1>5 DEF Selects, In
<1>7. \A item : In(item, q) /\ Live(item) => In(item, Clean(q))
  <2> SUFFICES ASSUME NEW i \in DOMAIN q, Live(q[i])
               PROVE  \E k \in DOMAIN Clean(q) : Clean(q)[k] = q[i]
    BY DEF In
  <2>1. q[i] \in S /\ i \in 1 .. Len(q)
    BY <1>4, <1>5
  <2> HIDE DEF S
  <2> QED BY <1>1, <2>1 DEF Selects
<1> QED BY <1>3, <1>6, <1>7

LEMMA PolledFacts ==
  ASSUME NEW t, NEW kind, NEW q \in [Channels -> Seq(Items)]
  PROVE  /\ Polled(t, kind, q) \in [Channels -> Seq(Items)]
         /\ \A item : \A c \in Channels : In(item, Polled(t, kind, q)[c]) => In(item, q[c])
         /\ \A item : \A c \in Channels :
              In(item, q[c]) /\ Live(item) => In(item, Polled(t, kind, q)[c])
         /\ \A i \in DOMAIN request[t].events, c \in Channels :
              request[t].events[i].kind = kind /\ request[t].events[i].on = c =>
                Polled(t, kind, q)[c] = Clean(q[c])
<1>1. \A c \in Channels : Clean(q[c]) \in Seq(Items) /\ q[c] \in Seq(Items)
  BY CleanFacts
<1>2. /\ Polled(t, kind, q) \in [Channels -> Seq(Items)]
      /\ \A c \in Channels : Polled(t, kind, q)[c] \in {Clean(q[c]), q[c]}
      /\ \A i \in DOMAIN request[t].events, c \in Channels :
           request[t].events[i].kind = kind /\ request[t].events[i].on = c =>
             Polled(t, kind, q)[c] = Clean(q[c])
  BY <1>1 DEF Polled
<1> HIDE DEF Polled
<1>3. \A item : \A c \in Channels : In(item, Polled(t, kind, q)[c]) => In(item, q[c])
  BY <1>1, <1>2, CleanFacts
<1>4. \A item : \A c \in Channels : In(item, q[c]) /\ Live(item) => In(item, Polled(t, kind, q)[c])
  BY <1>1, <1>2, CleanFacts
<1> QED BY <1>2, <1>3, <1>4

\* Cleaning the queues of the channels that are polled changes nothing that is alive.
LEMMA PollStays ==
  ASSUME EventInv, NEW t, inQ' = Polled(t, "send", inQ), outQ' = Polled(t, "recv", outQ),
         cancelled' = cancelled, \A v \in CVars : cvars'[v].waiting = cvars[v].waiting,
         \A item : ToWake(item)' <=> ToWake(item)
  PROVE  /\ Kept /\ Brought /\ PartnersInv'
         /\ inQ' \in [Channels -> Seq(Items)] /\ outQ' \in [Channels -> Seq(Items)]
<1>1. inQ \in [Channels -> Seq(Items)] /\ outQ \in [Channels -> Seq(Items)]
  BY DEF EventInv, TypeOK
<1>2. \A item : \A c \in Channels :
        /\ In(item, inQ'[c]) => In(item, inQ[c])
        /\ In(item, outQ'[c]) => In(item, outQ[c])
        /\ item.tx \notin cancelled /\ In(item, inQ[c]) => In(item, inQ'[c])
        /\ item.tx \notin cancelled /\ In(item, outQ[c]) => In(item, outQ'[c])
  BY <1>1, PolledFacts DEF Live
<1>3. \A item : \A c \in Channels : (In(item, inQ[c])' <=> In(item, inQ'[c]))
                                 /\ (In(item, outQ[c])' <=> In(item, outQ'[c]))
  BY DEF In
<1>4. Kept
  BY <1>2, <1>3 DEF Kept, In
<1>5. Brought
  BY <1>2, <1>3 DEF Brought, In
<1>6. PartnersInv'
  BY <1>2, <1>3, PartnersFrame
<1>7. inQ' \in [Channels -> Seq(Items)] /\ outQ' \in [Channels -> Seq(Items)]
  BY <1>1, PolledFacts
<1> QED BY <1>4, <1>5, <1>6, <1>7

-----------------------------------------------------------------------------
(***************************************************************************)
(* A thread that goes on with its program, and one that has a partner.     *)
(***************************************************************************)
LEMMA RequestKept ==
  ASSUME EventInv, NEW t \in Threads, ops[t] > 0, request'[t] = request[t], CVarsLast
  PROVE  \E r \in Requests : Evaluated(t, r)'
<1>1. TypeOK /\ OpsOk(t)
  BY DEF EventInv, ThreadsInv, ThreadOk
<1>2. PICK r \in Requests : Evaluated(t, r)
  BY <1>1 DEF OpsOk
<1>3. \A i \in DOMAIN request[t].events : request[t].events[i].kind = "wait" =>
        request[t].events[i].on \in CVars
  BY <1>1, RequestFacts
<1>4. DOMAIN r.events = DOMAIN request[t].events
  BY <1>2, RequestsAssumption DEF Evaluated, Operations
<1>5. \A i \in DOMAIN r.events : r.events[i].kind = "wait" =>
        cvars'[request[t].events[i].on].state # "none"
  BY <1>2, <1>3, <1>4 DEF Evaluated, CVarsLast
<1> QED BY <1>2, <1>5 DEF Evaluated

LEMMA GoesOn ==
  ASSUME EventInv, TypeOK', NEW t \in Threads, ops'[t] = ops[t], request'[t] = request[t], CVarsLast,
         ~ Waits(t)', pc'[Main(t)] # "sync", MetOk(t)',
         ~ Idles(t)' => ops[t] > 0,
         ops[t] > 0 => (Idles(t)' <=> result'[Tx0(t)] # Nil),
         pc'[Main(t)] \in {"choice", "exiting"} => Exec(Main(t))',
         \A e \in Entities : e[1] = t => ~ Readied(e)',
         \A e \in Entities : e[1] = t /\ e # Main(t) =>
           ~ Exec(e)' /\ pc'[e] \in {"none", "send", "recv", "wait"}
  PROVE  /\ ThreadOk(t)' /\ BlockedOk(t)'
         /\ \A e \in Entities : e[1] = t => ~ Given(e)'
         /\ \A e \in Entities : e[1] = t /\ e # Main(t) => ~ Placed(e)'
<1>1. Tx0(t)' = Tx0(t)
  BY DEF Tx0
<1>2. OpsOk(t)'
  BY <1>1, RequestKept DEF OpsOk
<1>3. ASSUME NEW e \in Entities, e[1] = t
      PROVE  ~ Given(e)' /\ EntityOk(e)' /\ (e # Main(t) => ~ Placed(e)')
  <2>1. CASE e = Main(t)
    <3>1. pc'[e] \notin {"send", "recv", "wait", "sent", "received", "return"}
      <4>1. pc'[e] \notin {"send", "recv", "wait", "sent", "received"}
        BY <2>1 DEF Waits
      <4>2. pc'[e] # "return"
        BY <1>3, <2>1, EntityFacts DEF TypeOK
      <4> QED BY <4>1, <4>2
    <3> QED BY <1>3, <2>1, <3>1, EntityFacts DEF Given, EntityOk
  <2>2. CASE e # Main(t)
    BY <1>3, <2>2 DEF Given, EntityOk, Placed
  <2> QED BY <2>1, <2>2
<1>4. \A e \in Entities : e[1] = t => GivenOk(e)' /\ EntityOk(e)'
  BY <1>3 DEF GivenOk
<1> QED BY <1>2, <1>3, <1>4 DEF ThreadOk, BlockedOk

LEMMA GivenFacts ==
  ASSUME EventInv, NEW e \in Entities, Given(e), NEW t \in Threads, t = e[1]
  PROVE  /\ Waits(t) /\ ~ Idles(t) /\ Tx0(t) \in cancelled /\ Tx0(t) \in Tx
         /\ ops[t] > 0 /\ result[Tx0(t)] = Nil /\ OpsOk(t)
         /\ \E i \in DOMAIN request[t].events :
              /\ e = Waiter(t, i) /\ Event(e) = request[t].events[i]
              /\ i = IF e[2] = 0 THEN 1 ELSE e[2]
         /\ e = Main(t) <=> ~ HasHelpers(t)
         /\ pc[e] # "return" => Event(e).kind = KindOf(pc[e])
         /\ Readied(e) => pc[e] = "wait"
         /\ Event(e).kind = "recv" => \E c \in Channels : <<val[e], Tx0(t), c>> \in matched
         /\ Event(e).kind = "send" => \E m \in matched : m[1] = Tx0(t)
         /\ e # Main(t) => pc[Main(t)] = "helped"
         /\ \A f \in Entities : f[1] = t /\ f # e =>
              /\ ~ Given(f) /\ ~ Exec(f) /\ ~ Readied(f) /\ ~ Placed(f)
              /\ f # Main(t) => pc[f] \in {"none", "send", "recv", "wait"}
<1>1. /\ Waits(t) /\ Tx0(t) \in cancelled
      /\ \E i \in DOMAIN request[t].events : e = Waiter(t, i)
      /\ pc[e] # "return" => Event(e).kind = KindOf(pc[e])
      /\ Readied(e) => pc[e] = "wait"
      /\ \A f \in Entities : f[1] = t /\ Given(f) => f = e
      /\ Event(e).kind = "recv" => \E c \in Channels : <<val[e], Tx0(t), c>> \in matched
      /\ Event(e).kind = "send" => \E m \in matched : m[1] = Tx0(t)
  BY DEF EventInv, ThreadsInv, ThreadOk, GivenOk
<1>2. ~ Idles(t)
  BY <1>1 DEF Waits, Idles
<1>3. ops[t] > 0 /\ OpsOk(t) /\ result[Tx0(t)] = Nil /\ Tx0(t) \in Tx
  BY <1>2, InOperation
<1>4. PICK i \in DOMAIN request[t].events : e = Waiter(t, i)
  BY <1>1
<1>5. /\ Event(e) = request[t].events[i] /\ i \in 1 .. Fan /\ (~ HasHelpers(t) => i = 1)
  BY <1>3, <1>4, RequestFacts DEF EventInv
<1>6. (e = Main(t) <=> ~ HasHelpers(t)) /\ i = IF e[2] = 0 THEN 1 ELSE e[2]
  BY <1>4, <1>5, EntityFacts DEF Waiter
<1>7. e # Main(t) => pc[Main(t)] = "helped"
  BY <1>1, <1>3, <1>6 DEF OpsOk
<1>8. ASSUME NEW f \in Entities, f[1] = t, f # e
      PROVE  /\ ~ Given(f) /\ ~ Exec(f) /\ ~ Readied(f) /\ ~ Placed(f)
             /\ f # Main(t) => pc[f] \in {"none", "send", "recv", "wait"}
  <2>1. ~ Given(f) /\ EntityOk(f)
    BY <1>1, <1>8 DEF EventInv, ThreadsInv, ThreadOk
  <2>2. f # Main(t) => pc[f] \in {"none", "send", "recv", "wait"}
    <3>1. f # Main(t) => f[2] # 0
      BY <1>8, EntityFacts
    <3> QED BY <2>1, <3>1 DEF EntityOk, Given
  <2>3. f = Main(t) => pc[f] \in {"send", "recv", "wait", "helped"}
    <3>1. f = Main(t) => pc[f] \in {"send", "recv", "wait", "sent", "received", "helped"}
      BY <1>1 DEF Waits
    <3> QED BY <2>1, <3>1 DEF EntityOk, Given
  <2>4. ~ Exec(f)
    <3>1. Exec(f) => pc[f] \in {"choice", "exiting", "send", "recv", "sent", "received"}
      BY DEF EventInv, PhaseInv, Exec
    <3> QED BY <2>1, <2>2, <2>3, <3>1 DEF Given
  <2> QED BY <2>1, <2>2, <2>3, <2>4 DEF Given, Placed
<1> QED BY <1>1, <1>2, <1>3, <1>4, <1>5, <1>6, <1>7, <1>8

\* A step that neither settles a nack nor commits.
LEMMA NacksStay ==
  ASSUME EventInv, NEW u \in Threads, request'[u] = request[u], ops'[u] = ops[u], CVarsLast,
         \A v \in CVars : v[1] = u => (Settled(v)' <=> Settled(v)),
         ops[u] > 0 => \A n \in request[u].nacks : Loses(u, n)' <=> Loses(u, n)
  PROVE  NacksOk(u)'
<1>1. TypeOK /\ OpsOk(u) /\ NacksOk(u)
  BY DEF EventInv, ThreadsInv, ThreadOk
<1> SUFFICES ASSUME ops[u] > 0, NEW n \in request[u].nacks
             PROVE  /\ cvars'[<<u, ops[u], n>>].state # "none"
                    /\ Settled(<<u, ops[u], n>>)' <=> Loses(u, n)'
  BY DEF NacksOk
<1>2. <<u, ops[u], n>> \in CVars
  BY <1>1, RequestFacts
<1>3. Loses(u, n)' <=> Loses(u, n)
  OBVIOUS
<1>4. <<u, ops[u], n>>[1] = u /\ <<u, ops[u], n>>' = <<u, ops[u], n>>
  OBVIOUS
<1> HIDE DEF Settled
<1>5. Settled(<<u, ops[u], n>>)' <=> Settled(<<u, ops[u], n>>)
  BY <1>2, <1>4
<1> QED BY <1>1, <1>2, <1>3, <1>5 DEF NacksOk, CVarsLast

\* A step that creates no condition variable and sets none.
LEMMA CVarsFrame ==
  ASSUME EventInv, cvars' = cvars, ops' = ops, request' = request, Distinct(agenda)',
         \A v \in CVars : ToBeSet(v)' => \/ ToBeSet(v)
                                         \/ /\ cvars[v].state = "unset"
                                            /\ \/ v = <<v[1], 0, 0>>
                                               \/ ops[v[1]] > 0 /\ v \in Nacks(v[1]),
         \A t \in Threads : Settled(<<t, 0, 0>>)' => pc'[Main(t)] \in {"exiting", "dead"}
  PROVE  CVarsInv'
BY DEF EventInv, CVarsInv, Nacks

\* The thread that has the processor can only begin to announce its own death.
LEMMA DeathsFrame ==
  ASSUME EventInv, cvars' = cvars,
         \A t \in Threads : pc[Main(t)] \in {"exiting", "dead"} => pc'[Main(t)] \in {"exiting", "dead"},
         \A t \in Threads : ToBeSet(<<t, 0, 0>>)' => ToBeSet(<<t, 0, 0>>) \/ pc'[Main(t)] = "exiting"
  PROVE  \A t \in Threads : Settled(<<t, 0, 0>>)' => pc'[Main(t)] \in {"exiting", "dead"}
BY DEF EventInv, CVarsInv, Settled

LEMMA PollFailsStep ==
  ASSUME EventInv, NEW t \in Threads, PollFails(t)
  PROVE  EventInv'
<1>1. /\ sched.cur = Main(t) /\ pc[Main(t)] = "sync" /\ sched.atomic = 0
      /\ sched' = sched /\ cvars' = cvars /\ cancelled' = cancelled /\ ops' = ops
      /\ request' = request /\ val' = val /\ choice' = choice /\ agenda' = agenda
      /\ failed' = failed /\ matched' = matched
      /\ inQ' = Polled(t, "send", inQ) /\ outQ' = Polled(t, "recv", outQ)
      /\ pc' = [pc EXCEPT ![Main(t)] = "run"]
      /\ result' = [result EXCEPT ![Tx0(t)] = [event |-> 0, val |-> Nil]]
  BY DEF PollFails, Runs
<1>2. TypeOK /\ ThreadsInv /\ CVarsInv /\ MatchInv /\ PlacesInv
  BY DEF EventInv
<1>3. /\ ~ Idles(t) /\ ~ Waits(t) /\ ops[t] > 0 /\ OpsOk(t) /\ result[Tx0(t)] = Nil
      /\ Tx0(t) \in Tx
  BY <1>1, InOperation DEF Idles, Waits
<1>4. /\ pc'[Main(t)] = "run" /\ \A e \in Entities : e # Main(t) => pc'[e] = pc[e]
      /\ pc' \in [Entities -> Points]
  BY <1>1, <1>2, EntityFacts DEF TypeOK, Points
<1>5. /\ result'[Tx0(t)] = [event |-> 0, val |-> Nil] /\ [event |-> 0, val |-> Nil] # Nil
      /\ \A x \in Tx : x # Tx0(t) => result'[x] = result[x]
      /\ result' \in [Tx -> {Nil} \cup [event : 0 .. Fan, val : Tx \cup {Nil}]]
  <2>1. 0 \in 0 .. Fan
    BY EntityFacts
  <2>2. [event |-> 0, val |-> Nil] # Nil
    BY <2>1, RequestsAssumption
  <2> QED BY <1>1, <1>2, <1>3, <2>1, <2>2 DEF TypeOK
<1>6. /\ \A v : ~ ToBeSet(v) /\ ~ ToBeSet(v)'
      /\ \A item : ~ ToWake(item) /\ ~ ToWake(item)'
      /\ \A v \in CVars : Settled(v)' <=> Settled(v)
  BY <1>1, Quiet DEF ToBeSet, ToWake, Settled
<1>7. /\ Kept /\ Brought /\ PartnersInv' /\ CVarsLast
      /\ inQ' \in [Channels -> Seq(Items)] /\ outQ' \in [Channels -> Seq(Items)]
  BY <1>1, <1>6, PollStays DEF CVarsLast
<1>8. TypeOK'
  <2>1. \A e \in Entities : e[2] = 0 => pc'[e] \notin {"none", "return"}
    BY <1>2, <1>4, EntityFacts DEF TypeOK
  <2> QED BY <1>1, <1>2, <1>4, <1>5, <1>7, <2>1 DEF TypeOK
<1>9. PICK M : M = {t}
  OBVIOUS
<1>10. PhaseInv' /\ CommitInv' /\ \A e : ~ Exec(e)' /\ ~ Readied(e)'
  <2>1. \A e \in Entities : e[1] \notin M => pc'[e] = pc[e]
    BY <1>4, <1>9, EntityFacts
  <2>2. \A u \in Threads : u \in M => pc'[Main(u)] \notin {"choice", "reply"}
    BY <1>4, <1>9
  <2> QED BY <1>1, <1>2, <2>1, <2>2, StillQuiet
<1>11. \A u \in Threads : u \notin M => Same(u)
  <2> SUFFICES ASSUME NEW u \in Threads, u # t PROVE Same(u)
    BY <1>9
  <2>1. result'[Tx0(u)] = result[Tx0(u)]
    BY <1>1, TxFacts
  <2> QED BY <1>1, <1>4, <1>10, <2>1, Quiet, EntityFacts DEF Same
<1>12. Idles(t)' /\ ~ Waits(t)' /\ Tx0(t)' = Tx0(t)
  BY <1>1, <1>4 DEF Idles, Waits, Tx0
<1>13. \A e \in Entities : e[1] = t /\ e # Main(t) => ~ Placed(e) /\ pc'[e] \in {"none", "send", "recv", "wait"}
  BY <1>3, <1>4, NotWaiting
<1>14. /\ ThreadOk(t)' /\ BlockedOk(t)'
       /\ \A e \in Entities : e[1] = t => ~ Given(e)'
       /\ \A e \in Entities : e[1] = t /\ e # Main(t) => ~ Placed(e)'
  <2>1. MetOk(t)'
    BY <1>5, <1>12 DEF MetOk
  <2> QED BY <1>1, <1>3, <1>4, <1>5, <1>7, <1>8, <1>10, <1>12, <1>13, <2>1, GoesOn
<1>15. NacksOk(t)'
  <2>1. \A n : ~ Loses(t, n)
    BY <1>1, NoLosers
  <2>2. \A i \in DOMAIN request[t].events : ~ Commits(t, i)'
    <3>1. \A i \in DOMAIN request[t].events : i \in 1 .. Fan
      BY <1>2, <1>3, RequestFacts
    <3>2. \A i \in DOMAIN request[t].events : [event |-> 0, val |-> Nil].event # i
      BY <3>1
    <3> QED BY <1>4, <1>5, <1>12, <3>2 DEF Commits
  <2>3. \A n : ~ Loses(t, n)'
    BY <1>1, <2>2 DEF Loses
  <2> QED BY <1>1, <1>6, <1>7, <2>1, <2>3, NacksStay
<1>16. \A e \in Entities : IF e[1] \in M THEN Scheduled(e)' = One(Placed(e)')
                           ELSE Scheduled(e)' = Scheduled(e)
  <2>1. \A e \in Entities : Scheduled(e)' = Scheduled(e) /\ Scheduled(e) = One(Placed(e))
    BY <1>1, <1>2 DEF Scheduled, PlacesInv
  <2>2. Placed(Main(t)) /\ Placed(Main(t))'
    BY <1>1, <1>4 DEF Placed
  <2> HIDE DEF Scheduled
  <2> QED BY <1>9, <1>13, <1>14, <2>1, <2>2 DEF One
<1>17. CVarsInv'
  <2>1. Distinct(agenda)'
    BY <1>1, <1>2 DEF CVarsInv, Distinct
  <2>2. \A u \in Threads : Settled(<<u, 0, 0>>)' => pc'[Main(u)] \in {"exiting", "dead"}
    BY <1>1, <1>4, <1>6, DeathsFrame, EntityFacts
  <2> QED BY <1>1, <1>6, <2>1, <2>2, CVarsFrame
<1>18. MatchInv'
  <2>1. Tx0(t)[2] = ops[Tx0(t)[1]]
    BY TxFacts
  <2> QED BY <1>1, <1>5, <2>1, MatchFrame
<1> HIDE DEF Scheduled
<1> QED BY <1>1, <1>3, <1>6, <1>7, <1>8, <1>9, <1>10, <1>11, <1>14, <1>15, <1>16, <1>17, <1>18, StepOk

\* What an operation has committed to when one of its entities is given its rendezvous.
LEMMA CommitsGiven ==
  ASSUME EventInv, NEW e \in Entities, Given(e), NEW t \in Threads, t = e[1]
  PROVE  /\ \A i \in DOMAIN request[t].events :
              Commits(t, i) <=> e = Waiter(t, i) /\ (pc[e] \in {"sent", "received", "return"} \/ Readied(e))
         /\ \A i, j \in DOMAIN request[t].events : Waiter(t, i) = Waiter(t, j) => i = j
<1>1. /\ Waits(t) /\ ops[t] > 0 /\ result[Tx0(t)] = Nil /\ OpsOk(t) /\ TypeOK
      /\ \A f \in Entities : f[1] = t /\ f # e =>
           /\ ~ Exec(f) /\ ~ Readied(f)
           /\ f # Main(t) => pc[f] \in {"none", "send", "recv", "wait"}
      /\ e # Main(t) <=> HasHelpers(t)
  BY GivenFacts DEF EventInv
<1>2. pc[Main(t)] \notin {"choice", "reply"}
  BY <1>1 DEF Waits
<1>3. \A i \in DOMAIN request[t].events :
        /\ i \in 1 .. Fan /\ Waiter(t, i) \in Entities /\ Waiter(t, i)[1] = t
        /\ ~ HasHelpers(t) => i = 1
  BY <1>1, RequestFacts
<1>4. \A i, j \in DOMAIN request[t].events : Waiter(t, i) = Waiter(t, j) => i = j
  BY <1>3, EntityFacts DEF Waiter
<1>5. ASSUME NEW i \in DOMAIN request[t].events
      PROVE  Commits(t, i) <=> e = Waiter(t, i)
                                 /\ (pc[e] \in {"sent", "received", "return"} \/ Readied(e))
  <2>1. Commits(t, i) <=> pc[Waiter(t, i)] \in {"sent", "received", "return"} \/ Readied(Waiter(t, i))
    BY <1>1, <1>2 DEF Commits
  <2>2. CASE Waiter(t, i) = e
    BY <2>1, <2>2
  <2>3. CASE Waiter(t, i) # e
    <3>1. Waiter(t, i) # Main(t)
      BY <1>1, <1>3, <2>3, EntityFacts DEF Waiter
    <3> QED BY <1>1, <1>3, <2>1, <2>3, <3>1
  <2> QED BY <2>2, <2>3
<1> QED BY <1>4, <1>5

LEMMA HelperReturnsStep ==
  ASSUME EventInv, NEW e \in Entities, HelperReturns(e)
  PROVE  EventInv'
<1>1. PICK t \in Threads : t = e[1]
  BY EntityFacts
<1>2. /\ sched.cur = e /\ pc[e] = "return" /\ sched.atomic = 0 /\ sched' = switch(sched, Main(t))
      /\ inQ' = inQ /\ outQ' = outQ /\ cvars' = cvars /\ cancelled' = cancelled
      /\ ops' = ops /\ request' = request /\ val' = val /\ choice' = choice
      /\ agenda' = agenda /\ failed' = failed /\ matched' = matched
      /\ pc' = [pc EXCEPT ![e] = "none", ![Main(t)] = "run"]
      /\ result' = [result EXCEPT ![Tx0(t)] = [event |-> e[2], val |-> HelperVal(e)]]
  BY <1>1 DEF HelperReturns, Runs
<1>3. TypeOK /\ ThreadsInv /\ CVarsInv /\ MatchInv /\ PlacesInv
  BY DEF EventInv
<1>4. e[2] # 0 /\ e # Main(t) /\ Main(t) \in Entities /\ Main(t)[1] = t /\ Given(e)
  BY <1>1, <1>2, <1>3, EntityFacts DEF TypeOK, Given
<1>5. /\ Waits(t) /\ Tx0(t) \in cancelled /\ Tx0(t) \in Tx /\ ops[t] > 0 /\ OpsOk(t)
      /\ result[Tx0(t)] = Nil /\ pc[Main(t)] = "helped" /\ HasHelpers(t)
      /\ Event(e).kind = "recv" => \E c \in Channels : <<val[e], Tx0(t), c>> \in matched
      /\ \A f \in Entities : f[1] = t /\ f # e =>
              /\ ~ Given(f) /\ ~ Exec(f) /\ ~ Readied(f) /\ ~ Placed(f)
              /\ f # Main(t) => pc[f] \in {"none", "send", "recv", "wait"}
  BY <1>1, <1>4, GivenFacts
<1>6. PICK k \in DOMAIN request[t].events :
        e = Waiter(t, k) /\ Event(e) = request[t].events[k] /\ k = e[2] /\ k \in 1 .. Fan
  <2>1. \E k \in DOMAIN request[t].events :
          e = Waiter(t, k) /\ Event(e) = request[t].events[k] /\ k = IF e[2] = 0 THEN 1 ELSE e[2]
    BY <1>1, <1>4, GivenFacts
  <2> QED BY <1>3, <1>4, <1>5, <2>1, RequestFacts
<1>7. /\ pc'[Main(t)] = "run" /\ pc'[e] = "none"
      /\ \A f \in Entities : f # e /\ f # Main(t) => pc'[f] = pc[f]
      /\ pc' \in [Entities -> Points]
  BY <1>2, <1>3, <1>4 DEF TypeOK, Points
<1>8. /\ sched' \in SchedulerStates(Entities) /\ sched'.atomic = 0
      /\ \A f : Scheduled(f)' = Scheduled(f) - One(e = f) + One(Main(t) = f)
  <2> DEFINE b == atomicBegin(sched)
  <2>1. /\ b \in SchedulerStates(Entities) /\ b.atomic = 1 /\ b.cur = e
        /\ \A f : Places(b, f) = Places(sched, f)
    BY <1>2, <1>3, PlacesBegin DEF TypeOK
  <2>2. sched' = atomicSwitch(b, Main(t))
    BY <1>2 DEF switch
  <2> HIDE DEF b
  <2> QED BY <1>4, <2>1, <2>2, PlacesSwitch DEF Scheduled
<1>9. HelperVal(e) \in Tx \cup {Nil}
  <2>1. Event(e).kind = "recv" => val[e] \in Tx
    BY <1>3, <1>5 DEF TypeOK
  <2> QED BY <2>1 DEF HelperVal
<1>10. /\ result'[Tx0(t)] = [event |-> e[2], val |-> HelperVal(e)] /\ result'[Tx0(t)] # Nil
       /\ \A x \in Tx : x # Tx0(t) => result'[x] = result[x]
       /\ result' \in [Tx -> {Nil} \cup [event : 0 .. Fan, val : Tx \cup {Nil}]]
  <2>1. e[2] \in 0 .. Fan
    BY EntityFacts
  <2>2. [event |-> e[2], val |-> HelperVal(e)] # Nil
    BY <1>9, <2>1, RequestsAssumption DEF Tx
  <2> QED BY <1>2, <1>3, <1>5, <1>9, <2>1, <2>2 DEF TypeOK
<1>11. TypeOK'
  <2>1. \A f \in Entities : f[2] = 0 => pc'[f] \notin {"none", "return"}
    BY <1>3, <1>4, <1>7, EntityFacts DEF TypeOK
  <2> QED BY <1>2, <1>3, <1>7, <1>8, <1>10, <2>1 DEF TypeOK
<1>12. /\ \A v : ~ ToBeSet(v) /\ ~ ToBeSet(v)'
       /\ \A item : ~ ToWake(item) /\ ~ ToWake(item)'
       /\ \A v \in CVars : Settled(v)' <=> Settled(v)
  BY <1>2, Quiet DEF ToBeSet, ToWake, Settled
<1>13. Kept /\ Brought /\ PartnersInv' /\ CVarsLast
  BY <1>2, <1>12, QueuesStay DEF CVarsLast
<1>14. PICK M : M = {t}
  OBVIOUS
<1>15. PhaseInv' /\ CommitInv' /\ \A f : ~ Exec(f)' /\ ~ Readied(f)'
  <2>1. \A f \in Entities : f[1] \notin M => pc'[f] = pc[f]
    BY <1>1, <1>7, <1>14, EntityFacts
  <2>2. \A u \in Threads : u \in M => pc'[Main(u)] \notin {"choice", "reply"}
    BY <1>7, <1>14
  <2> QED BY <1>2, <1>3, <1>8, <2>1, <2>2, StillQuiet
<1>16. \A u \in Threads : u \notin M => Same(u)
  <2> SUFFICES ASSUME NEW u \in Threads, u # t PROVE Same(u)
    BY <1>14
  <2>1. result'[Tx0(u)] = result[Tx0(u)]
    BY <1>2, TxFacts
  <2>2. \A f \in Entities : f[1] = u => pc'[f] = pc[f]
    BY <1>1, <1>7, EntityFacts
  <2> QED BY <1>2, <1>15, <2>1, <2>2, Quiet DEF Same
<1>17. Idles(t)' /\ ~ Waits(t)' /\ Tx0(t)' = Tx0(t)
  BY <1>2, <1>7 DEF Idles, Waits, Tx0
<1>18. /\ ThreadOk(t)' /\ BlockedOk(t)'
       /\ \A f \in Entities : f[1] = t => ~ Given(f)'
       /\ \A f \in Entities : f[1] = t /\ f # Main(t) => ~ Placed(f)'
  <2>1. MetOk(t)'
    BY <1>10, <1>17 DEF MetOk
  <2>2. \A f \in Entities : f[1] = t /\ f # Main(t) => pc'[f] \in {"none", "send", "recv", "wait"}
    BY <1>5, <1>7
  <2> QED BY <1>2, <1>5, <1>7, <1>10, <1>11, <1>13, <1>15, <1>17, <2>1, <2>2, GoesOn
<1>19. NacksOk(t)'
  <2>1. \A i \in DOMAIN request[t].events : Commits(t, i) <=> i = k
    <3>1. \A i \in DOMAIN request[t].events : Commits(t, i) <=> e = Waiter(t, i)
      <4>1. \A i \in DOMAIN request[t].events :
              Commits(t, i) <=> e = Waiter(t, i) /\ (pc[e] \in {"sent", "received", "return"} \/ Readied(e))
        BY <1>1, <1>4, CommitsGiven
      <4> QED BY <1>2, <4>1
    <3>2. \A i \in DOMAIN request[t].events : e = Waiter(t, i) <=> i = k
      BY <1>1, <1>4, <1>6, CommitsGiven
    <3> QED BY <3>1, <3>2
  <2>2. \A i \in DOMAIN request[t].events : Commits(t, i)' <=> i = k
    <3>1. result'[Tx0(t)].event = k
      BY <1>6, <1>10
    <3> QED BY <1>7, <1>10, <1>17, <3>1 DEF Commits
  <2>3. \A n : Loses(t, n)' <=> Loses(t, n)
    BY <1>2, <2>1, <2>2 DEF Loses
  <2> QED BY <1>2, <1>12, <1>13, <2>3, NacksStay
<1>20. \A f \in Entities : IF f[1] \in M THEN Scheduled(f)' = One(Placed(f)')
                           ELSE Scheduled(f)' = Scheduled(f)
  <2>1. \A f \in Entities : Scheduled(f) = One(Placed(f))
    BY <1>3 DEF PlacesInv
  <2> HIDE DEF Scheduled
  <2>2. Placed(e) /\ ~ Placed(e)' /\ ~ Placed(Main(t)) /\ Placed(Main(t))'
    BY <1>1, <1>2, <1>4, <1>5, <1>7, <1>18 DEF Placed
  <2>3. ASSUME NEW f \in Entities, f[1] = t PROVE Scheduled(f)' = One(Placed(f)')
    <3>1. CASE f = e
      BY <1>4, <1>8, <2>1, <2>2, <3>1 DEF One
    <3>2. CASE f = Main(t)
      BY <1>4, <1>8, <2>1, <2>2, <3>2 DEF One
    <3>3. CASE f # e /\ f # Main(t)
      BY <1>5, <1>8, <1>18, <2>1, <2>3, <3>3 DEF One
    <3> QED BY <3>1, <3>2, <3>3
  <2>4. ASSUME NEW f \in Entities, f[1] # t PROVE Scheduled(f)' = Scheduled(f)
    <3>1. f # e /\ f # Main(t)
      BY <1>1, <1>4, <2>4
    <3> QED BY <1>8, <2>1, <3>1 DEF One
  <2> QED BY <1>14, <2>3, <2>4
<1>21. CVarsInv'
  <2>1. Distinct(agenda)'
    BY <1>2, <1>3 DEF CVarsInv, Distinct
  <2>2. \A u \in Threads : pc[Main(u)] \in {"exiting", "dead"} => pc'[Main(u)] \in {"exiting", "dead"}
    BY <1>4, <1>5, <1>7, EntityFacts
  <2>3. \A u \in Threads : Settled(<<u, 0, 0>>)' => pc'[Main(u)] \in {"exiting", "dead"}
    BY <1>2, <1>12, <2>2, DeathsFrame
  <2> QED BY <1>2, <1>12, <2>1, <2>3, CVarsFrame
<1>22. MatchInv'
  <2>1. Tx0(t)[2] = ops[Tx0(t)[1]]
    BY TxFacts
  <2> QED BY <1>2, <1>10, <2>1, MatchFrame
<1> HIDE DEF Scheduled
<1> QED BY <1>2, <1>5, <1>11, <1>12, <1>13, <1>14, <1>15, <1>16, <1>18, <1>19, <1>20, <1>21, <1>22,
          StepOk

-----------------------------------------------------------------------------
(***************************************************************************)
(* The agenda.                                                             *)
(***************************************************************************)
SetsIn(q, v)     == \E k \in DOMAIN q : q[k].do = "set" /\ q[k].cv = v
WakesIn(q, item) == \E k \in DOMAIN q : q[k].do = "wake" /\ q[k].item = item
ReadiesIn(q, e)  == \E k \in DOMAIN q : q[k].do = "ready" /\ q[k].item.thr = e

LEMMA AgendaNow ==
  /\ \A v : ToBeSet(v) <=> SetsIn(agenda, v)
  /\ \A item : ToWake(item) <=> WakesIn(agenda, item)
  /\ \A e : Readied(e) <=> ReadiesIn(agenda, e)
  /\ \A v : ToBeSet(v)' <=> SetsIn(agenda', v)
  /\ \A item : ToWake(item)' <=> WakesIn(agenda', item)
  /\ \A e : Readied(e)' <=> ReadiesIn(agenda', e)
BY DEF ToBeSet, ToWake, Readied, SetsIn, WakesIn, ReadiesIn

\* What comes first on the agenda, and what is left when it is done.
LEMMA AgendaTail ==
  ASSUME NEW q \in Seq(Tasks), q # <<>>
  PROVE  /\ Tail(q) \in Seq(Tasks) /\ Head(q) \in Tasks
         /\ \A v : SetsIn(q, v) <=> SetsIn(Tail(q), v) \/ (Head(q).do = "set" /\ Head(q).cv = v)
         /\ \A item : WakesIn(q, item) <=>
              WakesIn(Tail(q), item) \/ (Head(q).do = "wake" /\ Head(q).item = item)
         /\ \A e : ReadiesIn(q, e) <=>
              ReadiesIn(Tail(q), e) \/ (Head(q).do = "ready" /\ Head(q).item.thr = e)
         /\ Distinct(q) => /\ Distinct(Tail(q))
                           /\ \A l \in DOMAIN Tail(q) : ~ Clash(Head(q), Tail(q)[l])
<1> DEFINE r == Tail(q)
           h == Head(q)
           n == Len(q)
<1>1. /\ r \in Seq(Tasks) /\ h \in Tasks /\ h = q[1] /\ n \in Nat \ {0}
      /\ DOMAIN q = 1 .. n /\ DOMAIN r = 1 .. (n - 1)
      /\ \A k \in 1 .. (n - 1) : r[k] = q[k + 1]
  OBVIOUS
<1> SUFFICES /\ \A v : SetsIn(q, v) <=> SetsIn(r, v) \/ (h.do = "set" /\ h.cv = v)
             /\ \A item : WakesIn(q, item) <=> WakesIn(r, item) \/ (h.do = "wake" /\ h.item = item)
             /\ \A e : ReadiesIn(q, e) <=> ReadiesIn(r, e) \/ (h.do = "ready" /\ h.item.thr = e)
             /\ Distinct(q) => Distinct(r) /\ \A l \in DOMAIN r : ~ Clash(h, r[l])
  BY <1>1
<1> HIDE DEF r, h, n
<1>2. \A k \in DOMAIN r : k + 1 \in DOMAIN q /\ q[k + 1] = r[k]
  BY <1>1
<1>3. 1 \in DOMAIN q /\ q[1] = h
  BY <1>1
<1>4. \A k \in DOMAIN q : (k = 1 /\ q[k] = h) \/ \E l \in DOMAIN r : k = l + 1 /\ q[k] = r[l]
  <2> SUFFICES ASSUME NEW k \in DOMAIN q, k # 1
               PROVE  \E l \in DOMAIN r : k = l + 1 /\ q[k] = r[l]
    BY <1>3
  <2>1. k - 1 \in DOMAIN r /\ k = (k - 1) + 1
    BY <1>1
  <2> QED BY <1>2, <2>1
<1>5. /\ \A v : SetsIn(q, v) <=> SetsIn(r, v) \/ (h.do = "set" /\ h.cv = v)
      /\ \A item : WakesIn(q, item) <=> WakesIn(r, item) \/ (h.do = "wake" /\ h.item = item)
      /\ \A e : ReadiesIn(q, e) <=> ReadiesIn(r, e) \/ (h.do = "ready" /\ h.item.thr = e)
  <2>1. \A k \in DOMAIN r : \E j \in DOMAIN q : q[j] = r[k]
    BY <1>2
  <2>2. \E j \in DOMAIN q : q[j] = h
    BY <1>3
  <2>3. \A k \in DOMAIN q : q[k] = h \/ \E l \in DOMAIN r : q[k] = r[l]
    BY <1>4
  <2>4. \A v : SetsIn(q, v) <=> SetsIn(r, v) \/ (h.do = "set" /\ h.cv = v)
    BY <2>1, <2>2, <2>3 DEF SetsIn
  <2>5. \A item : WakesIn(q, item) <=> WakesIn(r, item) \/ (h.do = "wake" /\ h.item = item)
    BY <2>1, <2>2, <2>3 DEF WakesIn
  <2>6. \A e : ReadiesIn(q, e) <=> ReadiesIn(r, e) \/ (h.do = "ready" /\ h.item.thr = e)
    BY <2>1, <2>2, <2>3 DEF ReadiesIn
  <2> QED BY <2>4, <2>5, <2>6
<1>6. ASSUME Distinct(q) PROVE Distinct(r) /\ \A l \in DOMAIN r : ~ Clash(h, r[l])
  <2>1. ASSUME NEW k \in DOMAIN r, NEW l \in DOMAIN r, Clash(r[k], r[l]) PROVE k = l
    <3>1. k + 1 = l + 1
      BY <1>2, <1>6, <2>1 DEF Distinct
    <3> QED BY <1>1, <3>1
  <2>2. ASSUME NEW l \in DOMAIN r, Clash(h, r[l]) PROVE FALSE
    <3>1. 1 = l + 1
      BY <1>2, <1>3, <1>6, <2>2 DEF Distinct
    <3> QED BY <1>1, <3>1
  <2> QED BY <2>1, <2>2 DEF Distinct
<1> QED BY <1>5, <1>6

\* Two agendas one after the other.
LEMMA AgendaConcat ==
  ASSUME NEW a \in Seq(Tasks), NEW b \in Seq(Tasks)
  PROVE  /\ a \o b \in Seq(Tasks)
         /\ \A v : SetsIn(a \o b, v) <=> SetsIn(a, v) \/ SetsIn(b, v)
         /\ \A item : WakesIn(a \o b, item) <=> WakesIn(a, item) \/ WakesIn(b, item)
         /\ \A e : ReadiesIn(a \o b, e) <=> ReadiesIn(a, e) \/ ReadiesIn(b, e)
         /\ /\ Distinct(a) /\ Distinct(b)
            /\ \A k \in DOMAIN a, l \in DOMAIN b : ~ Clash(a[k], b[l])
            => Distinct(a \o b)
<1> DEFINE c == a \o b
<1>1. c \in Seq(Tasks) /\ Joins(a, b, c)
  BY ConcatElements
<1>2. /\ DOMAIN a = 1 .. Len(a) /\ DOMAIN b = 1 .. Len(b) /\ DOMAIN c = 1 .. Len(c)
      /\ Len(a) \in Nat /\ Len(b) \in Nat /\ Len(c) = Len(a) + Len(b)
      /\ \A k \in 1 .. Len(c) : c[k] = IF k <= Len(a) THEN a[k] ELSE b[k - Len(a)]
  BY <1>1, ConcatProperties
<1> SUFFICES /\ \A v : SetsIn(c, v) <=> SetsIn(a, v) \/ SetsIn(b, v)
             /\ \A item : WakesIn(c, item) <=> WakesIn(a, item) \/ WakesIn(b, item)
             /\ \A e : ReadiesIn(c, e) <=> ReadiesIn(a, e) \/ ReadiesIn(b, e)
             /\ /\ Distinct(a) /\ Distinct(b)
                /\ \A k \in DOMAIN a, l \in DOMAIN b : ~ Clash(a[k], b[l])
                => Distinct(c)
  BY <1>1
<1> HIDE DEF c
<1>3. \A v : SetsIn(c, v) <=> SetsIn(a, v) \/ SetsIn(b, v)
  BY <1>1 DEF Joins, SetsIn
<1>4. \A item : WakesIn(c, item) <=> WakesIn(a, item) \/ WakesIn(b, item)
  BY <1>1 DEF Joins, WakesIn
<1>5. \A e : ReadiesIn(c, e) <=> ReadiesIn(a, e) \/ ReadiesIn(b, e)
  BY <1>1 DEF Joins, ReadiesIn
<1>6. ASSUME Distinct(a), Distinct(b), \A k \in DOMAIN a, l \in DOMAIN b : ~ Clash(a[k], b[l])
      PROVE  Distinct(c)
  <2> SUFFICES ASSUME NEW k \in DOMAIN c, NEW l \in DOMAIN c, Clash(c[k], c[l])
               PROVE  k = l
    BY DEF Distinct
  <2>0. Clash(c[l], c[k])
    BY DEF Clash
  <2>1. k \in 1 .. (Len(a) + Len(b)) /\ l \in 1 .. (Len(a) + Len(b)) /\ k \in Int /\ l \in Int
    BY <1>2
  <2>2. ASSUME NEW j \in DOMAIN c, j <= Len(a) PROVE j \in DOMAIN a /\ c[j] = a[j]
    BY <1>2, <2>2
  <2>3. ASSUME NEW j \in DOMAIN c, ~ (j <= Len(a))
        PROVE  j - Len(a) \in DOMAIN b /\ c[j] = b[j - Len(a)]
    BY <1>2, <2>3
  <2>4. CASE k <= Len(a) /\ l <= Len(a)
    BY <1>6, <2>2, <2>4 DEF Distinct
  <2>5. CASE k <= Len(a) /\ ~ (l <= Len(a))
    BY <1>6, <2>2, <2>3, <2>5
  <2>6. CASE ~ (k <= Len(a)) /\ l <= Len(a)
    BY <1>6, <2>0, <2>2, <2>3, <2>6
  <2>7. CASE ~ (k <= Len(a)) /\ ~ (l <= Len(a))
    <3>1. k - Len(a) = l - Len(a)
      BY <1>6, <2>3, <2>7 DEF Distinct
    <3> QED BY <1>2, <2>1, <3>1
  <2> QED BY <2>4, <2>5, <2>6, <2>7
<1> QED BY <1>3, <1>4, <1>5, <1>6

\* Committing to event i settles the nacks of the groups it is not in.
LEMMA NackTasksFacts ==
  ASSUME TypeOK, NEW t \in Threads, ops[t] > 0, OpsOk(t), NEW i \in DOMAIN request[t].events
  PROVE  /\ NackTasks(t, i) \in Seq(Tasks) /\ Distinct(NackTasks(t, i))
         /\ \A v : SetsIn(NackTasks(t, i), v) <=>
              \E n \in request[t].nacks :
                v = <<t, ops[t], n>> /\ n \notin request[t].events[i].within
         /\ \A item : ~ WakesIn(NackTasks(t, i), item)
         /\ \A e : ~ ReadiesIn(NackTasks(t, i), e)
         /\ \A k \in DOMAIN NackTasks(t, i) : NackTasks(t, i)[k].do = "set"
<1> DEFINE lost    == LostGroups(t, i)
           task(n) == [do |-> "set", cv |-> <<t, ops[t], n>>]
<1>1. lost \subseteq {1, 2} /\ \A n : n \in lost <=> n \in request[t].nacks /\ n \notin request[t].events[i].within
  BY RequestFacts DEF LostGroups
<1>2. \A n \in lost : <<t, ops[t], n>> \in CVars
  BY <1>1, RequestFacts
<1> HIDE DEF lost
<1>3. \A n \in lost : task(n) \in Tasks /\ task(n).do = "set" /\ task(n).cv = <<t, ops[t], n>>
  BY <1>2 DEF Tasks
<1> DEFINE q == NackTasks(t, i)
<1>4. q = (IF 2 \in lost THEN <<task(2)>> ELSE <<>>) \o (IF 1 \in lost THEN <<task(1)>> ELSE <<>>)
  BY DEF NackTasks, lost
<1>5. ~ Clash(task(1), task(2)) /\ ~ Clash(task(2), task(1))
  BY DEF Clash
<1> HIDE DEF task
<1>6. /\ q \in Seq(Tasks) /\ Distinct(q)
      /\ \A k \in DOMAIN q : q[k].do = "set" /\ \E n \in lost : q[k].cv = <<t, ops[t], n>>
      /\ \A n \in lost : \E k \in DOMAIN q : q[k].do = "set" /\ q[k].cv = <<t, ops[t], n>>
  <2>1. CASE 1 \in lost /\ 2 \in lost
    <3>1. q \in Seq(Tasks) /\ Len(q) = 2 /\ q[1] = task(2) /\ q[2] = task(1)
      <4>1. PICK a \in Tasks : a = task(2)
        BY <1>3, <2>1
      <4>2. PICK b \in Tasks : b = task(1)
        BY <1>3, <2>1
      <4>3. q = <<a>> \o <<b>>
        BY <1>4, <2>1, <4>1, <4>2
      <4>4. /\ <<a>> \in Seq(Tasks) /\ <<b>> \in Seq(Tasks) /\ Len(<<a>>) = 1 /\ Len(<<b>>) = 1
            /\ <<a>>[1] = a /\ <<b>>[1] = b
        OBVIOUS
      <4>5. /\ <<a>> \o <<b>> \in Seq(Tasks) /\ Len(<<a>> \o <<b>>) = 2
            /\ (<<a>> \o <<b>>)[1] = a /\ (<<a>> \o <<b>>)[2] = b
        BY <4>4, ConcatProperties
      <4> QED BY <4>1, <4>2, <4>3, <4>5
    <3> HIDE DEF q
    <3>2. DOMAIN q = {1, 2}
      BY <3>1
    <3> QED BY <1>1, <1>3, <1>5, <2>1, <3>1, <3>2 DEF Distinct
  <2>2. CASE 1 \in lost /\ 2 \notin lost
    <3>1. q = <<task(1)>>
      BY <1>4, <2>2
    <3> HIDE DEF q
    <3>2. q \in Seq(Tasks) /\ DOMAIN q = {1} /\ q[1] = task(1)
      BY <1>3, <2>2, <3>1
    <3> QED BY <1>1, <1>3, <2>2, <3>2 DEF Distinct
  <2>3. CASE 1 \notin lost /\ 2 \in lost
    <3>1. q = <<task(2)>>
      BY <1>4, <2>3
    <3> HIDE DEF q
    <3>2. q \in Seq(Tasks) /\ DOMAIN q = {1} /\ q[1] = task(2)
      BY <1>3, <2>3, <3>1
    <3> QED BY <1>1, <1>3, <2>3, <3>2 DEF Distinct
  <2>4. CASE 1 \notin lost /\ 2 \notin lost
    <3>1. q = <<>> /\ lost = {}
      BY <1>1, <1>4, <2>4
    <3> HIDE DEF q
    <3> QED BY <3>1 DEF Distinct
  <2> QED BY <2>1, <2>2, <2>3, <2>4
<1> HIDE DEF q
<1>7. \A v : SetsIn(q, v) <=> \E n \in request[t].nacks :
                v = <<t, ops[t], n>> /\ n \notin request[t].events[i].within
  BY <1>1, <1>6 DEF SetsIn
<1>8. /\ \A item : ~ WakesIn(q, item)
      /\ \A e : ~ ReadiesIn(q, e)
  BY <1>6 DEF WakesIn, ReadiesIn
<1> QED BY <1>6, <1>7, <1>8 DEF q

-----------------------------------------------------------------------------
(***************************************************************************)
(* A thread before and after it commits.                                   *)
(***************************************************************************)
\* The end of a critical section.
LEMMA LeavesSection ==
  ASSUME sched'.atomic = 0, agenda' = <<>>,
         \A u \in Threads : pc'[Main(u)] \notin {"choice", "reply"}
  PROVE  /\ PhaseInv' /\ CommitInv'
         /\ \A e : ~ Exec(e)' /\ ~ Readied(e)'
         /\ \A v : ~ ToBeSet(v)'
         /\ \A item : ~ ToWake(item)'
<1>1. PhaseInv'
  BY DEF PhaseInv
<1>2. CommitInv'
  BY DEF CommitInv
<1>3. \A e : ~ Exec(e)' /\ ~ Readied(e)'
  BY DEF Exec, Readied
<1>4. /\ \A v : ~ ToBeSet(v)'
      /\ \A item : ~ ToWake(item)'
  BY DEF ToBeSet, ToWake
<1> QED BY <1>1, <1>2, <1>3, <1>4

LEMMA NothingToDo ==
  ASSUME agenda = <<>>
  PROVE  /\ \A e : ~ Readied(e)
         /\ \A v : ~ ToBeSet(v)
         /\ \A item : ~ ToWake(item)
         /\ agenda' = agenda => /\ \A e : ~ Readied(e)'
                                /\ \A v : ~ ToBeSet(v)'
                                /\ \A item : ~ ToWake(item)'
BY DEF Readied, ToBeSet, ToWake

\* A thread that is committing to an enabled event, or has and waits for the answer.
LEMMA CommitsChoice ==
  ASSUME EventInv, NEW t \in Threads, pc[Main(t)] \in {"choice", "reply"}
  PROVE  /\ choice \in DOMAIN request[t].events /\ choice \in 1 .. Fan
         /\ Event(<<t, choice>>) = request[t].events[choice]
         /\ ~ Idles(t) /\ ~ Waits(t) /\ ops[t] > 0 /\ OpsOk(t) /\ result[Tx0(t)] = Nil
         /\ Tx0(t) \in Tx
         /\ \A i \in DOMAIN request[t].events : Commits(t, i) <=> i = choice
         /\ \A e \in Entities : e[1] = t => ~ Given(e) /\ ~ Readied(e)
         /\ \A e \in Entities : e[1] = t /\ e # Main(t) =>
              ~ Exec(e) /\ ~ Placed(e) /\ pc[e] \in {"none", "send", "recv", "wait"}
<1>1. ~ Idles(t) /\ ~ Waits(t)
  BY DEF Idles, Waits
<1>2. ops[t] > 0 /\ OpsOk(t) /\ result[Tx0(t)] = Nil /\ Tx0(t) \in Tx
  BY <1>1, InOperation
<1>3. choice \in DOMAIN request[t].events
  BY DEF EventInv, CommitInv, ReplyOk, ChoiceOk
<1>4. choice \in 1 .. Fan
  BY <1>2, <1>3, RequestFacts DEF EventInv
<1>5. Event(<<t, choice>>) = request[t].events[choice]
  <2>1. choice # 0
    BY <1>4, EntityFacts
  <2> QED BY <2>1 DEF Event
<1>6. \A i \in DOMAIN request[t].events : Commits(t, i) <=> i = choice
  BY <1>1, <1>2 DEF Commits
<1> QED BY <1>1, <1>2, <1>3, <1>4, <1>5, <1>6, NotWaiting

\* A thread that is blocked and alive.
LEMMA Uncommitted ==
  ASSUME EventInv, NEW t \in Threads, Waits(t), Tx0(t) \notin cancelled
  PROVE  /\ ~ Idles(t) /\ ops[t] > 0 /\ OpsOk(t) /\ result[Tx0(t)] = Nil /\ Tx0(t) \in Tx
         /\ \A n : ~ Loses(t, n)
         /\ \A m \in matched : Tx0(t) \notin {m[1], m[2]}
         /\ \A e \in Entities : e[1] = t =>
              /\ ~ Given(e) /\ ~ Exec(e) /\ ~ Readied(e) /\ ~ Placed(e)
              /\ e # Main(t) => pc[e] \in {"none", "send", "recv", "wait"}
<1>1. ~ Idles(t)
  BY DEF Idles, Waits
<1>2. ops[t] > 0 /\ OpsOk(t) /\ result[Tx0(t)] = Nil /\ Tx0(t) \in Tx
  BY <1>1, InOperation
<1>3. \A e \in Entities : e[1] = t => GivenOk(e) /\ EntityOk(e)
  BY DEF EventInv, ThreadsInv, ThreadOk
<1>4. \A e \in Entities : e[1] = t => ~ Given(e)
  BY <1>3 DEF GivenOk
<1>5. ASSUME NEW e \in Entities, e[1] = t
      PROVE  /\ ~ Exec(e) /\ ~ Readied(e) /\ ~ Placed(e)
             /\ e # Main(t) => pc[e] \in {"none", "send", "recv", "wait"}
             /\ pc[e] \notin {"sent", "received", "return"}
  <2>1. pc[e] \notin {"sent", "received", "return"} /\ ~ Readied(e)
    BY <1>3, <1>4, <1>5 DEF EntityOk, Given
  <2>2. e # Main(t) => pc[e] \in {"none", "send", "recv", "wait"}
    <3>1. e # Main(t) => e[2] # 0
      BY <1>5, EntityFacts
    <3> QED BY <1>3, <1>5, <2>1, <3>1 DEF EntityOk
  <2>3. e = Main(t) => pc[e] \in {"send", "recv", "wait", "helped"}
    <3>1. e = Main(t) => pc[e] \in {"send", "recv", "wait", "sent", "received", "helped"}
      BY DEF Waits
    <3> QED BY <2>1, <3>1
  <2>4. ~ Exec(e)
    <3>1. Exec(e) => pc[e] \in {"choice", "exiting", "send", "recv", "sent", "received"}
      BY DEF EventInv, PhaseInv, Exec
    <3>2. Exec(e) => pc[e] \notin {"send", "recv"}
      BY <1>4, <1>5 DEF Given
    <3> QED BY <2>1, <2>2, <2>3, <3>1, <3>2
  <2>5. ~ Placed(e)
    BY <2>1, <2>2, <2>3, <2>4 DEF Placed
  <2> QED BY <2>1, <2>2, <2>4, <2>5
<1>6. \A n : ~ Loses(t, n)
  <2>1. \A i \in DOMAIN request[t].events : Waiter(t, i) \in Entities /\ Waiter(t, i)[1] = t
    BY <1>2, RequestFacts DEF EventInv
  <2>2. pc[Main(t)] \notin {"choice", "reply"}
    BY DEF Waits
  <2>3. \A i \in DOMAIN request[t].events : ~ Commits(t, i)
    BY <1>2, <1>5, <2>1, <2>2 DEF Commits
  <2> QED BY <2>3 DEF Loses
<1>7. \A m \in matched : Tx0(t) \notin {m[1], m[2]}
  <2>1. ~ MeetsNow(t)
    BY <1>4 DEF MeetsNow, Waits
  <2> QED BY <1>2, <2>1 DEF EventInv, ThreadsInv, ThreadOk, MetOk
<1> QED BY <1>1, <1>2, <1>4, <1>5, <1>6, <1>7

\* The thread that is not in a rendezvous has met nobody.
LEMMA Unmet ==
  ASSUME EventInv, NEW t \in Threads, ops[t] > 0, result[Tx0(t)] = Nil, pc[Main(t)] # "reply",
         \A e \in Entities : e[1] = t /\ Given(e) => Event(e).kind = "wait"
  PROVE  \A m \in matched : Tx0(t) \notin {m[1], m[2]}
<1>1. ~ MeetsNow(t)
  BY DEF MeetsNow
<1> QED BY <1>1 DEF EventInv, ThreadsInv, ThreadOk, MetOk

\* A thread that has committed to event k returns.
LEMMA ReturnsOk ==
  ASSUME EventInv, TypeOK', NEW t \in Threads, ~ Idles(t), ops'[t] = ops[t],
         request'[t] = request[t], CVarsLast, pc'[Main(t)] = "run",
         NEW k, result'[Tx0(t)] # Nil, result'[Tx0(t)].event = k,
         \A i \in DOMAIN request[t].events : Commits(t, i) <=> i = k,
         \A e \in Entities : e[1] = t => ~ Readied(e)',
         \A e \in Entities : e[1] = t /\ e # Main(t) =>
           ~ Exec(e)' /\ pc'[e] \in {"none", "send", "recv", "wait"},
         \A v \in CVars : v[1] = t => (Settled(v)' <=> Settled(v))
  PROVE  /\ ThreadOk(t)' /\ BlockedOk(t)' /\ NacksOk(t)'
         /\ \A e \in Entities : e[1] = t => ~ Given(e)'
         /\ \A e \in Entities : e[1] = t /\ e # Main(t) => ~ Placed(e)'
         /\ Placed(Main(t))'
<1>1. ops[t] > 0 /\ OpsOk(t) /\ result[Tx0(t)] = Nil /\ Tx0(t) \in Tx
  BY InOperation
<1>2. Idles(t)' /\ ~ Waits(t)' /\ Tx0(t)' = Tx0(t) /\ Placed(Main(t))'
  BY DEF Idles, Waits, Tx0, Placed
<1>3. MetOk(t)'
  BY <1>2 DEF MetOk
<1>4. /\ ThreadOk(t)' /\ BlockedOk(t)'
      /\ \A e \in Entities : e[1] = t => ~ Given(e)'
      /\ \A e \in Entities : e[1] = t /\ e # Main(t) => ~ Placed(e)'
  BY <1>1, <1>2, <1>3, GoesOn
<1>5. NacksOk(t)'
  <2>1. \A i \in DOMAIN request[t].events : Commits(t, i)' <=> i = k
    BY <1>2 DEF Commits
  <2>2. \A n : Loses(t, n)' <=> Loses(t, n)
    BY <2>1 DEF Loses
  <2> QED BY <2>2, NacksStay
<1> QED BY <1>2, <1>4, <1>5

\* A thread one of whose entities has been given its rendezvous.
LEMMA GivenNow ==
  ASSUME EventInv, TypeOK', NEW e \in Entities, NEW t \in Threads, t = e[1], Waits(t),
         ops'[t] = ops[t], request'[t] = request[t], CVarsLast,
         result'[Tx0(t)] = result[Tx0(t)], Tx0(t) \in cancelled',
         \E i \in DOMAIN request[t].events : e = Waiter(t, i),
         Given(e)', pc'[e] \in {"send", "recv", "wait", "sent", "received", "return"},
         pc'[e] # "return" => Event(e).kind = KindOf(pc'[e]),
         pc'[e] \in {"sent", "received"} => Exec(e)',
         Readied(e)' => pc'[e] = "wait",
         \A f \in Entities : f[1] = t /\ f # e =>
           /\ ~ Exec(f)' /\ ~ Readied(f)' /\ pc'[f] = pc[f]
           /\ f # Main(t) => pc[f] \in {"none", "send", "recv", "wait"},
         Event(e).kind = "recv" => \E c \in Channels : <<val'[e], Tx0(t), c>> \in matched',
         Event(e).kind = "send" => \E m \in matched' : m[1] = Tx0(t),
         Event(e).kind = "wait" => \A m \in matched' : Tx0(t) \notin {m[1], m[2]}
  PROVE  /\ ThreadOk(t)' /\ BlockedOk(t)'
         /\ \A f \in Entities : f[1] = t /\ f # e => ~ Given(f)' /\ ~ Placed(f)'
         /\ \A i \in DOMAIN request[t].events :
              Commits(t, i)' <=>
                e = Waiter(t, i) /\ (pc'[e] \in {"sent", "received", "return"} \/ Readied(e)')
<1>1. /\ ~ Idles(t) /\ ops[t] > 0 /\ OpsOk(t) /\ result[Tx0(t)] = Nil /\ Tx0(t) \in Tx /\ TypeOK
      /\ (pc[Main(t)] = "helped" <=> HasHelpers(t))
  <2>1. ~ Idles(t)
    BY DEF Idles, Waits
  <2> QED BY <2>1, InOperation DEF EventInv, OpsOk
<1>2. /\ Tx0(t)' = Tx0(t) /\ (HasHelpers(t)' <=> HasHelpers(t)) /\ Event(e)' = Event(e)
      /\ \A i : Waiter(t, i)' = Waiter(t, i)
      /\ \A f \in Entities : f[1] = t => Event(f)' = Event(f)
  <2>1. Tx0(t)' = Tx0(t)
    BY DEF Tx0
  <2>2. HasHelpers(t)' <=> HasHelpers(t)
    BY DEF HasHelpers
  <2>3. \A i : Waiter(t, i)' = Waiter(t, i)
    BY <2>2 DEF Waiter
  <2>4. \A f \in Entities : f[1] = t => Event(f)' = Event(f)
    BY DEF Event
  <2> QED BY <2>1, <2>2, <2>3, <2>4
<1>3. \A i \in DOMAIN request[t].events :
        /\ i \in 1 .. Fan /\ Waiter(t, i) \in Entities /\ Waiter(t, i)[1] = t
        /\ ~ HasHelpers(t) => i = 1
  BY <1>1, RequestFacts
<1>4. e # Main(t) <=> HasHelpers(t)
  BY <1>3, EntityFacts DEF Waiter
<1>5. pc'[Main(t)] \in {"send", "recv", "wait", "sent", "received", "helped"}
      /\ (pc'[Main(t)] = "helped" <=> HasHelpers(t))
  <2>1. CASE HasHelpers(t)
    BY <1>1, <1>4, <2>1, EntityFacts
  <2>2. CASE ~ HasHelpers(t)
    <3>1. e = Main(t) /\ pc'[e] # "return"
      BY <1>4, <2>2, EntityFacts DEF TypeOK
    <3> QED BY <2>2, <3>1
  <2> QED BY <2>1, <2>2
<1>6. Waits(t)' /\ ~ Idles(t)'
  BY <1>5 DEF Waits, Idles
<1>7. OpsOk(t)'
  BY <1>1, <1>2, <1>5, <1>6, RequestKept DEF OpsOk
<1>8. ASSUME NEW f \in Entities, f[1] = t, f # e
      PROVE  ~ Given(f)' /\ ~ Placed(f)' /\ EntityOk(f)'
  <2>1. CASE f = Main(t)
    <3>1. pc'[f] = "helped"
      BY <1>4, <1>5, <1>8, <2>1
    <3> QED BY <1>8, <2>1, <3>1, EntityFacts DEF Given, Placed, EntityOk
  <2>2. CASE f # Main(t)
    BY <1>8, <2>2 DEF Given, Placed, EntityOk
  <2> QED BY <2>1, <2>2
<1>9. EntityOk(e)'
  <2>1. pc'[e] \notin {"choice", "exiting"}
    OBVIOUS
  <2> QED BY <2>1 DEF EntityOk
<1>10. GivenOk(e)'
  BY <1>2, <1>6, <1>8 DEF GivenOk
<1>11. MetOk(t)'
  <2> SUFFICES ASSUME NEW m \in matched', Tx0(t) \in {m[1], m[2]} PROVE MeetsNow(t)'
    BY <1>2 DEF MetOk
  <2>1. Event(e)'.kind # "wait"
    BY <1>2
  <2> QED BY <2>1 DEF MeetsNow
<1>12. BlockedOk(t)'
  BY <1>2 DEF BlockedOk
<1>13. ThreadOk(t)'
  BY <1>7, <1>8, <1>9, <1>10, <1>11 DEF ThreadOk, GivenOk
<1>14. ASSUME NEW i \in DOMAIN request[t].events
       PROVE  Commits(t, i)' <=>
                e = Waiter(t, i) /\ (pc'[e] \in {"sent", "received", "return"} \/ Readied(e)')
  <2>0. PICK f \in Entities : f = Waiter(t, i) /\ f = Waiter(t, i)' /\ f[1] = t
    BY <1>2, <1>3
  <2>1. Commits(t, i)' <=> pc'[f] \in {"sent", "received", "return"} \/ Readied(f)'
    <3>1. pc'[Main(t)] \notin {"choice", "reply"} /\ result'[Tx0(t)'] = Nil
      BY <1>1, <1>2, <1>5
    <3>2. Readied(Waiter(t, i))' <=> Readied(f)'
      BY <2>0 DEF Readied
    <3> QED BY <1>6, <2>0, <3>1, <3>2 DEF Commits
  <2>2. CASE f = e
    BY <2>0, <2>1, <2>2
  <2>3. CASE f # e
    <3>1. f # Main(t)
      BY <1>3, <1>4, <2>0, <2>3, EntityFacts DEF Waiter
    <3> QED BY <1>3, <2>0, <2>1, <2>3, <3>1
  <2> QED BY <2>2, <2>3
<1> QED BY <1>8, <1>12, <1>13, <1>14

\* Who does not take part in a critical section.
LEMMA OthersAside ==
  ASSUME EventInv, sched.atomic = 1, NEW M, sched.cur[1] \in M,
         pc[sched.cur] \in {"send", "sent"} => val[sched.cur][1] \in M,
         NEW u \in Threads, u \notin M
  PROVE  /\ pc[Main(u)] \notin {"choice", "reply", "exiting"}
         /\ \A e \in Entities : e[1] = u => ~ Exec(e)
<1>1. pc[Main(u)] \notin {"choice", "exiting"}
  BY InSection, EntityFacts
<1>2. pc[Main(u)] # "reply"
  BY InSection, EntityFacts
<1>3. \A e \in Entities : e[1] = u => ~ Exec(e)
  BY InSection
<1> QED BY <1>1, <1>2, <1>3

-----------------------------------------------------------------------------
(***************************************************************************)
(* A condition variable that is set; the end of a thread.                  *)
(***************************************************************************)
LEMMA DoWaitStep ==
  ASSUME EventInv, NEW t \in Threads, DoWait(t)
  PROVE  EventInv'
<1>1. /\ sched.cur = Main(t) /\ pc[Main(t)] = "choice" /\ sched.atomic = 1 /\ agenda = <<>>
      /\ Event(<<t, choice>>).kind = "wait"
      /\ sched' = atomicEnd(sched) /\ inQ' = inQ /\ outQ' = outQ /\ cvars' = cvars
      /\ cancelled' = cancelled /\ ops' = ops /\ request' = request /\ val' = val
      /\ agenda' = agenda /\ failed' = failed /\ matched' = matched /\ choice' = 0
      /\ pc' = [pc EXCEPT ![Main(t)] = "run"]
      /\ result' = [result EXCEPT ![Tx0(t)] = [event |-> choice, val |-> Nil]]
  BY DEF DoWait, Runs, Return
<1>2. TypeOK /\ ThreadsInv /\ CVarsInv /\ MatchInv /\ PlacesInv
  BY DEF EventInv
<1>3. /\ choice \in DOMAIN request[t].events /\ choice \in 1 .. Fan
      /\ ~ Idles(t) /\ ~ Waits(t) /\ result[Tx0(t)] = Nil /\ Tx0(t) \in Tx
      /\ \A i \in DOMAIN request[t].events : Commits(t, i) <=> i = choice
      /\ \A e \in Entities : e[1] = t => ~ Given(e) /\ ~ Readied(e)
      /\ \A e \in Entities : e[1] = t /\ e # Main(t) =>
           ~ Exec(e) /\ ~ Placed(e) /\ pc[e] \in {"none", "send", "recv", "wait"}
  BY <1>1, CommitsChoice
<1>4. /\ pc'[Main(t)] = "run" /\ \A e \in Entities : e # Main(t) => pc'[e] = pc[e]
      /\ pc' \in [Entities -> Points]
  BY <1>1, <1>2, EntityFacts DEF TypeOK, Points
<1>5. /\ result'[Tx0(t)] = [event |-> choice, val |-> Nil] /\ result'[Tx0(t)] # Nil
      /\ \A x \in Tx : x # Tx0(t) => result'[x] = result[x]
      /\ result' \in [Tx -> {Nil} \cup [event : 0 .. Fan, val : Tx \cup {Nil}]]
  <2>1. choice \in 0 .. Fan /\ Fan \in Nat
    BY <1>3, EntityFacts
  <2>2. [event |-> choice, val |-> Nil] # Nil
    BY <2>1, RequestsAssumption
  <2> QED BY <1>1, <1>2, <1>3, <2>1, <2>2 DEF TypeOK
<1>6. /\ sched' \in SchedulerStates(Entities) /\ sched'.atomic = 0
      /\ \A e : Scheduled(e)' = Scheduled(e)
  BY <1>1, <1>2, PlacesEnd DEF Scheduled, TypeOK
<1>7. TypeOK'
  <2>1. \A e \in Entities : e[2] = 0 => pc'[e] \notin {"none", "return"}
    BY <1>2, <1>4, EntityFacts DEF TypeOK
  <2>2. choice' \in 0 .. Fan
    BY <1>1, EntityFacts
  <2> QED BY <1>1, <1>2, <1>4, <1>5, <1>6, <2>1, <2>2 DEF TypeOK
<1>8. PICK M : M = {t}
  OBVIOUS
<1>9. \A u \in Threads : u \notin M =>
        /\ pc[Main(u)] \notin {"choice", "reply", "exiting"}
        /\ \A e \in Entities : e[1] = u => ~ Exec(e)
  <2>1. sched.cur[1] \in M /\ pc[sched.cur] \notin {"send", "sent"}
    BY <1>1, <1>8, EntityFacts
  <2> QED BY <1>1, <2>1, OthersAside
<1>10. /\ PhaseInv' /\ CommitInv'
       /\ \A e : ~ Exec(e)' /\ ~ Readied(e)'
       /\ \A v : ~ ToBeSet(v)'
       /\ \A item : ~ ToWake(item)'
  <2>1. \A u \in Threads : pc'[Main(u)] \notin {"choice", "reply"}
    BY <1>4, <1>8, <1>9, EntityFacts
  <2> QED BY <1>1, <1>6, <2>1, LeavesSection
<1>11. /\ \A e : ~ Readied(e)
       /\ \A v : ~ ToBeSet(v)
       /\ \A item : ~ ToWake(item)
  BY <1>1, NothingToDo
<1>12. \A v \in CVars : Settled(v)' <=> Settled(v)
  BY <1>1, <1>10, <1>11 DEF Settled
<1>13. Kept /\ Brought /\ PartnersInv' /\ CVarsLast
  BY <1>1, <1>10, <1>11, QueuesStay DEF CVarsLast
<1>14. \A u \in Threads : u \notin M => Same(u)
  <2> SUFFICES ASSUME NEW u \in Threads, u \notin M PROVE Same(u)
    OBVIOUS
  <2>1. result'[Tx0(u)] = result[Tx0(u)]
    BY <1>1, <1>8, TxFacts
  <2> QED BY <1>1, <1>4, <1>8, <1>9, <1>10, <1>11, <2>1, EntityFacts DEF Same
<1>15. /\ ThreadOk(t)' /\ BlockedOk(t)' /\ NacksOk(t)'
       /\ \A e \in Entities : e[1] = t /\ e # Main(t) => ~ Placed(e)'
       /\ Placed(Main(t))'
  <2>1. result'[Tx0(t)].event = choice
    BY <1>5
  <2> QED BY <1>1, <1>3, <1>4, <1>5, <1>7, <1>10, <1>12, <1>13, <2>1, ReturnsOk
<1>16. \A e \in Entities : IF e[1] \in M THEN Scheduled(e)' = One(Placed(e)')
                           ELSE Scheduled(e)' = Scheduled(e)
  <2>1. \A e \in Entities : Scheduled(e) = One(Placed(e))
    BY <1>2 DEF PlacesInv
  <2>2. Placed(Main(t))
    BY <1>1 DEF Placed
  <2> HIDE DEF Scheduled
  <2> QED BY <1>3, <1>6, <1>8, <1>15, <2>1, <2>2 DEF One
<1>17. CVarsInv'
  <2>1. Distinct(agenda)'
    BY <1>1, <1>2 DEF CVarsInv, Distinct
  <2>2. \A u \in Threads : Settled(<<u, 0, 0>>)' => pc'[Main(u)] \in {"exiting", "dead"}
    BY <1>1, <1>4, <1>10, DeathsFrame, EntityFacts
  <2> QED BY <1>1, <1>10, <2>1, <2>2, CVarsFrame
<1>18. MatchInv'
  <2>1. Tx0(t)[2] = ops[Tx0(t)[1]]
    BY TxFacts
  <2> QED BY <1>1, <1>5, <2>1, MatchFrame
<1> HIDE DEF Scheduled
<1> QED BY <1>1, <1>3, <1>7, <1>8, <1>10, <1>12, <1>13, <1>14, <1>15, <1>16, <1>17, <1>18, StepOk

\* A thread on its way out: its last operation has its result.
LEMMA EndsOk ==
  ASSUME EventInv, TypeOK', NEW t \in Threads, Idles(t), ops' = ops, request' = request,
         result' = result, CVarsLast, pc'[Main(t)] \in {"exiting", "dead"},
         pc'[Main(t)] = "exiting" => Exec(Main(t))',
         \A e \in Entities : e # Main(t) => pc'[e] = pc[e],
         \A e \in Entities : e[1] = t => ~ Readied(e)' /\ (e # Main(t) => ~ Exec(e)'),
         \A n \in {1, 2} : <<t, ops[t], n>> \in CVars =>
           (Settled(<<t, ops[t], n>>)' <=> Settled(<<t, ops[t], n>>))
  PROVE  /\ ThreadOk(t)' /\ BlockedOk(t)' /\ NacksOk(t)' /\ ~ Waits(t)
         /\ \A e \in Entities : e[1] = t /\ e # Main(t) => ~ Placed(e) /\ ~ Placed(e)'
<1>1. ~ Waits(t) /\ ~ Waits(t)' /\ Idles(t)' /\ OpsOk(t) /\ TypeOK /\ NacksOk(t)
  BY DEF Waits, Idles, EventInv, ThreadsInv, ThreadOk
<1>2. ops[t] > 0 => result[Tx0(t)] # Nil
  BY <1>1 DEF OpsOk
<1>3. \A e \in Entities : e[1] = t /\ e # Main(t) =>
        ~ Placed(e) /\ pc[e] \in {"none", "send", "recv", "wait"}
  BY <1>1, NotWaiting
<1>4. MetOk(t)'
  BY <1>2 DEF MetOk, Tx0
<1>5. /\ ThreadOk(t)' /\ BlockedOk(t)'
      /\ \A e \in Entities : e[1] = t /\ e # Main(t) => ~ Placed(e)'
  <2>1. pc'[Main(t)] \notin {"sync", "choice"}
    OBVIOUS
  <2> QED BY <1>1, <1>2, <1>3, <1>4, <2>1, GoesOn
<1>6. NacksOk(t)'
  <2> SUFFICES ASSUME ops[t] > 0, NEW n \in request[t].nacks
               PROVE  /\ cvars'[<<t, ops[t], n>>].state # "none"
                      /\ Settled(<<t, ops[t], n>>)' <=> Loses(t, n)'
    BY DEF NacksOk
  <2>1. <<t, ops[t], n>> \in CVars /\ n \in {1, 2}
    BY <1>1, RequestFacts
  <2>2. \A i \in DOMAIN request[t].events : Commits(t, i)' <=> Commits(t, i)
    <3>1. pc[Main(t)] \notin {"choice", "reply"} /\ pc'[Main(t)] \notin {"choice", "reply"}
      BY DEF Idles
    <3> QED BY <1>1, <3>1 DEF Commits, Tx0
  <2>3. Loses(t, n)' <=> Loses(t, n)
    BY <2>2 DEF Loses
  <2>4. cvars[<<t, ops[t], n>>].state # "none" /\ (Settled(<<t, ops[t], n>>) <=> Loses(t, n))
    BY <1>1 DEF NacksOk
  <2> HIDE DEF Settled
  <2>5. Settled(<<t, ops[t], n>>)' <=> Settled(<<t, ops[t], n>>)
    BY <2>1
  <2> QED BY <2>1, <2>3, <2>4, <2>5 DEF CVarsLast
<1> QED BY <1>1, <1>3, <1>5, <1>6

LEMMA ExitedStep ==
  ASSUME EventInv, NEW t \in Threads, Exited(t)
  PROVE  EventInv'
<1>1. /\ sched.cur = Main(t) /\ pc[Main(t)] = "exiting" /\ sched.atomic = 1 /\ agenda = <<>>
      /\ sched' = atomicSwitchToNext(sched) /\ inQ' = inQ /\ outQ' = outQ /\ cvars' = cvars
      /\ cancelled' = cancelled /\ ops' = ops /\ request' = request /\ val' = val
      /\ agenda' = agenda /\ failed' = failed /\ matched' = matched /\ choice' = choice
      /\ pc' = [pc EXCEPT ![Main(t)] = "dead"] /\ result' = result
  BY DEF Exited, Runs
<1>2. TypeOK /\ ThreadsInv /\ CVarsInv /\ MatchInv /\ PlacesInv
  BY DEF EventInv
<1>3. Idles(t)
  BY <1>1 DEF Idles
<1>4. /\ pc'[Main(t)] = "dead" /\ \A e \in Entities : e # Main(t) => pc'[e] = pc[e]
      /\ pc' \in [Entities -> Points]
  BY <1>1, <1>2, EntityFacts DEF TypeOK, Points
<1>6. /\ sched' \in SchedulerStates(Entities) /\ sched'.atomic = 0
      /\ \A e \in Entities : Scheduled(e)' = Scheduled(e) - One(Main(t) = e)
  <2>1. sched \in SchedulerStates(Entities) /\ sched.cur \in Entities /\ NoThread \notin Entities
    BY <1>1, <1>2, EntityFacts DEF TypeOK
  <2> QED BY <1>1, <2>1, PlacesSwitchToNext DEF Scheduled
<1>7. TypeOK'
  <2>1. \A e \in Entities : e[2] = 0 => pc'[e] \notin {"none", "return"}
    BY <1>2, <1>4, EntityFacts DEF TypeOK
  <2> QED BY <1>1, <1>2, <1>4, <1>6, <2>1 DEF TypeOK
<1>8. PICK M : M = {t}
  OBVIOUS
<1>9. \A u \in Threads : u \notin M =>
        /\ pc[Main(u)] \notin {"choice", "reply", "exiting"}
        /\ \A e \in Entities : e[1] = u => ~ Exec(e)
  <2>1. sched.cur[1] \in M /\ pc[sched.cur] \notin {"send", "sent"}
    BY <1>1, <1>8, EntityFacts
  <2> QED BY <1>1, <2>1, OthersAside
<1>10. /\ PhaseInv' /\ CommitInv'
       /\ \A e : ~ Exec(e)' /\ ~ Readied(e)'
       /\ \A v : ~ ToBeSet(v)'
       /\ \A item : ~ ToWake(item)'
  <2>1. \A u \in Threads : pc'[Main(u)] \notin {"choice", "reply"}
    BY <1>4, <1>8, <1>9, EntityFacts
  <2> QED BY <1>1, <1>6, <2>1, LeavesSection
<1>11. /\ \A e : ~ Readied(e)
       /\ \A v : ~ ToBeSet(v)
       /\ \A item : ~ ToWake(item)
  BY <1>1, NothingToDo
<1>12. \A v \in CVars : Settled(v)' <=> Settled(v)
  BY <1>1, <1>10, <1>11 DEF Settled
<1>13. Kept /\ Brought /\ PartnersInv' /\ CVarsLast
  BY <1>1, <1>10, <1>11, QueuesStay DEF CVarsLast
<1>14. \A u \in Threads : u \notin M => Same(u)
  BY <1>1, <1>4, <1>8, <1>9, <1>10, <1>11, EntityFacts DEF Same
<1>15. /\ ThreadOk(t)' /\ BlockedOk(t)' /\ NacksOk(t)' /\ ~ Waits(t)
       /\ \A e \in Entities : e[1] = t /\ e # Main(t) => ~ Placed(e) /\ ~ Placed(e)'
  <2>1. \A n : <<t, ops[t], n>> \in CVars =>
          (Settled(<<t, ops[t], n>>)' <=> Settled(<<t, ops[t], n>>))
    BY <1>1, <1>10, <1>11 DEF Settled
  <2> HIDE DEF Settled
  <2> QED BY <1>1, <1>3, <1>4, <1>7, <1>10, <1>13, <2>1, EndsOk
<1>16. \A e \in Entities : IF e[1] \in M THEN Scheduled(e)' = One(Placed(e)')
                           ELSE Scheduled(e)' = Scheduled(e)
  <2>1. \A e \in Entities : Scheduled(e) = One(Placed(e))
    BY <1>2 DEF PlacesInv
  <2>2. Placed(Main(t)) /\ ~ Placed(Main(t))'
    BY <1>1, <1>4, <1>10 DEF Placed
  <2> HIDE DEF Scheduled
  <2>3. ASSUME NEW e \in Entities, e[1] = t PROVE Scheduled(e)' = One(Placed(e)')
    <3>1. CASE e = Main(t)
      BY <1>6, <2>1, <2>2, <3>1 DEF One
    <3>2. CASE e # Main(t)
      BY <1>6, <1>15, <2>1, <2>3, <3>2 DEF One
    <3> QED BY <3>1, <3>2
  <2>4. ASSUME NEW e \in Entities, e[1] # t PROVE Scheduled(e)' = Scheduled(e)
    <3>1. e # Main(t)
      BY <2>4, EntityFacts
    <3> QED BY <1>6, <2>1, <3>1 DEF One
  <2> QED BY <1>8, <2>3, <2>4
<1>17. CVarsInv'
  <2>1. Distinct(agenda)'
    BY <1>1, <1>2 DEF CVarsInv, Distinct
  <2>2. \A u \in Threads : Settled(<<u, 0, 0>>)' => pc'[Main(u)] \in {"exiting", "dead"}
    BY <1>1, <1>4, <1>10, DeathsFrame, EntityFacts
  <2> QED BY <1>1, <1>10, <2>1, <2>2, CVarsFrame
<1>18. MatchInv'
  BY <1>1, MatchFrame
<1> HIDE DEF Scheduled
<1> QED BY <1>1, <1>7, <1>8, <1>10, <1>12, <1>13, <1>14, <1>15, <1>16, <1>17, <1>18, StepOk

\* The start of a critical section.
LEMMA EntersSection ==
  ASSUME EventInv, sched.atomic = 0, NEW t \in Threads, sched.cur = Main(t),
         sched' = atomicBegin(sched), pc'[Main(t)] \in {"choice", "exiting"},
         \A e \in Entities : e # Main(t) => pc'[e] = pc[e],
         pc'[Main(t)] = "choice" => ChoiceOk(t)'
  PROVE  /\ sched' \in SchedulerStates(Entities) /\ sched'.atomic = 1
         /\ \A e : Scheduled(e)' = Scheduled(e)
         /\ \A e : Exec(e)' <=> e = Main(t)
         /\ PhaseInv' /\ CommitInv'
<1>1. sched \in SchedulerStates(Entities)
  BY DEF EventInv, TypeOK
<1>2. /\ sched' \in SchedulerStates(Entities) /\ sched'.atomic = 1 /\ sched'.cur = Main(t)
      /\ \A e : Scheduled(e)' = Scheduled(e)
  BY <1>1, PlacesBegin DEF Scheduled
<1>3. \A e : Exec(e)' <=> e = Main(t)
  BY <1>2 DEF Exec
<1>4. PhaseInv'
  BY <1>2, EntityFacts DEF PhaseInv
<1>5. ASSUME NEW u \in Threads PROVE /\ pc'[Main(u)] = "reply" => ReplyOk(u)'
                                     /\ pc'[Main(u)] = "choice" => ChoiceOk(u)'
  <2>1. CASE u = t
    BY <2>1
  <2>2. CASE u # t
    <3>1. pc'[Main(u)] = pc[Main(u)]
      BY <2>2, EntityFacts
    <3> QED BY <3>1, Quiet
  <2> QED BY <2>1, <2>2
<1>6. CommitInv'
  BY <1>5 DEF CommitInv
<1> QED BY <1>2, <1>3, <1>4, <1>6

LEMMA ExitStep ==
  ASSUME EventInv, NEW t \in Threads, Exit(t)
  PROVE  EventInv'
<1>1. /\ sched.cur = Main(t) /\ pc[Main(t)] = "run" /\ sched.atomic = 0
      /\ sched' = atomicBegin(sched) /\ inQ' = inQ /\ outQ' = outQ /\ cvars' = cvars
      /\ cancelled' = cancelled /\ ops' = ops /\ request' = request /\ val' = val
      /\ failed' = failed /\ matched' = matched /\ choice' = choice
      /\ pc' = [pc EXCEPT ![Main(t)] = "exiting"] /\ result' = result
      /\ agenda' = <<[do |-> "set", cv |-> <<t, 0, 0>>]>>
  BY DEF Exit, Runs
<1>2. TypeOK /\ ThreadsInv /\ CVarsInv /\ MatchInv /\ PlacesInv
  BY DEF EventInv
<1>3. Idles(t)
  BY <1>1 DEF Idles
<1>4. /\ pc'[Main(t)] = "exiting" /\ \A e \in Entities : e # Main(t) => pc'[e] = pc[e]
      /\ pc' \in [Entities -> Points]
  BY <1>1, <1>2, EntityFacts DEF TypeOK, Points
<1>5. PICK v \in CVars : v = <<t, 0, 0>>
  BY CVarFacts
<1>6. /\ sched' \in SchedulerStates(Entities) /\ sched'.atomic = 1
      /\ \A e : Scheduled(e)' = Scheduled(e)
      /\ \A e : Exec(e)' <=> e = Main(t)
      /\ PhaseInv' /\ CommitInv'
  BY <1>1, <1>4, EntersSection
<1>7. /\ agenda' \in Seq(Tasks) /\ Distinct(agenda')
      /\ \A w : ToBeSet(w)' <=> w = v
      /\ \A e : ~ Readied(e)'
      /\ \A item : ~ ToWake(item)'
  <2> DEFINE a == [do |-> "set", cv |-> v]
  <2>1. a \in Tasks /\ a.do = "set" /\ a.cv = v
    BY <1>5 DEF Tasks
  <2> HIDE DEF a
  <2>2. agenda' = <<a>>
    BY <1>1, <1>5 DEF a
  <2>3. agenda' \in Seq(Tasks) /\ DOMAIN agenda' = {1} /\ agenda'[1] = a
    BY <2>1, <2>2
  <2>4. Distinct(agenda')
    BY <2>3 DEF Distinct
  <2>5. \A w : ToBeSet(w)' <=> w = v
    BY <2>1, <2>3 DEF ToBeSet
  <2>6. \A e : ~ Readied(e)'
    BY <2>1, <2>3 DEF Readied
  <2>7. \A item : ~ ToWake(item)'
    BY <2>1, <2>3 DEF ToWake
  <2> QED BY <2>3, <2>4, <2>5, <2>6, <2>7
<1>8. TypeOK'
  <2>1. \A e \in Entities : e[2] = 0 => pc'[e] \notin {"none", "return"}
    BY <1>2, <1>4, EntityFacts DEF TypeOK
  <2>2. sched' \in SchedulerStates(Entities) /\ sched'.atomic \in 0 .. 1
    BY <1>6
  <2> QED BY <1>1, <1>2, <1>4, <1>7, <2>1, <2>2 DEF TypeOK
<1>9. PICK M : M = {t}
  OBVIOUS
<1>10. cvars[v].state = "unset" /\ ~ Settled(v)
  <2>1. ~ Settled(v)
    BY <1>1, <1>2, <1>5 DEF CVarsInv
  <2>2. cvars[v].state \in {"none", "unset", "set"} /\ cvars[v].state # "none"
    BY <1>2, <1>5 DEF TypeOK, CVarsInv
  <2> QED BY <2>1, <2>2 DEF Settled
<1>11. /\ \A e : ~ Readied(e) /\ ~ Exec(e)
       /\ \A w : ~ ToBeSet(w)
       /\ \A item : ~ ToWake(item)
  BY <1>1, Quiet
<1>12. \A w \in CVars : w # v => (Settled(w)' <=> Settled(w))
  BY <1>1, <1>7, <1>11 DEF Settled
<1>13. Kept /\ Brought /\ PartnersInv' /\ CVarsLast
  BY <1>1, <1>7, <1>11, QueuesStay DEF CVarsLast
<1>14. \A u \in Threads : u \notin M => Same(u)
  BY <1>1, <1>4, <1>6, <1>7, <1>9, <1>11, EntityFacts DEF Same
<1>15. /\ ThreadOk(t)' /\ BlockedOk(t)' /\ NacksOk(t)' /\ ~ Waits(t)
       /\ \A e \in Entities : e[1] = t /\ e # Main(t) => ~ Placed(e) /\ ~ Placed(e)'
  <2>1. \A n \in {1, 2} : <<t, ops[t], n>> # v
    BY <1>5
  <2>2. \A n \in {1, 2} : <<t, ops[t], n>> \in CVars =>
          (Settled(<<t, ops[t], n>>)' <=> Settled(<<t, ops[t], n>>))
    <3> SUFFICES ASSUME NEW n \in {1, 2}, <<t, ops[t], n>> \in CVars
                 PROVE  Settled(<<t, ops[t], n>>)' <=> Settled(<<t, ops[t], n>>)
      OBVIOUS
    <3>1. <<t, ops[t], n>>' = <<t, ops[t], n>>
      BY <1>1
    <3> HIDE DEF Settled
    <3> QED BY <1>12, <2>1, <3>1
  <2> HIDE DEF Settled
  <2> QED BY <1>1, <1>3, <1>4, <1>6, <1>7, <1>8, <1>13, <2>2, EndsOk
<1>16. \A e \in Entities : IF e[1] \in M THEN Scheduled(e)' = One(Placed(e)')
                           ELSE Scheduled(e)' = Scheduled(e)
  <2>1. \A e \in Entities : Scheduled(e) = One(Placed(e))
    BY <1>2 DEF PlacesInv
  <2>2. Placed(Main(t)) /\ Placed(Main(t))'
    BY <1>1, <1>4 DEF Placed
  <2> HIDE DEF Scheduled
  <2> QED BY <1>6, <1>9, <1>15, <2>1, <2>2 DEF One
<1>17. CVarsInv'
  <2>1. Distinct(agenda)'
    BY <1>7 DEF Distinct
  <2>2. \A u \in Threads : ToBeSet(<<u, 0, 0>>)' => ToBeSet(<<u, 0, 0>>) \/ pc'[Main(u)] = "exiting"
    BY <1>4, <1>5, <1>7
  <2>3. \A u \in Threads : Settled(<<u, 0, 0>>)' => pc'[Main(u)] \in {"exiting", "dead"}
    BY <1>1, <1>4, <2>2, DeathsFrame, EntityFacts
  <2>4. \A w \in CVars : ToBeSet(w)' => cvars[w].state = "unset" /\ w = <<w[1], 0, 0>>
    BY <1>5, <1>7, <1>10
  <2> QED BY <1>1, <2>1, <2>3, <2>4, CVarsFrame
<1>18. MatchInv'
  BY <1>1, MatchFrame
<1>19. \A w \in CVars : w[1] \notin M => (Settled(w)' <=> Settled(w))
  BY <1>5, <1>9, <1>12
<1> HIDE DEF Scheduled
<1> QED BY <1>1, <1>6, <1>8, <1>9, <1>13, <1>14, <1>15, <1>16, <1>17, <1>18, <1>19, StepOk

-----------------------------------------------------------------------------
(***************************************************************************)
(* Committing sets the nacks of the groups that lose.                      *)
(***************************************************************************)
LEMMA NacksSettle ==
  ASSUME EventInv, NEW t \in Threads, ops[t] > 0, ops'[t] = ops[t], request'[t] = request[t],
         CVarsLast, NEW i \in DOMAIN request[t].events,
         \A n : ~ Loses(t, n),
         \A j \in DOMAIN request[t].events : Commits(t, j)' <=> j = i,
         \A v \in CVars : v[1] = t => (Settled(v)' <=> Settled(v) \/ SetsIn(NackTasks(t, i), v))
  PROVE  NacksOk(t)'
<1>1. TypeOK /\ OpsOk(t) /\ NacksOk(t)
  BY DEF EventInv, ThreadsInv, ThreadOk
<1> SUFFICES ASSUME NEW n \in request[t].nacks
             PROVE  /\ cvars'[<<t, ops[t], n>>].state # "none"
                    /\ Settled(<<t, ops[t], n>>)' <=> Loses(t, n)'
  BY DEF NacksOk
<1>2. PICK v \in CVars : v = <<t, ops[t], n>> /\ v[1] = t
  <2>1. <<t, ops[t], n>> \in CVars
    BY <1>1, RequestFacts
  <2>2. <<t, ops[t], n>>[1] = t
    OBVIOUS
  <2> QED BY <2>1, <2>2
<1>3. cvars[v].state # "none" /\ ~ Settled(v)
  BY <1>1, <1>2 DEF NacksOk
<1>4. Loses(t, n)' <=> n \notin request[t].events[i].within
  BY DEF Loses
<1>5. SetsIn(NackTasks(t, i), v) <=> n \notin request[t].events[i].within
  <2>1. SetsIn(NackTasks(t, i), v) <=>
          \E m \in request[t].nacks : v = <<t, ops[t], m>> /\ m \notin request[t].events[i].within
    BY <1>1, NackTasksFacts
  <2>2. \A m : v = <<t, ops[t], m>> <=> m = n
    BY <1>2
  <2> QED BY <2>1, <2>2
<1>6. v = <<t, ops[t], n>>'
  BY <1>2
<1> HIDE DEF Settled
<1>7. Settled(v)' <=> Loses(t, n)'
  BY <1>2, <1>3, <1>4, <1>5
<1> QED BY <1>2, <1>3, <1>6, <1>7 DEF CVarsLast

LEMMA NackTasksUnset ==
  ASSUME EventInv, NEW t \in Threads, ops[t] > 0, \A n : ~ Loses(t, n),
         NEW i \in DOMAIN request[t].events, NEW v, SetsIn(NackTasks(t, i), v)
  PROVE  /\ v \in CVars /\ v[1] = t /\ v \in Nacks(t) /\ cvars[v].state = "unset" /\ ~ ToBeSet(v)
         /\ v # <<t, 0, 0>>
<1>1. TypeOK /\ OpsOk(t) /\ NacksOk(t)
  BY DEF EventInv, ThreadsInv, ThreadOk
<1>2. PICK n \in request[t].nacks : v = <<t, ops[t], n>>
  BY <1>1, NackTasksFacts
<1>3. v \in CVars /\ v[1] = t /\ n \in {1, 2}
  BY <1>1, <1>2, RequestFacts
<1>4. cvars[v].state # "none" /\ ~ Settled(v)
  BY <1>1, <1>2 DEF NacksOk
<1>5. cvars[v].state \in {"none", "unset", "set"}
  BY <1>1, <1>3 DEF TypeOK
<1>6. v # <<t, 0, 0>>
  BY <1>2, <1>3
<1> QED BY <1>2, <1>3, <1>4, <1>5, <1>6 DEF Settled, Nacks

LEMMA EnabledFacts ==
  ASSUME EventInv, NEW t \in Threads, ops[t] > 0, OpsOk(t), NEW i \in EnabledEvents(t),
         inQ' = Polled(t, "send", inQ), outQ' = Polled(t, "recv", outQ), cvars' = cvars,
         request' = request, choice' = i
  PROVE  ChoiceOk(t)'
<1>1. TypeOK
  BY DEF EventInv
<1>2. i \in DOMAIN request[t].events /\ Enabled(request[t].events[i])
  BY DEF EnabledEvents
<1>3. inQ \in [Channels -> Seq(Items)] /\ outQ \in [Channels -> Seq(Items)]
  BY <1>1 DEF TypeOK
<1>4. request[t].events[i].kind # "wait" => request[t].events[i].on \in Channels
  BY <1>1, <1>2, RequestFacts
<1>5. request[t].events[i].kind = "send" => inQ'[request[t].events[i].on] # <<>>
  <2> SUFFICES ASSUME request[t].events[i].kind = "send"
               PROVE  inQ'[request[t].events[i].on] # <<>>
    OBVIOUS
  <2>1. HasPartner(inQ[request[t].events[i].on])
    <3>1. PICK ev : ev = request[t].events[i]
      OBVIOUS
    <3> QED BY <1>2, <3>1 DEF Enabled
  <2>2. inQ'[request[t].events[i].on] = Clean(inQ[request[t].events[i].on])
    <3>1. PICK c \in Channels : c = request[t].events[i].on
      BY <1>4
    <3>2. inQ'[c] = Clean(inQ[c])
      BY <1>2, <3>1 DEF Polled
    <3> QED BY <3>1, <3>2
  <2> QED BY <2>1, <2>2 DEF HasPartner
<1>6. request[t].events[i].kind = "recv" => outQ'[request[t].events[i].on] # <<>>
  <2> SUFFICES ASSUME request[t].events[i].kind = "recv"
               PROVE  outQ'[request[t].events[i].on] # <<>>
    OBVIOUS
  <2>1. HasPartner(outQ[request[t].events[i].on])
    <3>1. PICK ev : ev = request[t].events[i]
      OBVIOUS
    <3> QED BY <1>2, <3>1 DEF Enabled
  <2>2. outQ'[request[t].events[i].on] = Clean(outQ[request[t].events[i].on])
    <3>1. PICK c \in Channels : c = request[t].events[i].on
      BY <1>4
    <3>2. outQ'[c] = Clean(outQ[c])
      BY <1>2, <3>1 DEF Polled
    <3> QED BY <3>1, <3>2
  <2> QED BY <2>1, <2>2 DEF HasPartner
<1>7. request[t].events[i].kind = "wait" => cvars[request[t].events[i].on].state = "set"
  BY <1>2 DEF Enabled
<1> QED BY <1>2, <1>5, <1>6, <1>7 DEF ChoiceOk

LEMMA SyncEnabledStep ==
  ASSUME EventInv, NEW t \in Threads, SyncEnabled(t)
  PROVE  EventInv'
<1>0. PICK i \in EnabledEvents(t) : choice' = i /\ agenda' = NackTasks(t, i)
  BY DEF SyncEnabled
<1>1. /\ sched.cur = Main(t) /\ pc[Main(t)] = "sync" /\ sched.atomic = 0
      /\ sched' = atomicBegin(sched) /\ cvars' = cvars /\ cancelled' = cancelled /\ ops' = ops
      /\ request' = request /\ val' = val /\ failed' = failed /\ matched' = matched
      /\ inQ' = Polled(t, "send", inQ) /\ outQ' = Polled(t, "recv", outQ)
      /\ pc' = [pc EXCEPT ![Main(t)] = "choice"] /\ result' = result
  BY DEF SyncEnabled, Runs
<1>2. TypeOK /\ ThreadsInv /\ CVarsInv /\ MatchInv /\ PlacesInv
  BY DEF EventInv
<1>3. /\ ~ Idles(t) /\ ~ Waits(t) /\ ops[t] > 0 /\ OpsOk(t) /\ result[Tx0(t)] = Nil
      /\ Tx0(t) \in Tx
  BY <1>1, InOperation DEF Idles, Waits
<1>4. /\ pc'[Main(t)] = "choice" /\ \A e \in Entities : e # Main(t) => pc'[e] = pc[e]
      /\ pc' \in [Entities -> Points]
  BY <1>1, <1>2, EntityFacts DEF TypeOK, Points
<1>5. i \in DOMAIN request[t].events /\ i \in 1 .. Fan /\ i \in 0 .. Fan
  <2>1. i \in DOMAIN request[t].events
    BY DEF EnabledEvents
  <2>2. i \in 1 .. Fan
    BY <1>2, <1>3, <2>1, RequestFacts
  <2> QED BY <2>1, <2>2, EntityFacts
<1>6. ChoiceOk(t)'
  BY <1>0, <1>1, <1>3, EnabledFacts
<1>7. /\ sched' \in SchedulerStates(Entities) /\ sched'.atomic = 1
      /\ \A e : Scheduled(e)' = Scheduled(e)
      /\ \A e : Exec(e)' <=> e = Main(t)
      /\ PhaseInv' /\ CommitInv'
  BY <1>1, <1>4, <1>6, EntersSection
<1>8. /\ agenda' \in Seq(Tasks) /\ Distinct(agenda')
      /\ \A v : ToBeSet(v)' <=> SetsIn(NackTasks(t, i), v)
      /\ \A e : ~ Readied(e)'
      /\ \A item : ~ ToWake(item)'
  BY <1>0, <1>2, <1>3, <1>5, NackTasksFacts, AgendaNow
<1>9. \A n : ~ Loses(t, n)
  BY <1>1, NoLosers
<1>10. \A v : ToBeSet(v)' =>
         /\ v \in CVars /\ v[1] = t /\ v \in Nacks(t) /\ cvars[v].state = "unset"
         /\ v # <<t, 0, 0>>
  BY <1>3, <1>5, <1>8, <1>9, NackTasksUnset
<1>11. /\ \A e : ~ Readied(e) /\ ~ Exec(e)
       /\ \A v : ~ ToBeSet(v)
       /\ \A item : ~ ToWake(item)
  BY <1>1, Quiet
<1>12. /\ Kept /\ Brought /\ PartnersInv' /\ CVarsLast
       /\ inQ' \in [Channels -> Seq(Items)] /\ outQ' \in [Channels -> Seq(Items)]
  BY <1>1, <1>8, <1>11, PollStays DEF CVarsLast
<1>13. TypeOK'
  <2>1. \A e \in Entities : e[2] = 0 => pc'[e] \notin {"none", "return"}
    BY <1>2, <1>4, EntityFacts DEF TypeOK
  <2>2. sched' \in SchedulerStates(Entities) /\ sched'.atomic \in 0 .. 1
    BY <1>7
  <2>3. choice' \in 0 .. Fan
    BY <1>0, <1>5
  <2> QED BY <1>1, <1>2, <1>4, <1>8, <1>12, <2>1, <2>2, <2>3 DEF TypeOK
<1>14. PICK M : M = {t}
  OBVIOUS
<1>15. \A u \in Threads : u \notin M => Same(u)
  <2> SUFFICES ASSUME NEW u \in Threads, u # t PROVE Same(u)
    BY <1>14
  <2>1. pc[Main(u)] \notin {"choice", "reply"}
    BY <1>1, Quiet
  <2> QED BY <1>1, <1>4, <1>7, <1>8, <1>11, <2>1, EntityFacts DEF Same
<1>16. \A v \in CVars : Settled(v)' <=> Settled(v) \/ SetsIn(NackTasks(t, i), v)
  BY <1>1, <1>8, <1>11 DEF Settled
<1>17. \A e \in Entities : e[1] = t /\ e # Main(t) => ~ Placed(e) /\ pc'[e] \in {"none", "send", "recv", "wait"}
  BY <1>3, <1>4, NotWaiting
<1>18. ~ Idles(t)' /\ ~ Waits(t)' /\ Tx0(t)' = Tx0(t)
  BY <1>1, <1>4 DEF Idles, Waits, Tx0
<1>19. /\ ThreadOk(t)' /\ BlockedOk(t)'
       /\ \A e \in Entities : e[1] = t => ~ Given(e)'
       /\ \A e \in Entities : e[1] = t /\ e # Main(t) => ~ Placed(e)'
  <2>1. \A m \in matched : Tx0(t) \notin {m[1], m[2]}
    <3>1. \A e \in Entities : e[1] = t => ~ Given(e)
      BY <1>3, NotWaiting
    <3> QED BY <1>1, <1>3, <3>1, Unmet
  <2>2. MetOk(t)'
    BY <1>1, <1>18, <2>1 DEF MetOk
  <2> QED BY <1>1, <1>3, <1>4, <1>7, <1>8, <1>12, <1>13, <1>17, <1>18, <2>2, GoesOn
<1>20. NacksOk(t)'
  <2>1. \A j \in DOMAIN request[t].events : Commits(t, j)' <=> j = i
    BY <1>0, <1>1, <1>3, <1>4, <1>18 DEF Commits
  <2> QED BY <1>1, <1>3, <1>5, <1>9, <1>12, <1>16, <2>1, NacksSettle
<1>21. \A e \in Entities : IF e[1] \in M THEN Scheduled(e)' = One(Placed(e)')
                           ELSE Scheduled(e)' = Scheduled(e)
  <2>1. \A e \in Entities : Scheduled(e) = One(Placed(e))
    BY <1>2 DEF PlacesInv
  <2>2. Placed(Main(t)) /\ Placed(Main(t))'
    BY <1>1, <1>4 DEF Placed
  <2> HIDE DEF Scheduled
  <2> QED BY <1>7, <1>14, <1>17, <1>19, <2>1, <2>2 DEF One
<1>22. CVarsInv'
  <2>1. Distinct(agenda)'
    BY <1>8 DEF Distinct
  <2>2. \A u \in Threads : ToBeSet(<<u, 0, 0>>)' => ToBeSet(<<u, 0, 0>>) \/ pc'[Main(u)] = "exiting"
    BY <1>10
  <2>3. \A u \in Threads : Settled(<<u, 0, 0>>)' => pc'[Main(u)] \in {"exiting", "dead"}
    BY <1>1, <1>4, <2>2, DeathsFrame, EntityFacts
  <2>4. \A v \in CVars : ToBeSet(v)' => cvars[v].state = "unset" /\ ops[v[1]] > 0 /\ v \in Nacks(v[1])
    BY <1>3, <1>10
  <2> QED BY <1>1, <2>1, <2>3, <2>4, CVarsFrame
<1>23. MatchInv'
  BY <1>1, MatchFrame
<1>24. \A v \in CVars : v[1] \notin M => (Settled(v)' <=> Settled(v))
  BY <1>8, <1>10, <1>14, <1>16
<1> HIDE DEF Scheduled
<1> QED BY <1>1, <1>3, <1>7, <1>12, <1>13, <1>14, <1>15, <1>19, <1>20, <1>21, <1>22, <1>23, <1>24, StepOk

-----------------------------------------------------------------------------
(***************************************************************************)
(* The passive side of a rendezvous.                                       *)
(***************************************************************************)
\* An entity that has been given its rendezvous has it over: a thread returns, a helper
\* has a result.
LEMMA FinishesOk ==
  ASSUME EventInv, TypeOK', NEW e \in Entities, NEW t \in Threads, t = e[1], Given(e),
         pc[e] \in {"sent", "received"} \/ Readied(e), pc'[e] = Finished(e),
         ops'[t] = ops[t], request'[t] = request[t], CVarsLast, cancelled' = cancelled,
         matched' = matched, val' = val,
         \A f \in Entities : f[1] = t /\ f # e => pc'[f] = pc[f],
         \A f \in Entities : f[1] = t => ~ Readied(f)' /\ ~ Exec(f)',
         e[2] = 0 => result'[Tx0(t)] # Nil /\ result'[Tx0(t)].event = 1,
         e[2] # 0 => result'[Tx0(t)] = result[Tx0(t)],
         \A v \in CVars : v[1] = t => (Settled(v)' <=> Settled(v))
  PROVE  /\ ThreadOk(t)' /\ BlockedOk(t)' /\ NacksOk(t)' /\ Placed(e)'
         /\ Waits(t) /\ Tx0(t) \in cancelled /\ Tx0(t) \in Tx
         /\ \A f \in Entities : f[1] = t /\ f # e => ~ Placed(f) /\ ~ Placed(f)'
<1>1. /\ Waits(t) /\ ~ Idles(t) /\ Tx0(t) \in cancelled /\ Tx0(t) \in Tx
      /\ \E i \in DOMAIN request[t].events :
           /\ e = Waiter(t, i) /\ Event(e) = request[t].events[i]
           /\ i = IF e[2] = 0 THEN 1 ELSE e[2]
      /\ Event(e).kind = "recv" => \E c \in Channels : <<val[e], Tx0(t), c>> \in matched
      /\ Event(e).kind = "send" => \E m \in matched : m[1] = Tx0(t)
      /\ ops[t] > 0 /\ result[Tx0(t)] = Nil
      /\ \A f \in Entities : f[1] = t /\ f # e =>
           /\ ~ Given(f) /\ ~ Placed(f)
           /\ f # Main(t) => pc[f] \in {"none", "send", "recv", "wait"}
  BY GivenFacts
<1>2. PICK k \in DOMAIN request[t].events : e = Waiter(t, k) /\ k = IF e[2] = 0 THEN 1 ELSE e[2]
  BY <1>1
<1>3. \A i \in DOMAIN request[t].events : Commits(t, i) <=> i = k
  <2>1. \A i \in DOMAIN request[t].events :
          Commits(t, i) <=> e = Waiter(t, i) /\ (pc[e] \in {"sent", "received", "return"} \/ Readied(e))
    BY CommitsGiven
  <2>2. \A i, j \in DOMAIN request[t].events : Waiter(t, i) = Waiter(t, j) => i = j
    BY CommitsGiven
  <2> QED BY <1>2, <2>1, <2>2
<1>4. CASE e[2] = 0
  <2>1. e = Main(t) /\ pc'[Main(t)] = "run" /\ k = 1
    BY <1>2, <1>4, EntityFacts DEF Finished
  <2>2. \A f \in Entities : f[1] = t /\ f # Main(t) =>
          ~ Exec(f)' /\ pc'[f] \in {"none", "send", "recv", "wait"}
    BY <1>1, <2>1
  <2>5. \A f \in Entities : f[1] = t => ~ Readied(f)'
    OBVIOUS
  <2>6. ~ Idles(t)
    BY <1>1
  <2>3. result'[Tx0(t)] # Nil /\ result'[Tx0(t)].event = k
    BY <1>4, <2>1
  <2>4. /\ ThreadOk(t)' /\ BlockedOk(t)' /\ NacksOk(t)'
        /\ \A f \in Entities : f[1] = t /\ f # Main(t) => ~ Placed(f)'
        /\ Placed(Main(t))'
    BY <1>3, <2>1, <2>2, <2>3, <2>5, <2>6, ReturnsOk
  <2> QED BY <1>1, <2>1, <2>4
<1>5. CASE e[2] # 0
  <2>1. pc'[e] = "return" /\ Given(e)' /\ Placed(e)'
    BY <1>5 DEF Finished, Given, Placed
  <2>2. Event(e).kind = "wait" => \A m \in matched' : Tx0(t) \notin {m[1], m[2]}
    <3> SUFFICES ASSUME Event(e).kind = "wait" PROVE \A m \in matched : Tx0(t) \notin {m[1], m[2]}
      OBVIOUS
    <3>1. \A f \in Entities : f[1] = t /\ Given(f) => Event(f).kind = "wait"
      BY <1>1
    <3>2. pc[Main(t)] # "reply"
      BY <1>1 DEF Waits
    <3> QED BY <1>1, <3>1, <3>2, Unmet
  <2>3. /\ ThreadOk(t)' /\ BlockedOk(t)'
        /\ \A f \in Entities : f[1] = t /\ f # e => ~ Placed(f)'
        /\ \A i \in DOMAIN request[t].events :
             Commits(t, i)' <=>
               e = Waiter(t, i) /\ (pc'[e] \in {"sent", "received", "return"} \/ Readied(e)')
    <3>1. \A f \in Entities : f[1] = t /\ f # e =>
            /\ ~ Exec(f)' /\ ~ Readied(f)' /\ pc'[f] = pc[f]
            /\ f # Main(t) => pc[f] \in {"none", "send", "recv", "wait"}
      BY <1>1
    <3>2. /\ Event(e).kind = "recv" => \E c \in Channels : <<val'[e], Tx0(t), c>> \in matched'
          /\ Event(e).kind = "send" => \E m \in matched' : m[1] = Tx0(t)
      BY <1>1
    <3>3. result'[Tx0(t)] = result[Tx0(t)] /\ Tx0(t) \in cancelled'
      BY <1>1, <1>5
    <3>4. /\ pc'[e] \in {"send", "recv", "wait", "sent", "received", "return"}
          /\ pc'[e] = "return" /\ pc'[e] \notin {"sent", "received"} /\ ~ Readied(e)'
      BY <2>1
    <3>5. Waits(t) /\ \E j \in DOMAIN request[t].events : e = Waiter(t, j)
      BY <1>1
    <3> QED BY <2>1, <2>2, <3>1, <3>2, <3>3, <3>4, <3>5, GivenNow
  <2>4. \A i \in DOMAIN request[t].events : Commits(t, i)' <=> i = k
    <3>1. \A i, j \in DOMAIN request[t].events : Waiter(t, i) = Waiter(t, j) => i = j
      BY CommitsGiven
    <3>2. \A i \in DOMAIN request[t].events : Commits(t, i)' <=> e = Waiter(t, i)
      BY <2>1, <2>3
    <3> QED BY <1>2, <3>1, <3>2
  <2>5. \A n : Loses(t, n)' <=> Loses(t, n)
    BY <1>3, <2>4 DEF Loses
  <2>6. NacksOk(t)'
    BY <2>5, NacksStay
  <2> QED BY <1>1, <2>1, <2>3, <2>6
<1> QED BY <1>4, <1>5

LEMMA ReceivedStep ==
  ASSUME EventInv, NEW e \in Entities, Received(e)
  PROVE  EventInv'
<1>0. PICK t \in Threads : t = e[1]
  BY EntityFacts
<1>1. /\ sched.cur = e /\ pc[e] = "received" /\ sched.atomic = 1 /\ agenda = <<>>
      /\ sched' = atomicEnd(sched) /\ inQ' = inQ /\ outQ' = outQ /\ cvars' = cvars
      /\ cancelled' = cancelled /\ ops' = ops /\ request' = request /\ val' = val
      /\ agenda' = agenda /\ failed' = failed /\ matched' = matched /\ choice' = choice
      /\ pc' = [pc EXCEPT ![e] = Finished(e)]
      /\ result' = Outcome(e, val[e])
  BY DEF Received, Runs
<1>2. TypeOK /\ ThreadsInv /\ CVarsInv /\ MatchInv /\ PlacesInv
  BY DEF EventInv
<1>3. Given(e) /\ Exec(e)
  BY <1>1 DEF Given, Exec
<1>4. /\ Tx0(t) \in Tx /\ Waits(t)
      /\ pc[e] # "return" => Event(e).kind = KindOf(pc[e])
      /\ Event(e).kind = "recv" => \E c \in Channels : <<val[e], Tx0(t), c>> \in matched
  BY <1>0, <1>3, GivenFacts
<1>5. val[e] \in Tx
  <2>1. \E c \in Channels : <<val[e], Tx0(t), c>> \in matched
    BY <1>1, <1>4 DEF KindOf
  <2> QED BY <1>2, <2>1 DEF TypeOK
<1>6. /\ pc'[e] = Finished(e) /\ \A f \in Entities : f # e => pc'[f] = pc[f]
      /\ pc' \in [Entities -> Points] /\ Finished(e) \in {"run", "return"}
      /\ e[2] = 0 => Finished(e) = "run"
  BY <1>1, <1>2, EntityFacts DEF TypeOK, Points, Finished
<1>7. /\ e[2] = 0 => result'[Tx0(t)] # Nil /\ result'[Tx0(t)].event = 1
      /\ e[2] # 0 => result' = result
      /\ \A x \in Tx : x # Tx0(t) => result'[x] = result[x]
      /\ result' \in [Tx -> {Nil} \cup [event : 0 .. Fan, val : Tx \cup {Nil}]]
      /\ \A u \in Threads : u # t => result'[Tx0(u)] = result[Tx0(u)]
  <2>1. CASE e[2] = 0
    <3> DEFINE x == [event |-> 1, val |-> val[e]]
    <3>1. 1 \in 0 .. Fan
      <4>1. ops[t] > 0 /\ OpsOk(t)
        BY <1>0, <1>3, GivenFacts
      <4>2. Len(request[t].events) \in 1 .. Fan
        BY <1>2, <4>1, RequestFacts
      <4> QED BY <4>2, EntityFacts
    <3>2. x \in [event : 0 .. Fan, val : Tx \cup {Nil}] /\ x # Nil /\ x.event = 1
      BY <1>5, <3>1, RequestsAssumption DEF Tx
    <3>3. result' = [result EXCEPT ![Tx0(t)] = x]
      BY <1>0, <1>1, <2>1 DEF Outcome
    <3> HIDE DEF x
    <3>4. \A u \in Threads : u # t => Tx0(u) # Tx0(t)
      BY TxFacts
    <3> QED BY <1>2, <1>4, <2>1, <3>2, <3>3, <3>4 DEF TypeOK
  <2>2. CASE e[2] # 0
    BY <1>1, <1>2, <2>2 DEF Outcome, TypeOK
  <2> QED BY <2>1, <2>2
<1>8. /\ sched' \in SchedulerStates(Entities) /\ sched'.atomic = 0
      /\ \A f : Scheduled(f)' = Scheduled(f)
  <2>1. sched \in SchedulerStates(Entities) /\ sched.atomic > 0 /\ sched.atomic = 1
    BY <1>1, <1>2 DEF TypeOK
  <2>2. sched' = atomicEnd(sched)
    BY <1>1
  <2> QED BY <2>1, <2>2, PlacesEnd DEF Scheduled
<1>9. TypeOK'
  <2>1. \A f \in Entities : f[2] = 0 => pc'[f] \notin {"none", "return"}
    BY <1>2, <1>6, EntityFacts DEF TypeOK
  <2> QED BY <1>1, <1>2, <1>6, <1>7, <1>8, <2>1 DEF TypeOK
<1>10. PICK M : M = {t}
  OBVIOUS
<1>11. \A u \in Threads : u \notin M =>
        /\ pc[Main(u)] \notin {"choice", "reply", "exiting"}
        /\ \A f \in Entities : f[1] = u => ~ Exec(f)
  <2>1. sched.cur[1] \in M /\ pc[sched.cur] \notin {"send", "sent"}
    BY <1>0, <1>1, <1>10
  <2> QED BY <1>1, <2>1, OthersAside
<1>12. /\ PhaseInv' /\ CommitInv'
       /\ \A f : ~ Exec(f)' /\ ~ Readied(f)'
       /\ \A v : ~ ToBeSet(v)'
       /\ \A item : ~ ToWake(item)'
  <2>1. \A u \in Threads : pc'[Main(u)] \notin {"choice", "reply"}
    <3> SUFFICES ASSUME NEW u \in Threads PROVE pc'[Main(u)] \notin {"choice", "reply"}
      OBVIOUS
    <3>1. CASE u # t
      BY <1>0, <1>6, <1>10, <1>11, <3>1, EntityFacts
    <3>2. CASE u = t
      BY <1>4, <1>6, <3>2, EntityFacts DEF Waits
    <3> QED BY <3>1, <3>2
  <2> QED BY <1>1, <1>8, <2>1, LeavesSection
<1>13. /\ \A f : ~ Readied(f)
       /\ \A v : ~ ToBeSet(v)
       /\ \A item : ~ ToWake(item)
  BY <1>1, NothingToDo
<1>14. \A v \in CVars : Settled(v)' <=> Settled(v)
  BY <1>1, <1>12, <1>13 DEF Settled
<1>15. Kept /\ Brought /\ PartnersInv' /\ CVarsLast
  BY <1>1, <1>12, <1>13, QueuesStay DEF CVarsLast
<1>16. \A u \in Threads : u \notin M => Same(u)
  BY <1>0, <1>1, <1>6, <1>7, <1>10, <1>11, <1>12, <1>13, EntityFacts DEF Same
<1>17. /\ ThreadOk(t)' /\ BlockedOk(t)' /\ NacksOk(t)' /\ Placed(e)'
       /\ Waits(t) /\ Tx0(t) \in cancelled /\ Tx0(t) \in Tx
       /\ \A f \in Entities : f[1] = t /\ f # e => ~ Placed(f) /\ ~ Placed(f)'
  BY <1>0, <1>1, <1>3, <1>6, <1>7, <1>9, <1>12, <1>14, <1>15, FinishesOk
<1>18. \A f \in Entities : IF f[1] \in M THEN Scheduled(f)' = One(Placed(f)')
                           ELSE Scheduled(f)' = Scheduled(f)
  <2>1. \A f \in Entities : Scheduled(f) = One(Placed(f))
    BY <1>2 DEF PlacesInv
  <2>2. Placed(e)
    BY <1>1 DEF Placed
  <2> HIDE DEF Scheduled
  <2> QED BY <1>8, <1>10, <1>17, <2>1, <2>2 DEF One
<1>19. CVarsInv'
  <2>1. Distinct(agenda)'
    BY <1>1, <1>2 DEF CVarsInv, Distinct
  <2>2. \A u \in Threads : pc[Main(u)] \in {"exiting", "dead"} => pc'[Main(u)] \in {"exiting", "dead"}
    BY <1>1, <1>6, EntityFacts
  <2>3. \A u \in Threads : Settled(<<u, 0, 0>>)' => pc'[Main(u)] \in {"exiting", "dead"}
    BY <1>1, <1>12, <2>2, DeathsFrame
  <2> QED BY <1>1, <1>12, <2>1, <2>3, CVarsFrame
<1>20. MatchInv'
  <2>1. Tx0(t)[2] = ops[Tx0(t)[1]]
    BY TxFacts
  <2> QED BY <1>1, <1>7, <2>1, MatchFrame
<1> HIDE DEF Scheduled
<1> QED BY <1>1, <1>9, <1>10, <1>12, <1>14, <1>15, <1>16, <1>17, <1>18, <1>19, <1>20, StepOk

LEMMA CleanUpStep ==
  ASSUME EventInv, NEW e \in Entities, CleanUp(e)
  PROVE  EventInv'
<1>0. PICK t \in Threads : t = e[1]
  BY EntityFacts
<1>1. /\ sched.cur = e /\ pc[e] \in {"send", "recv"} /\ sched.atomic = 1
      /\ pc' = [pc EXCEPT ![e] = IF pc[e] = "send" THEN "sent" ELSE "received"]
      /\ cancelled' = IF request[t].mode = "call" THEN cancelled ELSE cancelled \cup {Tx0(t)}
      /\ agenda' = IF e[2] = 0 THEN <<>> ELSE NackTasks(t, e[2])
      /\ sched' = sched /\ inQ' = inQ /\ outQ' = outQ /\ cvars' = cvars
      /\ ops' = ops /\ request' = request /\ val' = val
      /\ failed' = failed /\ matched' = matched /\ choice' = choice
      /\ result' = result
  BY <1>0 DEF CleanUp, Runs
<1>2. TypeOK /\ ThreadsInv /\ CVarsInv /\ MatchInv /\ PlacesInv /\ PhaseInv /\ CommitInv
  BY DEF EventInv
<1>3. Given(e) /\ Exec(e)
  BY <1>1 DEF Given, Exec
<1>4. /\ Waits(t) /\ ~ Idles(t) /\ Tx0(t) \in cancelled /\ Tx0(t) \in Tx
      /\ ops[t] > 0 /\ result[Tx0(t)] = Nil /\ OpsOk(t)
      /\ \E i \in DOMAIN request[t].events :
           /\ e = Waiter(t, i) /\ Event(e) = request[t].events[i]
           /\ i = IF e[2] = 0 THEN 1 ELSE e[2]
      /\ e = Main(t) <=> ~ HasHelpers(t)
      /\ pc[e] # "return" => Event(e).kind = KindOf(pc[e])
      /\ Event(e).kind = "recv" => \E c \in Channels : <<val[e], Tx0(t), c>> \in matched
      /\ Event(e).kind = "send" => \E m \in matched : m[1] = Tx0(t)
      /\ \A f \in Entities : f[1] = t /\ f # e =>
           /\ ~ Given(f) /\ ~ Exec(f) /\ ~ Readied(f) /\ ~ Placed(f)
           /\ f # Main(t) => pc[f] \in {"none", "send", "recv", "wait"}
  BY <1>0, <1>3, GivenFacts
<1>5. PICK k \in DOMAIN request[t].events : e = Waiter(t, k) /\ k = IF e[2] = 0 THEN 1 ELSE e[2]
  BY <1>4
<1>6. /\ pc'[e] \in {"sent", "received"} /\ (pc'[e] = "sent" <=> pc[e] = "send")
      /\ \A f \in Entities : f # e => pc'[f] = pc[f]
      /\ pc' \in [Entities -> Points]
  BY <1>1, <1>2 DEF TypeOK, Points
<1>7. /\ cancelled' = cancelled /\ agenda = <<>>
      /\ \A f : ~ Readied(f)
      /\ \A v : ~ ToBeSet(v)
      /\ \A item : ~ ToWake(item)
  <2>1. cancelled' = cancelled
    BY <1>1, <1>4
  <2>2. agenda = <<>>
    BY <1>1, InSection
  <2> QED BY <2>1, <2>2, NothingToDo
<1>8. \A n : ~ Loses(t, n)
  <2>1. \A i \in DOMAIN request[t].events :
          Commits(t, i) <=> e = Waiter(t, i) /\ (pc[e] \in {"sent", "received", "return"} \/ Readied(e))
    BY <1>0, <1>3, CommitsGiven
  <2>2. \A i \in DOMAIN request[t].events : ~ Commits(t, i)
    BY <1>1, <1>7, <2>1
  <2> QED BY <2>2 DEF Loses
<1>9. /\ agenda' \in Seq(Tasks) /\ Distinct(agenda')
      /\ \A v : ToBeSet(v)' <=> e[2] # 0 /\ SetsIn(NackTasks(t, k), v)
      /\ \A f : ~ Readied(f)'
      /\ \A item : ~ ToWake(item)'
  <2>1. CASE e[2] = 0
    <3>1. agenda' = <<>>
      BY <1>1, <2>1
    <3>2. Distinct(agenda') /\ agenda' \in Seq(Tasks)
      BY <3>1 DEF Distinct
    <3> QED BY <2>1, <3>1, <3>2 DEF Readied, ToBeSet, ToWake
  <2>2. CASE e[2] # 0
    <3>1. agenda' = NackTasks(t, k)
      BY <1>1, <1>5, <2>2
    <3> QED BY <1>2, <1>4, <2>2, <3>1, NackTasksFacts, AgendaNow
  <2> QED BY <2>1, <2>2
<1>10. \A v : ToBeSet(v)' =>
         /\ v \in CVars /\ v[1] = t /\ v \in Nacks(t) /\ cvars[v].state = "unset"
         /\ v # <<t, 0, 0>>
  BY <1>4, <1>8, <1>9, NackTasksUnset
<1>11. Kept /\ Brought /\ PartnersInv' /\ CVarsLast
  BY <1>1, <1>7, <1>9, QueuesStay DEF CVarsLast
<1>12. TypeOK'
  <2>1. \A f \in Entities : f[2] = 0 => pc'[f] \notin {"none", "return"}
    BY <1>2, <1>6, EntityFacts DEF TypeOK
  <2> QED BY <1>1, <1>2, <1>6, <1>7, <1>9, <2>1 DEF TypeOK
<1>13. PICK M : M = {t}
  OBVIOUS
<1>14. \A f : (Exec(f)' <=> Exec(f)) /\ (Exec(f) <=> f = e)
  BY <1>1 DEF Exec
<1>15. \A u \in Threads : u \notin M => Same(u)
  BY <1>0, <1>1, <1>6, <1>7, <1>9, <1>13, <1>14, EntityFacts DEF Same
<1>16. \A v \in CVars : Settled(v)' <=> Settled(v) \/ (e[2] # 0 /\ SetsIn(NackTasks(t, k), v))
  BY <1>1, <1>7, <1>9 DEF Settled
<1>17. /\ ThreadOk(t)' /\ BlockedOk(t)'
       /\ \A f \in Entities : f[1] = t /\ f # e => ~ Given(f)' /\ ~ Placed(f)'
       /\ \A i \in DOMAIN request[t].events :
            Commits(t, i)' <=>
              e = Waiter(t, i) /\ (pc'[e] \in {"sent", "received", "return"} \/ Readied(e)')
  <2>1. \A f \in Entities : f[1] = t /\ f # e =>
          /\ ~ Exec(f)' /\ ~ Readied(f)' /\ pc'[f] = pc[f]
          /\ f # Main(t) => pc[f] \in {"none", "send", "recv", "wait"}
    BY <1>4, <1>6, <1>9, <1>14
  <2>2. /\ Event(e).kind = "recv" => \E c \in Channels : <<val'[e], Tx0(t), c>> \in matched'
        /\ Event(e).kind = "send" => \E m \in matched' : m[1] = Tx0(t)
    BY <1>1, <1>4
  <2>3. Event(e).kind = KindOf(pc'[e]) /\ Event(e).kind # "wait"
    BY <1>1, <1>4, <1>6 DEF KindOf
  <2>4. /\ result'[Tx0(t)] = result[Tx0(t)] /\ Tx0(t) \in cancelled'
        /\ ops'[t] = ops[t] /\ request'[t] = request[t]
    BY <1>1, <1>4, <1>7
  <2>5. Exec(e)' /\ ~ Readied(e)'
    BY <1>9, <1>14
  <2>6. Given(e)' /\ pc'[e] \in {"send", "recv", "wait", "sent", "received", "return"}
    BY <1>6, <2>5 DEF Given
  <2>7. Waits(t) /\ \E j \in DOMAIN request[t].events : e = Waiter(t, j)
    BY <1>4
  <2> QED BY <1>0, <1>11, <1>12, <2>1, <2>2, <2>3, <2>4, <2>5, <2>6, <2>7, GivenNow
<1>18. NacksOk(t)'
  <2>1. CASE e[2] = 0
    <3>1. request[t].nacks = {}
      BY <1>0, <1>4, <2>1, EntityFacts DEF HasHelpers
    <3> QED BY <1>1, <3>1 DEF NacksOk
  <2>2. CASE e[2] # 0
    <3>1. \A j \in DOMAIN request[t].events : Commits(t, j)' <=> j = k
      <4>1. \A i, j \in DOMAIN request[t].events : Waiter(t, i) = Waiter(t, j) => i = j
        BY <1>0, <1>3, CommitsGiven
      <4> QED BY <1>5, <1>6, <1>17, <4>1
    <3>2. \A v \in CVars : Settled(v)' <=> Settled(v) \/ SetsIn(NackTasks(t, k), v)
      BY <1>16, <2>2
    <3> QED BY <1>1, <1>4, <1>8, <1>11, <3>1, <3>2, NacksSettle
  <2> QED BY <2>1, <2>2
<1>19. \A f \in Entities : IF f[1] \in M THEN Scheduled(f)' = One(Placed(f)')
                           ELSE Scheduled(f)' = Scheduled(f)
  <2>1. \A f \in Entities : Scheduled(f)' = Scheduled(f) /\ Scheduled(f) = One(Placed(f))
    BY <1>1, <1>2 DEF PlacesInv, Scheduled
  <2>2. Placed(e) /\ Placed(e)'
    BY <1>3, <1>14 DEF Placed
  <2> HIDE DEF Scheduled
  <2> QED BY <1>4, <1>13, <1>17, <2>1, <2>2 DEF One
<1>20. PhaseInv' /\ CommitInv'
  <2>1. pc'[e] = "sent" => \E u \in Threads : val[e] = Main(u) /\ pc'[Main(u)] = "reply"
    <3> SUFFICES ASSUME pc[e] = "send"
                 PROVE  \E u \in Threads : val[e] = Main(u) /\ pc'[Main(u)] = "reply"
      BY <1>6
    <3>1. PICK u \in Threads : val[e] = Main(u) /\ pc[Main(u)] = "reply"
      BY <1>1, <1>2 DEF PhaseInv
    <3> QED BY <1>6, <3>1, EntityFacts
  <2>2. PhaseInv'
    BY <1>1, <1>6, <2>1 DEF PhaseInv
  <2>3. ASSUME NEW u \in Threads
        PROVE  /\ pc'[Main(u)] = "reply" => ReplyOk(u)'
               /\ pc'[Main(u)] # "choice"
    <3>1. pc[Main(u)] # "choice"
      BY <1>1, InSection
    <3>2. pc'[Main(u)] = "reply" => pc[Main(u)] = "reply"
      BY <1>6, EntityFacts
    <3>3. pc[Main(u)] = "reply" => ReplyOk(u)
      BY <1>2 DEF CommitInv
    <3>4. ReplyOk(u) => ReplyOk(u)'
      BY <1>1, <1>6 DEF ReplyOk, Tx0
    <3> QED BY <1>6, <3>1, <3>2, <3>3, <3>4, EntityFacts
  <2> QED BY <2>2, <2>3 DEF CommitInv
<1>21. CVarsInv'
  <2>1. Distinct(agenda)'
    BY <1>9 DEF Distinct
  <2>2. \A u \in Threads : pc[Main(u)] \in {"exiting", "dead"} => pc'[Main(u)] \in {"exiting", "dead"}
    BY <1>1, <1>6, EntityFacts
  <2>3. \A u \in Threads : Settled(<<u, 0, 0>>)' => pc'[Main(u)] \in {"exiting", "dead"}
    BY <1>1, <1>10, <2>2, DeathsFrame
  <2>4. \A v \in CVars : ToBeSet(v)' => cvars[v].state = "unset" /\ ops[v[1]] > 0 /\ v \in Nacks(v[1])
    BY <1>4, <1>10
  <2> QED BY <1>1, <2>1, <2>3, <2>4, CVarsFrame
<1>22. MatchInv'
  BY <1>1, <1>7, MatchFrame
<1>23. \A v \in CVars : v[1] \notin M => (Settled(v)' <=> Settled(v))
  BY <1>9, <1>10, <1>13, <1>16
<1> HIDE DEF Scheduled
<1> QED BY <1>1, <1>4, <1>7, <1>11, <1>12, <1>13, <1>15, <1>17, <1>18, <1>19, <1>20, <1>21, <1>22,
          <1>23, StepOk

LEMMA SentStep ==
  ASSUME EventInv, NEW e \in Entities, Sent(e)
  PROVE  EventInv'
<1>0. PICK t \in Threads : t = e[1]
  BY EntityFacts
<1>1. /\ sched.cur = e /\ pc[e] = "sent" /\ sched.atomic = 1 /\ agenda = <<>>
      /\ sched' = atomicReadyAndSwitch(sched, val[e]) /\ inQ' = inQ /\ outQ' = outQ
      /\ cvars' = cvars /\ cancelled' = cancelled /\ ops' = ops /\ request' = request
      /\ val' = val /\ agenda' = agenda /\ failed' = failed /\ matched' = matched
      /\ choice' = 0
      /\ pc' = [pc EXCEPT ![e] = Finished(e), ![val[e]] = "run"]
      /\ result' = [Outcome(e, Nil) EXCEPT
                      ![Tx0(val[e][1])] = [event |-> choice, val |-> Tx0(t)]]
  BY <1>0 DEF Sent, Runs
<1>2. TypeOK /\ ThreadsInv /\ CVarsInv /\ MatchInv /\ PlacesInv /\ PhaseInv /\ CommitInv
  BY DEF EventInv
<1>3. Given(e) /\ Exec(e)
  BY <1>1 DEF Given, Exec
<1>4. Tx0(t) \in Tx /\ Waits(t) /\ ops[t] > 0 /\ OpsOk(t)
  BY <1>0, <1>3, GivenFacts
<1>5. PICK r \in Threads : val[e] = Main(r) /\ pc[Main(r)] = "reply"
  BY <1>1, <1>2 DEF PhaseInv
<1>6. /\ choice \in DOMAIN request[r].events /\ choice \in 1 .. Fan
      /\ ~ Idles(r) /\ ~ Waits(r) /\ result[Tx0(r)] = Nil /\ Tx0(r) \in Tx
      /\ \A i \in DOMAIN request[r].events : Commits(r, i) <=> i = choice
      /\ \A f \in Entities : f[1] = r => ~ Given(f) /\ ~ Readied(f)
      /\ \A f \in Entities : f[1] = r /\ f # Main(r) =>
           ~ Exec(f) /\ ~ Placed(f) /\ pc[f] \in {"none", "send", "recv", "wait"}
  BY <1>5, CommitsChoice
<1>7. /\ r # t /\ Main(r) # e /\ Main(r) \in Entities /\ Main(r)[1] = r
      /\ Tx0(r) # Tx0(t)
  BY <1>0, <1>4, <1>6, EntityFacts, TxFacts
<1>8. /\ pc'[e] = Finished(e) /\ pc'[Main(r)] = "run"
      /\ \A f \in Entities : f # e /\ f # Main(r) => pc'[f] = pc[f]
      /\ pc' \in [Entities -> Points] /\ Finished(e) \in {"run", "return"}
      /\ e[2] = 0 => Finished(e) = "run"
  <2>1. Finished(e) \in {"run", "return"} /\ (e[2] = 0 => Finished(e) = "run")
    BY DEF Finished
  <2>2. pc' = [pc EXCEPT ![e] = Finished(e), ![Main(r)] = "run"]
    BY <1>1, <1>5
  <2>3. pc \in [Entities -> Points] /\ Finished(e) \in Points /\ "run" \in Points
    BY <1>2, <2>1 DEF TypeOK, Points
  <2> QED BY <1>7, <2>1, <2>2, <2>3
<1>9. /\ e[2] = 0 => result'[Tx0(t)] # Nil /\ result'[Tx0(t)].event = 1
      /\ e[2] # 0 => result'[Tx0(t)] = result[Tx0(t)]
      /\ result'[Tx0(r)] = [event |-> choice, val |-> Tx0(t)] /\ result'[Tx0(r)] # Nil
      /\ \A x \in Tx : x # Tx0(t) /\ x # Tx0(r) => result'[x] = result[x]
      /\ result' \in [Tx -> {Nil} \cup [event : 0 .. Fan, val : Tx \cup {Nil}]]
      /\ \A u \in Threads : u # t /\ u # r => result'[Tx0(u)] = result[Tx0(u)]
  <2> DEFINE x == [event |-> 1, val |-> Nil]
             y == [event |-> choice, val |-> Tx0(t)]
             o == Outcome(e, Nil)
  <2>1. 1 \in 0 .. Fan /\ choice \in 0 .. Fan
    BY <1>6, EntityFacts
  <2>2. x \in [event : 0 .. Fan, val : Tx \cup {Nil}] /\ x # Nil /\ x.event = 1
    BY <2>1, RequestsAssumption
  <2>3. y \in [event : 0 .. Fan, val : Tx \cup {Nil}] /\ y # Nil
    BY <1>4, <2>1, RequestsAssumption DEF Tx
  <2>4. o = IF e[2] = 0 THEN [result EXCEPT ![Tx0(t)] = x] ELSE result
    BY <1>0 DEF Outcome
  <2>5. result' = [o EXCEPT ![Tx0(r)] = y]
    BY <1>1, <1>5, <1>7
  <2>6. \A u \in Threads : (u # t => Tx0(u) # Tx0(t)) /\ (u # r => Tx0(u) # Tx0(r))
    BY TxFacts
  <2>7. result \in [Tx -> {Nil} \cup [event : 0 .. Fan, val : Tx \cup {Nil}]]
    BY <1>2 DEF TypeOK
  <2> HIDE DEF x, y, o
  <2>8. /\ o \in [Tx -> {Nil} \cup [event : 0 .. Fan, val : Tx \cup {Nil}]]
        /\ e[2] = 0 => o[Tx0(t)] = x
        /\ e[2] # 0 => o[Tx0(t)] = result[Tx0(t)]
        /\ \A z : z # Tx0(t) => o[z] = result[z]
    BY <1>4, <2>2, <2>4, <2>7
  <2>9. /\ result' \in [Tx -> {Nil} \cup [event : 0 .. Fan, val : Tx \cup {Nil}]]
        /\ result'[Tx0(r)] = y
        /\ \A z : z # Tx0(r) => result'[z] = o[z]
    BY <1>6, <2>3, <2>5, <2>8
  <2> QED BY <1>7, <2>2, <2>3, <2>6, <2>8, <2>9 DEF y
<1>10. /\ sched' \in SchedulerStates(Entities) /\ sched'.atomic = 0
       /\ \A f : Scheduled(f)' = Scheduled(f) + One(Main(r) = f)
  <2> DEFINE b == ready(sched, e)
  <2>1. sched \in SchedulerStates(Entities)
    BY <1>2 DEF TypeOK
  <2>2. /\ b \in SchedulerStates(Entities) /\ b.atomic = 1 /\ b.cur = e
        /\ \A f : Places(b, f) = Places(sched, f) + One(e = f)
    BY <1>1, <2>1, PlacesReady
  <2>3. sched' = atomicSwitch(b, Main(r))
    BY <1>1, <1>5 DEF atomicReadyAndSwitch
  <2> HIDE DEF b
  <2>4. /\ sched' \in SchedulerStates(Entities) /\ sched'.atomic = b.atomic - 1
        /\ \A f : Places(sched', f) = Places(b, f) - One(b.cur = f) + One(Main(r) = f)
    BY <1>7, <2>2, <2>3, PlacesSwitch
  <2>5. sched'.atomic = 0
    BY <2>2, <2>4
  <2>6. \A f : Places(sched', f) = Places(sched, f) + One(Main(r) = f)
    <3>1. \A f : One(b.cur = f) = One(e = f) /\ One(e = f) \in Nat /\ One(Main(r) = f) \in Nat
      BY <2>2 DEF One
    <3>2. \A f : Places(sched, f) \in Nat
      BY <2>1, PlacesType
    <3> SUFFICES ASSUME NEW f PROVE Places(sched', f) = Places(sched, f) + One(Main(r) = f)
      OBVIOUS
    <3>3. Places(sched', f) = (Places(sched, f) + One(e = f)) - One(e = f) + One(Main(r) = f)
      BY <2>2, <2>4, <3>1
    <3>4. PICK x \in Nat, y \in Nat, z \in Nat :
            x = Places(sched, f) /\ y = One(e = f) /\ z = One(Main(r) = f)
      BY <3>1, <3>2
    <3>5. (x + y) - y + z = x + z
      OBVIOUS
    <3> QED BY <3>3, <3>4, <3>5
  <2> QED BY <2>4, <2>5, <2>6 DEF Scheduled
<1>11. TypeOK'
  <2>1. \A f \in Entities : f[2] = 0 => pc'[f] \notin {"none", "return"}
    BY <1>2, <1>8, EntityFacts DEF TypeOK
  <2>2. choice' \in 0 .. Fan /\ sched'.atomic \in 0 .. 1
    BY <1>1, <1>10, EntityFacts
  <2> QED BY <1>1, <1>2, <1>8, <1>9, <1>10, <2>1, <2>2 DEF TypeOK
<1>12. PICK M : M = {t, r}
  OBVIOUS
<1>13. \A u \in Threads : u \notin M =>
        /\ pc[Main(u)] \notin {"choice", "reply", "exiting"}
        /\ \A f \in Entities : f[1] = u => ~ Exec(f)
  <2>1. sched.cur[1] \in M /\ val[sched.cur][1] \in M
    BY <1>0, <1>1, <1>5, <1>7, <1>12
  <2> QED BY <1>1, <2>1, OthersAside
<1>14. /\ PhaseInv' /\ CommitInv'
       /\ \A f : ~ Exec(f)' /\ ~ Readied(f)'
       /\ \A v : ~ ToBeSet(v)'
       /\ \A item : ~ ToWake(item)'
  <2>1. \A u \in Threads : pc'[Main(u)] \notin {"choice", "reply"}
    <3> SUFFICES ASSUME NEW u \in Threads PROVE pc'[Main(u)] \notin {"choice", "reply"}
      OBVIOUS
    <3>1. CASE u # t /\ u # r
      BY <1>0, <1>7, <1>8, <1>12, <1>13, <3>1, EntityFacts
    <3>2. CASE u = t
      BY <1>4, <1>7, <1>8, <3>2, EntityFacts DEF Waits
    <3>3. CASE u = r
      BY <1>8, <3>3
    <3> QED BY <3>1, <3>2, <3>3
  <2> QED BY <1>1, <1>10, <2>1, LeavesSection
<1>15. /\ \A f : ~ Readied(f)
       /\ \A v : ~ ToBeSet(v)
       /\ \A item : ~ ToWake(item)
  BY <1>1, NothingToDo
<1>16. \A v \in CVars : Settled(v)' <=> Settled(v)
  BY <1>1, <1>14, <1>15 DEF Settled
<1>17. Kept /\ Brought /\ PartnersInv' /\ CVarsLast
  BY <1>1, <1>14, <1>15, QueuesStay DEF CVarsLast
<1>18. \A u \in Threads : u \notin M => Same(u)
  <2> SUFFICES ASSUME NEW u \in Threads, u # t, u # r PROVE Same(u)
    BY <1>12
  <2>1. \A f \in Entities : f[1] = u => pc'[f] = pc[f]
    BY <1>0, <1>7, <1>8
  <2> QED BY <1>1, <1>9, <1>12, <1>13, <1>14, <1>15, <2>1 DEF Same
<1>19. /\ ThreadOk(t)' /\ BlockedOk(t)' /\ NacksOk(t)' /\ Placed(e)'
       /\ Waits(t) /\ Tx0(t) \in cancelled /\ Tx0(t) \in Tx
       /\ \A f \in Entities : f[1] = t /\ f # e => ~ Placed(f) /\ ~ Placed(f)'
  <2>1. \A f \in Entities : f[1] = t /\ f # e => pc'[f] = pc[f]
    BY <1>7, <1>8
  <2> QED BY <1>0, <1>1, <1>3, <1>8, <1>9, <1>11, <1>14, <1>16, <1>17, <2>1, FinishesOk
<1>20. /\ ThreadOk(r)' /\ BlockedOk(r)' /\ NacksOk(r)'
       /\ \A f \in Entities : f[1] = r /\ f # Main(r) => ~ Placed(f)'
       /\ Placed(Main(r))'
  <2>1. result'[Tx0(r)].event = choice
    BY <1>9
  <2>2. \A f \in Entities : f[1] = r /\ f # Main(r) =>
          ~ Exec(f)' /\ pc'[f] \in {"none", "send", "recv", "wait"}
    BY <1>0, <1>6, <1>7, <1>8, <1>14
  <2>3. /\ \A f \in Entities : f[1] = r => ~ Readied(f)'
        /\ ops'[r] = ops[r] /\ request'[r] = request[r] /\ result'[Tx0(r)] # Nil
        /\ pc'[Main(r)] = "run" /\ ~ Idles(r) /\ CVarsLast
    BY <1>1, <1>6, <1>8, <1>9, <1>14, <1>17
  <2>4. \A v \in CVars : v[1] = r => (Settled(v)' <=> Settled(v))
    BY <1>16
  <2>5. \A i \in DOMAIN request[r].events : Commits(r, i) <=> i = choice
    BY <1>6
  <2>6. PICK k : k = choice
    OBVIOUS
  <2> QED BY <1>11, <2>1, <2>2, <2>3, <2>4, <2>5, <2>6, ReturnsOk
<1>21. \A f \in Entities : IF f[1] \in M THEN Scheduled(f)' = One(Placed(f)')
                           ELSE Scheduled(f)' = Scheduled(f)
  <2>1. \A f \in Entities : Scheduled(f) = One(Placed(f))
    BY <1>2 DEF PlacesInv
  <2>2. Placed(e)
    BY <1>1 DEF Placed
  <2>3. ~ Placed(Main(r))
    BY <1>1, <1>5, <1>7 DEF Placed, Exec
  <2> HIDE DEF Scheduled
  <2>4. ASSUME NEW f \in Entities, f[1] = t PROVE Scheduled(f)' = One(Placed(f)')
    BY <1>7, <1>10, <1>19, <2>1, <2>2, <2>4 DEF One
  <2>5. ASSUME NEW f \in Entities, f[1] = r PROVE Scheduled(f)' = One(Placed(f)')
    <3>1. CASE f = Main(r)
      BY <1>7, <1>10, <1>20, <2>1, <2>3, <3>1 DEF One
    <3>2. CASE f # Main(r)
      BY <1>0, <1>6, <1>7, <1>10, <1>20, <2>1, <2>5, <3>2 DEF One
    <3> QED BY <3>1, <3>2
  <2>6. ASSUME NEW f \in Entities, f[1] \notin M PROVE Scheduled(f)' = Scheduled(f)
    <3>1. f # e /\ f # Main(r)
      BY <1>0, <1>7, <1>12, <2>6
    <3> QED BY <1>10, <2>1, <3>1 DEF One
  <2> QED BY <1>12, <2>4, <2>5, <2>6
<1>22. CVarsInv'
  <2>1. Distinct(agenda)'
    BY <1>1, <1>2 DEF CVarsInv, Distinct
  <2>2. \A u \in Threads : pc[Main(u)] \in {"exiting", "dead"} => pc'[Main(u)] \in {"exiting", "dead"}
    BY <1>1, <1>5, <1>8, EntityFacts
  <2>3. \A u \in Threads : Settled(<<u, 0, 0>>)' => pc'[Main(u)] \in {"exiting", "dead"}
    BY <1>1, <1>14, <2>2, DeathsFrame
  <2> QED BY <1>1, <1>14, <2>1, <2>3, CVarsFrame
<1>23. MatchInv'
  <2>1. Tx0(t)[2] = ops[Tx0(t)[1]] /\ Tx0(r)[2] = ops[Tx0(r)[1]]
    BY TxFacts
  <2> QED BY <1>1, <1>9, <2>1, MatchFrame
<1>24. \A u \in Threads : u \in M => ThreadOk(u)' /\ BlockedOk(u)' /\ NacksOk(u)'
                                     /\ (Waits(u) => Tx0(u) \in cancelled')
  BY <1>1, <1>6, <1>12, <1>19, <1>20
<1> HIDE DEF Scheduled
<1> QED BY <1>1, <1>11, <1>14, <1>16, <1>17, <1>18, <1>21, <1>22, <1>23, <1>24, StepOk

-----------------------------------------------------------------------------
(***************************************************************************)
(* The tasks of the agenda.                                                *)
(***************************************************************************)
\* Who sets variables: a thread or a helper in a critical section, committing or dying.
LEMMA AgendaBusy ==
  ASSUME EventInv, agenda # <<>>
  PROVE  /\ sched.atomic = 1 /\ sched.cur \in Entities
         /\ pc[sched.cur] \in {"choice", "exiting", "sent", "received"}
         /\ \A e : Exec(e) <=> e = sched.cur
         /\ Head(agenda) \in Tasks /\ Tail(agenda) \in Seq(Tasks)
<1>1. sched.atomic = 1
  BY DEF EventInv, PhaseInv, TypeOK
<1>2. agenda \in Seq(Tasks)
  BY DEF EventInv, TypeOK
<1>3. Head(agenda) \in Tasks /\ Tail(agenda) \in Seq(Tasks)
  BY <1>2
<1> QED BY <1>1, <1>3, InSection

\* What the first task leaves alone: the entity in the critical section, and what is
\* committed.
LEMMA SectionFrame ==
  ASSUME EventInv, agenda # <<>>, sched'.atomic = sched.atomic, sched'.cur = sched.cur,
         inQ' = inQ, outQ' = outQ, val' = val, choice' = choice, request' = request,
         ops' = ops, matched' = matched,
         \A v \in CVars : cvars[v].state = "set" => cvars'[v].state = "set",
         \A f \in Entities : pc'[f] = pc[f] \/ (pc[f] = "wait" /\ pc'[f] \in {"run", "return"})
  PROVE  PhaseInv' /\ CommitInv' /\ \A f : Exec(f)' <=> Exec(f)
<1>1. /\ sched.atomic = 1 /\ sched.cur \in Entities
      /\ pc[sched.cur] \in {"choice", "exiting", "sent", "received"}
  BY AgendaBusy
<1>2. pc'[sched.cur] = pc[sched.cur]
  BY <1>1
<1>3. ASSUME NEW u \in Threads
      PROVE  /\ pc'[Main(u)] = "reply" <=> pc[Main(u)] = "reply"
             /\ pc'[Main(u)] = "choice" <=> pc[Main(u)] = "choice"
  BY EntityFacts
<1>4. PhaseInv /\ CommitInv
  BY DEF EventInv
<1>5. PhaseInv'
  BY <1>1, <1>2, <1>3, <1>4 DEF PhaseInv
<1>6. ASSUME NEW u \in Threads, pc'[Main(u)] = "reply" PROVE ReplyOk(u)'
  <2>1. ReplyOk(u)
    BY <1>3, <1>4, <1>6 DEF CommitInv
  <2> QED BY <1>2, <2>1 DEF ReplyOk, Tx0
<1>7. ASSUME NEW u \in Threads, pc'[Main(u)] = "choice" PROVE ChoiceOk(u)'
  <2>1. ChoiceOk(u) /\ ops[u] > 0 /\ OpsOk(u)
    BY <1>3, <1>4, <1>7, CommitsChoice DEF CommitInv
  <2>2. request[u].events[choice].kind = "wait" => request[u].events[choice].on \in CVars
    BY <2>1, RequestFacts DEF EventInv, ChoiceOk
  <2> QED BY <2>1, <2>2 DEF ChoiceOk
<1>8. \A f : Exec(f)' <=> Exec(f)
  BY DEF Exec
<1> QED BY <1>5, <1>6, <1>7, <1>8 DEF CommitInv

LEMMA MakeReadyStep ==
  ASSUME EventInv, MakeReady
  PROVE  /\ EventInv'
         /\ \A v : ToBeSet(v)' <=> ToBeSet(v)
         /\ \A x : ToWake(x)' <=> ToWake(x)
         /\ \A u \in Threads : Tx0(u) \notin cancelled => Same(u)
<1>0. PICK item : item = Head(agenda).item
  OBVIOUS
<1>1. /\ agenda # <<>> /\ Head(agenda).do = "ready" /\ agenda' = Tail(agenda)
      /\ sched' = ready(sched, item.thr) /\ inQ' = inQ /\ outQ' = outQ
      /\ cvars' = cvars /\ cancelled' = cancelled /\ ops' = ops /\ request' = request
      /\ val' = val /\ failed' = failed /\ matched' = matched /\ choice' = choice
      /\ pc' = [pc EXCEPT ![item.thr] = Finished(item.thr)]
      /\ result' = Outcome(item.thr, Nil)
  BY <1>0 DEF MakeReady
<1>2. TypeOK /\ ThreadsInv /\ CVarsInv /\ MatchInv /\ PlacesInv
  BY DEF EventInv
<1>3. agenda \in Seq(Tasks) /\ Distinct(agenda) /\ Head(agenda) \in Tasks
  BY <1>1, <1>2, AgendaBusy DEF TypeOK, CVarsInv
<1>4. PICK e \in Entities : e = item.thr
  BY <1>0, <1>1, <1>3 DEF Tasks, Items
<1>5. PICK t \in Threads : t = e[1]
  BY EntityFacts
<1>6. /\ Tail(agenda) \in Seq(Tasks) /\ Distinct(Tail(agenda))
      /\ \A v : SetsIn(agenda, v) <=> SetsIn(Tail(agenda), v)
      /\ \A i : WakesIn(agenda, i) <=> WakesIn(Tail(agenda), i)
      /\ \A f : ReadiesIn(agenda, f) <=> ReadiesIn(Tail(agenda), f) \/ e = f
      /\ ~ ReadiesIn(Tail(agenda), e)
  <2>1. /\ Tail(agenda) \in Seq(Tasks) /\ Distinct(Tail(agenda))
        /\ \A v : SetsIn(agenda, v) <=> SetsIn(Tail(agenda), v)
        /\ \A i : WakesIn(agenda, i) <=> WakesIn(Tail(agenda), i)
        /\ \A f : ReadiesIn(agenda, f) <=> ReadiesIn(Tail(agenda), f) \/ e = f
        /\ \A l \in DOMAIN Tail(agenda) : ~ Clash(Head(agenda), Tail(agenda)[l])
    BY <1>0, <1>1, <1>3, <1>4, AgendaTail
  <2>2. ~ ReadiesIn(Tail(agenda), e)
    BY <1>0, <1>1, <1>4, <2>1 DEF ReadiesIn, Clash
  <2> QED BY <2>1, <2>2
<1>7. /\ \A v : ToBeSet(v)' <=> ToBeSet(v)
      /\ \A i : ToWake(i)' <=> ToWake(i)
      /\ \A f : Readied(f) <=> Readied(f)' \/ e = f
      /\ ~ Readied(e)' /\ Readied(e)
  BY <1>1, <1>6, AgendaNow
<1>8. Given(e) /\ pc[e] = "wait"
  <2>1. Given(e)
    BY <1>7 DEF Given
  <2> QED BY <1>5, <1>7, <2>1, GivenFacts
<1>9. /\ Waits(t) /\ Tx0(t) \in cancelled /\ Tx0(t) \in Tx
      /\ \A f \in Entities : f[1] = t /\ f # e => ~ Exec(f) /\ ~ Readied(f)
  BY <1>5, <1>8, GivenFacts
<1>10. \A f \in Entities : f[1] = t => ~ Readied(f)' /\ ~ Exec(f)
  <2>1. ~ Exec(e)
    BY <1>1, <1>8, AgendaBusy
  <2> QED BY <1>7, <1>9, <2>1
<1>11. /\ pc'[e] = Finished(e) /\ \A f \in Entities : f # e => pc'[f] = pc[f]
       /\ pc' \in [Entities -> Points] /\ Finished(e) \in {"run", "return"}
       /\ e[2] = 0 => Finished(e) = "run"
  BY <1>1, <1>2, <1>4, EntityFacts DEF TypeOK, Points, Finished
<1>12. /\ e[2] = 0 => result'[Tx0(t)] # Nil /\ result'[Tx0(t)].event = 1
       /\ e[2] # 0 => result' = result
       /\ \A x \in Tx : x # Tx0(t) => result'[x] = result[x]
       /\ result' \in [Tx -> {Nil} \cup [event : 0 .. Fan, val : Tx \cup {Nil}]]
       /\ \A u \in Threads : u # t => result'[Tx0(u)] = result[Tx0(u)]
  <2>1. CASE e[2] = 0
    <3> DEFINE x == [event |-> 1, val |-> Nil]
    <3>1. 1 \in 0 .. Fan
      <4>1. ops[t] > 0 /\ OpsOk(t)
        BY <1>5, <1>8, GivenFacts
      <4>2. Len(request[t].events) \in 1 .. Fan
        BY <1>2, <4>1, RequestFacts
      <4> QED BY <4>2, EntityFacts
    <3>2. x \in [event : 0 .. Fan, val : Tx \cup {Nil}] /\ x # Nil /\ x.event = 1
      BY <3>1, RequestsAssumption DEF Tx
    <3>3. result' = [result EXCEPT ![Tx0(t)] = x]
      BY <1>1, <1>4, <1>5, <2>1 DEF Outcome
    <3> HIDE DEF x
    <3>4. \A u \in Threads : u # t => Tx0(u) # Tx0(t)
      BY TxFacts
    <3> QED BY <1>2, <1>9, <2>1, <3>2, <3>3, <3>4 DEF TypeOK
  <2>2. CASE e[2] # 0
    BY <1>1, <1>2, <1>4, <2>2 DEF Outcome, TypeOK
  <2> QED BY <2>1, <2>2
<1>13. /\ sched' \in SchedulerStates(Entities)
       /\ sched'.atomic = sched.atomic /\ sched'.cur = sched.cur
       /\ \A f : Scheduled(f)' = Scheduled(f) + One(e = f)
  <2>1. sched \in SchedulerStates(Entities)
    BY <1>2 DEF TypeOK
  <2>2. sched' = ready(sched, e)
    BY <1>1, <1>4
  <2> QED BY <2>1, <2>2, PlacesReady DEF Scheduled
<1>14. TypeOK'
  <2>1. \A f \in Entities : f[2] = 0 => pc'[f] \notin {"none", "return"}
    BY <1>2, <1>11, EntityFacts DEF TypeOK
  <2>2. sched'.atomic \in 0 .. 1
    BY <1>2, <1>13 DEF TypeOK
  <2> QED BY <1>1, <1>2, <1>6, <1>11, <1>12, <1>13, <2>1, <2>2 DEF TypeOK
<1>15. PICK M : M = {t}
  OBVIOUS
<1>16. PhaseInv' /\ CommitInv' /\ \A f : Exec(f)' <=> Exec(f)
  <2>1. \A f \in Entities : pc'[f] = pc[f] \/ (pc[f] = "wait" /\ pc'[f] \in {"run", "return"})
    BY <1>8, <1>11
  <2> QED BY <1>1, <1>13, <2>1, SectionFrame
<1>17. \A v : Settled(v)' <=> Settled(v)
  BY <1>1, <1>7 DEF Settled
<1>18. Kept /\ Brought /\ PartnersInv' /\ CVarsLast
  BY <1>1, <1>7, QueuesStay DEF CVarsLast
<1>19. \A u \in Threads : u \notin M => Same(u)
  BY <1>1, <1>5, <1>7, <1>11, <1>12, <1>15, <1>16, EntityFacts DEF Same
<1>20. /\ ThreadOk(t)' /\ BlockedOk(t)' /\ NacksOk(t)' /\ Placed(e)'
       /\ \A f \in Entities : f[1] = t /\ f # e => ~ Placed(f) /\ ~ Placed(f)'
  <2>1. \A f \in Entities : f[1] = t => ~ Readied(f)' /\ ~ Exec(f)'
    BY <1>10, <1>16
  <2>2. \A v \in CVars : v[1] = t => (Settled(v)' <=> Settled(v))
    BY <1>17
  <2>3. \A f \in Entities : f[1] = t /\ f # e => pc'[f] = pc[f]
    BY <1>11
  <2>4. ops'[t] = ops[t] /\ request'[t] = request[t]
    BY <1>1
  <2>5. /\ e[2] = 0 => result'[Tx0(t)] # Nil /\ result'[Tx0(t)].event = 1
        /\ e[2] # 0 => result'[Tx0(t)] = result[Tx0(t)]
    BY <1>12
  <2> QED BY <1>1, <1>5, <1>7, <1>8, <1>11, <1>14, <1>18, <2>1, <2>2, <2>3, <2>4, <2>5, FinishesOk
<1>21. \A f \in Entities : IF f[1] \in M THEN Scheduled(f)' = One(Placed(f)')
                           ELSE Scheduled(f)' = Scheduled(f)
  <2>1. \A f \in Entities : Scheduled(f) = One(Placed(f))
    BY <1>2 DEF PlacesInv
  <2>2. ~ Placed(e)
    BY <1>5, <1>8, <1>10 DEF Placed
  <2> HIDE DEF Scheduled
  <2>3. ASSUME NEW f \in Entities, f[1] = t PROVE Scheduled(f)' = One(Placed(f)')
    BY <1>13, <1>20, <2>1, <2>2, <2>3 DEF One
  <2>4. ASSUME NEW f \in Entities, f[1] # t PROVE Scheduled(f)' = Scheduled(f)
    <3>1. e # f
      BY <1>5, <2>4
    <3> QED BY <1>13, <2>1, <3>1 DEF One
  <2> QED BY <1>15, <2>3, <2>4
<1>22. CVarsInv'
  <2>1. Distinct(agenda)'
    BY <1>1, <1>6 DEF Distinct
  <2>2. \A u \in Threads : pc[Main(u)] \in {"exiting", "dead"} => pc'[Main(u)] \in {"exiting", "dead"}
    BY <1>8, <1>11, EntityFacts
  <2>3. \A u \in Threads : Settled(<<u, 0, 0>>)' => pc'[Main(u)] \in {"exiting", "dead"}
    BY <1>1, <1>7, <2>2, DeathsFrame
  <2> QED BY <1>1, <1>7, <2>1, <2>3, CVarsFrame
<1>23. MatchInv'
  <2>1. Tx0(t)[2] = ops[Tx0(t)[1]]
    BY TxFacts
  <2> QED BY <1>1, <1>12, <2>1, MatchFrame
<1>24. \A v \in CVars : v[1] \notin M => (Settled(v)' <=> Settled(v))
  BY <1>17
<1>31. EventInv'
  <2> HIDE DEF Scheduled
  <2> QED BY <1>1, <1>9, <1>14, <1>15, <1>16, <1>18, <1>19, <1>20, <1>21, <1>22, <1>23, <1>24, StepOk
<1>32. \A u \in Threads : Tx0(u) \notin cancelled => Same(u)
  BY <1>9, <1>15, <1>19
<1> QED BY <1>7, <1>31, <1>32

\* A variable that is about to be set is not set already: atomicCVarSet does not fail.
LEMMA SetCVarStep ==
  ASSUME EventInv, SetCVar
  PROVE  /\ EventInv' /\ failed' = failed
         /\ \E v \in CVars : /\ ToBeSet(v)
                             /\ \A w : ToBeSet(w)' => ToBeSet(w)
                             /\ \A i : ToWake(i)' => ToWake(i) \/ In(i, cvars[v].waiting)
         /\ inQ' = inQ /\ outQ' = outQ /\ cancelled' = cancelled
         /\ \A u \in Threads : Same(u)
<1>0. PICK v : v = Head(agenda).cv
  OBVIOUS
<1>1. agenda # <<>> /\ Head(agenda).do = "set"
  BY DEF SetCVar
<1>2. TypeOK /\ ThreadsInv /\ CVarsInv /\ MatchInv /\ PlacesInv
  BY DEF EventInv
<1>3. agenda \in Seq(Tasks) /\ Distinct(agenda) /\ Head(agenda) \in Tasks
  BY <1>1, <1>2, AgendaBusy DEF TypeOK, CVarsInv
<1>4. v \in CVars
  BY <1>0, <1>1, <1>3 DEF Tasks
<1>5. /\ Tail(agenda) \in Seq(Tasks) /\ Distinct(Tail(agenda))
      /\ \A w : SetsIn(agenda, w) <=> SetsIn(Tail(agenda), w) \/ v = w
      /\ \A i : WakesIn(agenda, i) <=> WakesIn(Tail(agenda), i)
      /\ \A f : ReadiesIn(agenda, f) <=> ReadiesIn(Tail(agenda), f)
      /\ ~ SetsIn(Tail(agenda), v)
  <2>1. /\ Tail(agenda) \in Seq(Tasks) /\ Distinct(Tail(agenda))
        /\ \A w : SetsIn(agenda, w) <=> SetsIn(Tail(agenda), w) \/ v = w
        /\ \A i : WakesIn(agenda, i) <=> WakesIn(Tail(agenda), i)
        /\ \A f : ReadiesIn(agenda, f) <=> ReadiesIn(Tail(agenda), f)
        /\ \A l \in DOMAIN Tail(agenda) : ~ Clash(Head(agenda), Tail(agenda)[l])
    BY <1>0, <1>1, <1>3, AgendaTail
  <2>2. ~ SetsIn(Tail(agenda), v)
    BY <1>0, <1>1, <2>1 DEF SetsIn, Clash
  <2> QED BY <2>1, <2>2
<1>6. cvars[v].state = "unset"
  <2>1. ToBeSet(v)
    BY <1>5, AgendaNow
  <2> QED BY <1>2, <1>4, <2>1 DEF CVarsInv
<1>7. /\ cvars' = [cvars EXCEPT ![v] = IsSet] /\ agenda' = Wakes(v) \o Tail(agenda)
      /\ sched' = sched /\ inQ' = inQ /\ outQ' = outQ /\ cancelled' = cancelled
      /\ ops' = ops /\ request' = request /\ pc' = pc /\ val' = val /\ choice' = choice
      /\ failed' = failed /\ matched' = matched /\ result' = result
  BY <1>0, <1>6 DEF SetCVar
<1>8. /\ Wakes(v) \in Seq(Tasks) /\ Distinct(Wakes(v))
      /\ \A k \in DOMAIN Wakes(v) : Wakes(v)[k].do = "wake"
      /\ \A w : ~ SetsIn(Wakes(v), w)
      /\ \A f : ~ ReadiesIn(Wakes(v), f)
      /\ \A i : WakesIn(Wakes(v), i) <=> In(i, cvars[v].waiting)
  <2> DEFINE q == cvars[v].waiting
  <2>1. q \in Seq(Items) /\ DOMAIN q = 1 .. Len(q) /\ Len(q) \in Nat
        /\ \A k \in DOMAIN q : q[k] \in Items
    <3>1. q \in Seq(Items)
      BY <1>2, <1>4 DEF TypeOK
    <3> HIDE DEF q
    <3> QED BY <3>1
  <2>2. Wakes(v) = [k \in DOMAIN q |-> [do |-> "wake", item |-> q[k]]]
    BY DEF Wakes
  <2> HIDE DEF q
  <2>3. \A k \in DOMAIN q : [do |-> "wake", item |-> q[k]] \in Tasks
    BY <2>1 DEF Tasks
  <2>4. Wakes(v) \in Seq(Tasks) /\ DOMAIN Wakes(v) = DOMAIN q
        /\ \A k \in DOMAIN q : Wakes(v)[k].do = "wake" /\ Wakes(v)[k].item = q[k]
    BY <2>1, <2>2, <2>3
  <2>5. Distinct(Wakes(v))
    BY <2>4 DEF Distinct, Clash
  <2>6. \A w : ~ SetsIn(Wakes(v), w)
    BY <2>4 DEF SetsIn
  <2>7. \A f : ~ ReadiesIn(Wakes(v), f)
    BY <2>4 DEF ReadiesIn
  <2>8. \A i : WakesIn(Wakes(v), i) <=> In(i, q)
    BY <2>4 DEF WakesIn, In
  <2> QED BY <2>4, <2>5, <2>6, <2>7, <2>8 DEF q
<1>9. /\ agenda' \in Seq(Tasks) /\ Distinct(agenda')
      /\ \A w : ToBeSet(w) <=> ToBeSet(w)' \/ v = w
      /\ ~ ToBeSet(v)'
      /\ \A i : ToWake(i)' <=> ToWake(i) \/ In(i, cvars[v].waiting)
      /\ \A f : Readied(f)' <=> Readied(f)
  <2> DEFINE a == Wakes(v)
             b == Tail(agenda)
  <2>1. \A k \in DOMAIN a, l \in DOMAIN b : ~ Clash(a[k], b[l])
    BY <1>8 DEF Clash
  <2> HIDE DEF a, b
  <2>2. a \in Seq(Tasks) /\ b \in Seq(Tasks) /\ Distinct(a) /\ Distinct(b)
    BY <1>5, <1>8 DEF a, b
  <2>3. /\ a \o b \in Seq(Tasks) /\ Distinct(a \o b)
        /\ \A w : SetsIn(a \o b, w) <=> SetsIn(a, w) \/ SetsIn(b, w)
        /\ \A i : WakesIn(a \o b, i) <=> WakesIn(a, i) \/ WakesIn(b, i)
        /\ \A f : ReadiesIn(a \o b, f) <=> ReadiesIn(a, f) \/ ReadiesIn(b, f)
    BY <2>1, <2>2, AgendaConcat
  <2>4. agenda' = a \o b
    BY <1>7 DEF a, b
  <2> QED BY <1>5, <1>8, <2>3, <2>4, AgendaNow DEF a, b
<1>10. /\ cvars' \in [CVars -> [state : {"none", "unset", "set"}, waiting : Seq(Items)]]
       /\ cvars'[v].state = "set" /\ cvars'[v].waiting = <<>>
       /\ \A w \in CVars : w # v => cvars'[w] = cvars[w]
  <2>1. IsSet \in [state : {"none", "unset", "set"}, waiting : Seq(Items)]
        /\ IsSet.state = "set" /\ IsSet.waiting = <<>>
    BY DEF IsSet
  <2> QED BY <1>2, <1>4, <1>7, <2>1 DEF TypeOK
<1>11. TypeOK'
  BY <1>2, <1>7, <1>9, <1>10 DEF TypeOK
<1>12. PICK M : M = {}
  OBVIOUS
<1>13. PhaseInv' /\ CommitInv' /\ \A f : Exec(f)' <=> Exec(f)
  BY <1>1, <1>7, <1>10, SectionFrame
<1>14. \A w \in CVars : Settled(w)' <=> Settled(w)
  <2> SUFFICES ASSUME NEW w \in CVars PROVE Settled(w)' <=> Settled(w)
    OBVIOUS
  <2>1. CASE w = v
    BY <1>9, <1>10, <2>1 DEF Settled
  <2>2. CASE w # v
    BY <1>9, <1>10, <2>2 DEF Settled
  <2> QED BY <2>1, <2>2
<1>15. CVarsLast
  BY <1>10 DEF CVarsLast
<1>16. Kept
  BY <1>7, <1>9, <1>10 DEF Kept, In
<1>17. Brought
  BY <1>4, <1>7, <1>9, <1>10 DEF Brought, In
<1>18. PartnersInv'
  <2>1. \A item : item.tx \notin cancelled' => \A c \in Channels :
          /\ In(item, inQ[c])' => In(item, inQ[c])
          /\ In(item, outQ[c])' => In(item, outQ[c])
    BY <1>7 DEF In
  <2> QED BY <1>7, <2>1, PartnersFrame
<1>19. \A u \in Threads : u \notin M => Same(u)
  BY <1>7, <1>9, <1>13, EntityFacts DEF Same
<1>20. \A f \in Entities : Scheduled(f)' = Scheduled(f)
  BY <1>7 DEF Scheduled
<1>21. CVarsInv'
  <2>1. Distinct(agenda)'
    BY <1>9 DEF Distinct
  <2>2. ASSUME NEW w \in CVars
        PROVE  /\ cvars'[w].state # "unset" => cvars'[w].waiting = <<>>
               /\ w[2] > ops[w[1]] => cvars'[w].state = "none"
               /\ ToBeSet(w)' => /\ cvars'[w].state = "unset"
                                 /\ \/ w = <<w[1], 0, 0>>
                                    \/ ops[w[1]] > 0 /\ w \in Nacks(w[1])
    <3>1. /\ cvars[w].state # "unset" => cvars[w].waiting = <<>>
          /\ w[2] > ops[w[1]] => cvars[w].state = "none"
          /\ ToBeSet(w) => /\ cvars[w].state = "unset"
                           /\ \/ w = <<w[1], 0, 0>>
                              \/ ops[w[1]] > 0 /\ w \in Nacks(w[1])
      BY <1>2 DEF CVarsInv
    <3>2. CASE w = v
      BY <1>6, <1>9, <1>10, <3>1, <3>2
    <3>3. CASE w # v
      BY <1>9, <1>10, <3>1, <3>3
    <3> QED BY <3>2, <3>3
  <2>3. ASSUME NEW t \in Threads
        PROVE  /\ cvars'[<<t, 0, 0>>].state # "none"
               /\ Settled(<<t, 0, 0>>)' => pc'[Main(t)] \in {"exiting", "dead"}
    <3>1. /\ cvars[<<t, 0, 0>>].state # "none" /\ <<t, 0, 0>> \in CVars
          /\ Settled(<<t, 0, 0>>) => pc[Main(t)] \in {"exiting", "dead"}
      BY <1>2, CVarFacts DEF CVarsInv
    <3> HIDE DEF Settled
    <3>2. Settled(<<t, 0, 0>>)' => Settled(<<t, 0, 0>>)
      BY <1>14, <3>1
    <3> QED BY <1>7, <1>15, <3>1, <3>2 DEF CVarsLast
  <2> QED BY <1>7, <2>1, <2>2, <2>3 DEF CVarsInv, Nacks
<1>22. MatchInv'
  BY <1>7, MatchFrame
<1>23. \A f \in Entities : IF f[1] \in M THEN Scheduled(f)' = One(Placed(f)')
                           ELSE Scheduled(f)' = Scheduled(f)
  BY <1>12, <1>20
<1>31. EventInv'
  <2> HIDE DEF Scheduled
  <2> QED BY <1>7, <1>11, <1>12, <1>13, <1>14, <1>15, <1>16, <1>17, <1>18, <1>19, <1>21, <1>22, <1>23,
          StepOk
<1>32. \A u \in Threads : Same(u)
  BY <1>12, <1>19
<1>33. ToBeSet(v)
  BY <1>5, AgendaNow
<1> QED BY <1>4, <1>7, <1>9, <1>31, <1>32, <1>33

\* Tasks that do not concern the same variable or thread do not clash.
LEMMA AgendaApart ==
  ASSUME NEW a \in Seq(Tasks), NEW b \in Seq(Tasks),
         \A v : ~ (SetsIn(a, v) /\ SetsIn(b, v)),
         \A e, f \in Entities : ReadiesIn(a, e) /\ ReadiesIn(b, f) => e[1] # f[1]
  PROVE  \A k \in DOMAIN a, l \in DOMAIN b : ~ Clash(a[k], b[l])
<1> SUFFICES ASSUME NEW k \in DOMAIN a, NEW l \in DOMAIN b, Clash(a[k], b[l]) PROVE FALSE
  OBVIOUS
<1>1. a[k] \in Tasks /\ b[l] \in Tasks
  OBVIOUS
<1>2. CASE a[k].do = "set" /\ b[l].do = "set" /\ a[k].cv = b[l].cv
  BY <1>2 DEF SetsIn
<1>3. CASE a[k].do = "ready" /\ b[l].do = "ready" /\ a[k].item.thr[1] = b[l].item.thr[1]
  <2>1. a[k].item \in Items /\ b[l].item \in Items
    BY <1>1, <1>3 DEF Tasks
  <2>2. PICK e \in Entities : e = a[k].item.thr
    BY <2>1 DEF Items
  <2>3. PICK f \in Entities : f = b[l].item.thr
    BY <2>1 DEF Items
  <2>4. ReadiesIn(a, e) /\ ReadiesIn(b, f)
    BY <1>3, <2>2, <2>3 DEF ReadiesIn
  <2> QED BY <1>3, <2>2, <2>3, <2>4
<1> QED BY <1>2, <1>3 DEF Clash

LEMMA WaitersDiffer ==
  ASSUME TypeOK, NEW t \in Threads, ops[t] > 0, OpsOk(t)
  PROVE  /\ \A i, j \in DOMAIN request[t].events : Waiter(t, i) = Waiter(t, j) => i = j
         /\ \A i \in DOMAIN request[t].events :
              /\ HasHelpers(t) => Waiter(t, i) # Main(t) /\ Waiter(t, i) = <<t, i>>
                                  /\ Waiter(t, i)[2] = i /\ Waiter(t, i)[2] # 0
              /\ ~ HasHelpers(t) => Waiter(t, i) = Main(t) /\ Waiter(t, i)[2] = 0 /\ i = 1
<1>1. \A i \in DOMAIN request[t].events : i \in 1 .. Fan /\ (~ HasHelpers(t) => i = 1)
  BY RequestFacts
<1>2. \A i \in DOMAIN request[t].events : i # 0
  BY <1>1, EntityFacts
<1> QED BY <1>1, <1>2, EntityFacts DEF Waiter

\* The tasks of the clean-up of a waiter, and the one that makes it ready.
LEMMA WakeTasksFacts ==
  ASSUME TypeOK, NEW u \in Threads, ops[u] > 0, OpsOk(u), NEW i \in DOMAIN request[u].events,
         NEW item, item = Item(u, i)
  PROVE  /\ WakeTasks(item) \in Seq(Tasks) /\ Distinct(WakeTasks(item))
         /\ \A v : SetsIn(WakeTasks(item), v) <=> SetsIn(NackTasks(u, i), v)
         /\ \A x : ~ WakesIn(WakeTasks(item), x)
         /\ \A f : ReadiesIn(WakeTasks(item), f) <=> f = item.thr
<1>1. /\ NackTasks(u, i) \in Seq(Tasks) /\ Distinct(NackTasks(u, i))
      /\ \A v : SetsIn(NackTasks(u, i), v) => request[u].nacks # {}
      /\ \A x : ~ WakesIn(NackTasks(u, i), x)
      /\ \A f : ~ ReadiesIn(NackTasks(u, i), f)
  BY NackTasksFacts
<1>2. /\ item \in Items /\ item.thr = Waiter(u, i) /\ item.thr[1] = u
      /\ item.thr[2] = 0 <=> ~ HasHelpers(u)
      /\ HasHelpers(u) => item.thr[2] = i
  BY RequestFacts, WaitersDiffer DEF Item
<1>3. PICK a : a = IF item.thr[2] = 0 THEN <<>> ELSE NackTasks(u, i)
  OBVIOUS
<1>4. /\ a \in Seq(Tasks) /\ Distinct(a)
      /\ \A v : SetsIn(a, v) <=> SetsIn(NackTasks(u, i), v)
      /\ \A x : ~ WakesIn(a, x)
      /\ \A f : ~ ReadiesIn(a, f)
  <2>1. CASE item.thr[2] = 0
    <3>1. a = <<>> /\ request[u].nacks = {}
      BY <1>2, <1>3, <2>1 DEF HasHelpers
    <3>2. a \in Seq(Tasks) /\ Distinct(a)
      BY <3>1 DEF Distinct
    <3> QED BY <1>1, <3>1, <3>2 DEF SetsIn, WakesIn, ReadiesIn
  <2>2. CASE item.thr[2] # 0
    BY <1>1, <1>3, <2>2
  <2> QED BY <2>1, <2>2
<1>5. PICK r \in Tasks : r = [do |-> "ready", item |-> item]
  BY <1>2 DEF Tasks
<1>6. PICK b : b = <<r>>
  OBVIOUS
<1>7. /\ b \in Seq(Tasks) /\ Distinct(b)
      /\ \A v : ~ SetsIn(b, v)
      /\ \A x : ~ WakesIn(b, x)
      /\ \A f : ReadiesIn(b, f) <=> f = item.thr
  <2>1. b \in Seq(Tasks) /\ DOMAIN b = {1} /\ b[1] = r
    BY <1>6
  <2>2. r.do = "ready" /\ r.item.thr = item.thr
    BY <1>5
  <2> QED BY <2>1, <2>2 DEF Distinct, SetsIn, WakesIn, ReadiesIn
<1>8. WakeTasks(item) = a \o b
  BY <1>2, <1>3, <1>5, <1>6 DEF WakeTasks
<1>9. \A k \in DOMAIN a, l \in DOMAIN b : ~ Clash(a[k], b[l])
  BY <1>4, <1>7, AgendaApart
<1>10. /\ a \o b \in Seq(Tasks) /\ Distinct(a \o b)
       /\ \A v : SetsIn(a \o b, v) <=> SetsIn(a, v) \/ SetsIn(b, v)
       /\ \A x : WakesIn(a \o b, x) <=> WakesIn(a, x) \/ WakesIn(b, x)
       /\ \A f : ReadiesIn(a \o b, f) <=> ReadiesIn(a, f) \/ ReadiesIn(b, f)
  BY <1>4, <1>7, <1>9, AgendaConcat
<1> QED BY <1>4, <1>7, <1>8, <1>10

\* A waiter whose operation is over already.
LEMMA WakeDead ==
  ASSUME EventInv, Wake, ~ Live(Head(agenda).item)
  PROVE  /\ EventInv'
         /\ \A v : ToBeSet(v)' <=> ToBeSet(v)
         /\ \A x : ToWake(x)' => ToWake(x)
         /\ \A u \in Threads : Same(u)
<1>0. PICK item : item = Head(agenda).item
  OBVIOUS
<1>1. /\ agenda # <<>> /\ Head(agenda).do = "wake" /\ agenda' = Tail(agenda)
      /\ sched' = sched /\ inQ' = inQ /\ outQ' = outQ /\ cvars' = cvars
      /\ cancelled' = cancelled /\ ops' = ops /\ request' = request /\ pc' = pc
      /\ val' = val /\ choice' = choice /\ failed' = failed /\ matched' = matched
      /\ result' = result /\ item.tx \in cancelled
  BY <1>0 DEF Wake, Live
<1>2. TypeOK /\ ThreadsInv /\ CVarsInv /\ MatchInv /\ PlacesInv
  BY DEF EventInv
<1>3. agenda \in Seq(Tasks) /\ Distinct(agenda)
  BY <1>2 DEF TypeOK, CVarsInv
<1>4. /\ Tail(agenda) \in Seq(Tasks) /\ Distinct(Tail(agenda))
      /\ \A v : SetsIn(agenda, v) <=> SetsIn(Tail(agenda), v)
      /\ \A x : WakesIn(agenda, x) <=> WakesIn(Tail(agenda), x) \/ item = x
      /\ \A f : ReadiesIn(agenda, f) <=> ReadiesIn(Tail(agenda), f)
  BY <1>0, <1>1, <1>3, AgendaTail
<1>5. /\ \A v : ToBeSet(v)' <=> ToBeSet(v)
      /\ \A x : ToWake(x) <=> ToWake(x)' \/ item = x
      /\ \A f : Readied(f)' <=> Readied(f)
  BY <1>1, <1>4, AgendaNow
<1>6. TypeOK'
  BY <1>1, <1>2, <1>4 DEF TypeOK
<1>7. PICK M : M = {}
  OBVIOUS
<1>8. PhaseInv' /\ CommitInv' /\ \A f : Exec(f)' <=> Exec(f)
  BY <1>1, SectionFrame
<1>9. \A v \in CVars : Settled(v)' <=> Settled(v)
  BY <1>1, <1>5 DEF Settled
<1>10. CVarsLast
  BY <1>1 DEF CVarsLast
<1>11. Kept
  BY <1>1, <1>5 DEF Kept, In
<1>12. Brought
  BY <1>1, <1>5 DEF Brought, In
<1>13. PartnersInv'
  <2>1. \A x : x.tx \notin cancelled' => \A c \in Channels :
          /\ In(x, inQ[c])' => In(x, inQ[c])
          /\ In(x, outQ[c])' => In(x, outQ[c])
    BY <1>1 DEF In
  <2> QED BY <1>1, <2>1, PartnersFrame
<1>14. \A u \in Threads : u \notin M => Same(u)
  BY <1>1, <1>5, <1>8, EntityFacts DEF Same
<1>15. \A f \in Entities : IF f[1] \in M THEN Scheduled(f)' = One(Placed(f)')
                           ELSE Scheduled(f)' = Scheduled(f)
  BY <1>1, <1>7 DEF Scheduled
<1>16. CVarsInv'
  <2>1. Distinct(agenda)'
    BY <1>1, <1>4 DEF Distinct
  <2>2. \A u \in Threads : Settled(<<u, 0, 0>>)' => pc'[Main(u)] \in {"exiting", "dead"}
    BY <1>1, <1>5, DeathsFrame
  <2> QED BY <1>1, <1>5, <2>1, <2>2, CVarsFrame
<1>17. MatchInv'
  BY <1>1, MatchFrame
<1>31. EventInv'
  <2> HIDE DEF Scheduled
  <2> QED BY <1>1, <1>6, <1>7, <1>8, <1>9, <1>10, <1>11, <1>12, <1>13, <1>14, <1>15, <1>16, <1>17,
          StepOk
<1>32. \A u \in Threads : Same(u)
  BY <1>7, <1>14
<1> QED BY <1>5, <1>31, <1>32

\* A waiter that is alive: it is cancelled, and its nacks and its turn are on the agenda.
LEMMA WakeLive ==
  ASSUME EventInv, Wake, Live(Head(agenda).item)
  PROVE  /\ EventInv' /\ ToWake(Head(agenda).item)
         /\ \E u \in Threads : \E i \in DOMAIN request[u].events :
              /\ Waits(u) /\ request[u].events[i].kind = "wait" /\ Head(agenda).item = Item(u, i)
              /\ \A v : ToBeSet(v)' <=> ToBeSet(v) \/ SetsIn(NackTasks(u, i), v)
              /\ \A x : ToWake(x)' => ToWake(x)
              /\ \A w \in Threads : w # u => Same(w)
<1>0. PICK item : item = Head(agenda).item
  OBVIOUS
<1>1. /\ agenda # <<>> /\ Head(agenda).do = "wake" /\ agenda' = WakeTasks(item) \o Tail(agenda)
      /\ sched' = sched /\ inQ' = inQ /\ outQ' = outQ /\ cvars' = cvars
      /\ cancelled' = cancelled \cup {item.tx} /\ ops' = ops /\ request' = request /\ pc' = pc
      /\ val' = val /\ choice' = choice /\ failed' = failed /\ matched' = matched
      /\ result' = result /\ item.tx \notin cancelled
  BY <1>0 DEF Wake, Live
<1>2. TypeOK /\ ThreadsInv /\ CVarsInv /\ MatchInv /\ PlacesInv
  BY DEF EventInv
<1>3. agenda \in Seq(Tasks) /\ Distinct(agenda)
  BY <1>2 DEF TypeOK, CVarsInv
<1>4. /\ Tail(agenda) \in Seq(Tasks) /\ Distinct(Tail(agenda))
      /\ \A v : SetsIn(agenda, v) <=> SetsIn(Tail(agenda), v)
      /\ \A x : WakesIn(agenda, x) <=> WakesIn(Tail(agenda), x) \/ item = x
      /\ \A f : ReadiesIn(agenda, f) <=> ReadiesIn(Tail(agenda), f)
  BY <1>0, <1>1, <1>3, AgendaTail
<1>5. PICK on \in CVars : LiveItem(item, "wait", on)
  <2>1. ToWake(item)
    BY <1>4, AgendaNow
  <2> QED BY <1>1, <2>1 DEF EventInv, ItemsInv, Live
<1>6. PICK u \in Threads : Waits(u) /\ \E i \in DOMAIN request[u].events :
        /\ request[u].events[i].kind = "wait" /\ item = Item(u, i) /\ pc[Waiter(u, i)] = "wait"
  BY <1>5 DEF LiveItem
<1>7. PICK i \in DOMAIN request[u].events :
        request[u].events[i].kind = "wait" /\ item = Item(u, i) /\ pc[Waiter(u, i)] = "wait"
  BY <1>6
<1>8. item.tx = Tx0(u) /\ item.thr = Waiter(u, i)
  BY <1>7 DEF Item
<1>9. /\ ops[u] > 0 /\ OpsOk(u) /\ result[Tx0(u)] = Nil /\ Tx0(u) \in Tx
      /\ \A n : ~ Loses(u, n)
      /\ \A m \in matched : Tx0(u) \notin {m[1], m[2]}
      /\ \A f \in Entities : f[1] = u =>
           /\ ~ Given(f) /\ ~ Exec(f) /\ ~ Readied(f) /\ ~ Placed(f)
           /\ f # Main(u) => pc[f] \in {"none", "send", "recv", "wait"}
  BY <1>1, <1>6, <1>8, Uncommitted
<1>10. PICK e \in Entities : e = Waiter(u, i) /\ e[1] = u /\ Event(e).kind = "wait"
  <2>1. /\ Waiter(u, i) \in Entities /\ Waiter(u, i)[1] = u
        /\ Event(Waiter(u, i)) = request[u].events[i]
    BY <1>2, <1>9, RequestFacts
  <2> QED BY <1>7, <2>1
<1>11. /\ WakeTasks(item) \in Seq(Tasks) /\ Distinct(WakeTasks(item))
       /\ \A v : SetsIn(WakeTasks(item), v) <=> SetsIn(NackTasks(u, i), v)
       /\ \A x : ~ WakesIn(WakeTasks(item), x)
       /\ \A f : ReadiesIn(WakeTasks(item), f) <=> f = e
  BY <1>2, <1>7, <1>8, <1>9, <1>10, WakeTasksFacts
<1>12. \A v : SetsIn(NackTasks(u, i), v) =>
         /\ v \in CVars /\ v[1] = u /\ v \in Nacks(u) /\ cvars[v].state = "unset" /\ ~ ToBeSet(v)
         /\ v # <<u, 0, 0>>
  BY <1>9, NackTasksUnset
<1>13. /\ agenda' \in Seq(Tasks) /\ Distinct(agenda')
       /\ \A v : ToBeSet(v)' <=> ToBeSet(v) \/ SetsIn(NackTasks(u, i), v)
       /\ \A x : ToWake(x) <=> ToWake(x)' \/ item = x
       /\ \A f : Readied(f)' <=> Readied(f) \/ f = e
  <2> DEFINE a == WakeTasks(item)
             b == Tail(agenda)
  <2>1. \A v : ~ (SetsIn(a, v) /\ SetsIn(b, v))
    BY <1>4, <1>11, <1>12, AgendaNow
  <2>2. \A f, g \in Entities : ReadiesIn(a, f) /\ ReadiesIn(b, g) => f[1] # g[1]
    BY <1>4, <1>9, <1>10, <1>11, AgendaNow
  <2>3. a \in Seq(Tasks) /\ b \in Seq(Tasks) /\ Distinct(a) /\ Distinct(b)
    BY <1>4, <1>11
  <2>4. agenda' = a \o b
    BY <1>1
  <2>5. /\ \A v : SetsIn(a, v) <=> SetsIn(NackTasks(u, i), v)
        /\ \A x : ~ WakesIn(a, x)
        /\ \A f : ReadiesIn(a, f) <=> f = e
    BY <1>11
  <2>6. /\ \A v : SetsIn(agenda, v) <=> SetsIn(b, v)
        /\ \A x : WakesIn(agenda, x) <=> WakesIn(b, x) \/ item = x
        /\ \A f : ReadiesIn(agenda, f) <=> ReadiesIn(b, f)
    BY <1>4
  <2> HIDE DEF a, b
  <2>7. \A k \in DOMAIN a, l \in DOMAIN b : ~ Clash(a[k], b[l])
    BY <2>1, <2>2, <2>3, AgendaApart
  <2>8. /\ a \o b \in Seq(Tasks) /\ Distinct(a \o b)
        /\ \A v : SetsIn(a \o b, v) <=> SetsIn(a, v) \/ SetsIn(b, v)
        /\ \A x : WakesIn(a \o b, x) <=> WakesIn(a, x) \/ WakesIn(b, x)
        /\ \A f : ReadiesIn(a \o b, f) <=> ReadiesIn(a, f) \/ ReadiesIn(b, f)
    BY <2>3, <2>7, AgendaConcat
  <2> QED BY <2>4, <2>5, <2>6, <2>8, AgendaNow
<1>14. TypeOK'
  <2>1. cancelled' \subseteq Tx
    BY <1>1, <1>2, <1>8, <1>9 DEF TypeOK
  <2> QED BY <1>1, <1>2, <1>13, <2>1 DEF TypeOK
<1>15. PICK M : M = {u}
  OBVIOUS
<1>16. PhaseInv' /\ CommitInv' /\ \A f : Exec(f)' <=> Exec(f)
  BY <1>1, SectionFrame
<1>17. \A v : Settled(v)' <=> Settled(v) \/ SetsIn(NackTasks(u, i), v)
  BY <1>1, <1>13 DEF Settled
<1>18. CVarsLast
  BY <1>1 DEF CVarsLast
<1>19. Kept
  BY <1>1, <1>13 DEF Kept, In
<1>20. Brought
  BY <1>1, <1>13 DEF Brought, In
<1>21. PartnersInv'
  <2>1. \A x : x.tx \notin cancelled' => \A c \in Channels :
          /\ In(x, inQ[c])' => In(x, inQ[c])
          /\ In(x, outQ[c])' => In(x, outQ[c])
    BY <1>1 DEF In
  <2> QED BY <1>1, <2>1, PartnersFrame
<1>22. \A w \in Threads : w \notin M => Same(w)
  <2> SUFFICES ASSUME NEW w \in Threads, w # u PROVE Same(w)
    BY <1>15
  <2>1. Tx0(w) \in cancelled' <=> Tx0(w) \in cancelled
    BY <1>1, <1>8, TxFacts
  <2> QED BY <1>1, <1>10, <1>13, <1>16, <2>1, EntityFacts DEF Same
<1>23. /\ ThreadOk(u)' /\ BlockedOk(u)'
       /\ \A f \in Entities : f[1] = u /\ f # e => ~ Given(f)' /\ ~ Placed(f)'
       /\ \A j \in DOMAIN request[u].events :
            Commits(u, j)' <=>
              e = Waiter(u, j) /\ (pc'[e] \in {"sent", "received", "return"} \/ Readied(e)')
  <2>1. \A f \in Entities : f[1] = u /\ f # e =>
          /\ ~ Exec(f)' /\ ~ Readied(f)' /\ pc'[f] = pc[f]
          /\ f # Main(u) => pc[f] \in {"none", "send", "recv", "wait"}
    BY <1>1, <1>9, <1>13, <1>16
  <2>2. Given(e)' /\ pc'[e] \in {"send", "recv", "wait", "sent", "received", "return"}
    BY <1>1, <1>7, <1>10, <1>13 DEF Given
  <2>3. /\ pc'[e] # "return" => Event(e).kind = KindOf(pc'[e])
        /\ pc'[e] \in {"sent", "received"} => Exec(e)'
        /\ Readied(e)' => pc'[e] = "wait"
    BY <1>1, <1>7, <1>10 DEF KindOf
  <2>4. /\ Event(e).kind = "recv" => \E c \in Channels : <<val'[e], Tx0(u), c>> \in matched'
        /\ Event(e).kind = "send" => \E m \in matched' : m[1] = Tx0(u)
        /\ Event(e).kind = "wait" => \A m \in matched' : Tx0(u) \notin {m[1], m[2]}
    BY <1>1, <1>9, <1>10
  <2>5. /\ ops'[u] = ops[u] /\ request'[u] = request[u] /\ Tx0(u) \in cancelled'
        /\ result'[Tx0(u)] = result[Tx0(u)]
    BY <1>1, <1>8
  <2>6. Waits(u) /\ u = e[1]
    BY <1>6, <1>10
  <2>7. \E j \in DOMAIN request[u].events : e = Waiter(u, j)
    BY <1>10
  <2> QED BY <1>14, <1>18, <2>1, <2>2, <2>3, <2>4, <2>5, <2>6, <2>7, GivenNow
<1>24. NacksOk(u)'
  <2>1. \A j \in DOMAIN request[u].events : Commits(u, j)' <=> j = i
    <3>1. \A j, k \in DOMAIN request[u].events : Waiter(u, j) = Waiter(u, k) => j = k
      BY <1>2, <1>9, WaitersDiffer
    <3>2. Readied(e)'
      BY <1>13
    <3> QED BY <1>10, <1>23, <3>1, <3>2
  <2>2. \A v \in CVars : v[1] = u => (Settled(v)' <=> Settled(v) \/ SetsIn(NackTasks(u, i), v))
    BY <1>17
  <2> QED BY <1>1, <1>9, <1>18, <2>1, <2>2, NacksSettle
<1>25. \A f \in Entities : IF f[1] \in M THEN Scheduled(f)' = One(Placed(f)')
                           ELSE Scheduled(f)' = Scheduled(f)
  <2>1. \A f \in Entities : Scheduled(f)' = Scheduled(f) /\ Scheduled(f) = One(Placed(f))
    BY <1>1, <1>2 DEF PlacesInv, Scheduled
  <2>2. ~ Placed(e)'
    BY <1>1, <1>7, <1>9, <1>10, <1>16 DEF Placed
  <2> HIDE DEF Scheduled
  <2> QED BY <1>9, <1>10, <1>15, <1>23, <2>1, <2>2 DEF One
<1>26. CVarsInv'
  <2>1. Distinct(agenda)'
    BY <1>13 DEF Distinct
  <2>2. \A t \in Threads : ToBeSet(<<t, 0, 0>>)' => ToBeSet(<<t, 0, 0>>)
    BY <1>12, <1>13
  <2>3. \A t \in Threads : Settled(<<t, 0, 0>>)' => pc'[Main(t)] \in {"exiting", "dead"}
    BY <1>1, <2>2, DeathsFrame
  <2>4. \A v \in CVars : ToBeSet(v)' =>
          ToBeSet(v) \/ (cvars[v].state = "unset" /\ ops[v[1]] > 0 /\ v \in Nacks(v[1]))
    BY <1>9, <1>12, <1>13
  <2> QED BY <1>1, <2>1, <2>3, <2>4, CVarsFrame
<1>27. MatchInv'
  <2>1. Tx0(u)[2] = ops[Tx0(u)[1]] /\ ops[u] \in Nat
    BY <1>2, TxFacts, EntityFacts DEF TypeOK
  <2>2. \A x \in cancelled' : x \in cancelled \/ x[2] <= ops[x[1]]
    <3>1. Tx0(u)[2] <= ops[Tx0(u)[1]]
      BY <2>1, TxFacts
    <3> QED BY <1>1, <1>8, <3>1
  <2> QED BY <1>1, <2>2, MatchFrame
<1>28. \A v \in CVars : v[1] \notin M => (Settled(v)' <=> Settled(v))
  BY <1>12, <1>15, <1>17
<1>29. \A w \in Threads : w \in M => /\ ThreadOk(w)' /\ BlockedOk(w)' /\ NacksOk(w)'
                                     /\ (Waits(w) => Tx0(w) \in cancelled')
  BY <1>1, <1>8, <1>15, <1>23, <1>24
<1>31. EventInv'
  <2> HIDE DEF Scheduled
  <2> QED BY <1>1, <1>14, <1>15, <1>16, <1>18, <1>19, <1>20, <1>21, <1>22, <1>25, <1>26, <1>27,
            <1>28, <1>29, StepOk
<1>32. ToWake(item)
  BY <1>4, AgendaNow
<1>33. \A w \in Threads : w # u => Same(w)
  BY <1>15, <1>22
<1> QED BY <1>0, <1>6, <1>7, <1>13, <1>31, <1>32, <1>33

-----------------------------------------------------------------------------
(***************************************************************************)
(* A rendezvous.                                                           *)
(***************************************************************************)
\* The current thread gives the processor, and its critical section, to x; in the first
\* case it is ready.
LEMMA PlacesHandOver ==
  ASSUME NEW T, NEW s \in SchedulerStates(T), NEW x \in T, s.cur \in T, s.atomic = 1
  PROVE  /\ readyAndSwitch(s, x) \in SchedulerStates(T)
         /\ readyAndSwitch(s, x).atomic = 1 /\ readyAndSwitch(s, x).cur = x
         /\ \A f : Places(readyAndSwitch(s, x), f) = Places(s, f) + One(x = f)
         /\ switch(s, x) \in SchedulerStates(T)
         /\ switch(s, x).atomic = 1 /\ switch(s, x).cur = x
         /\ \A f : Places(switch(s, x), f) = Places(s, f) - One(s.cur = f) + One(x = f)
<1> DEFINE b == atomicBegin(s)
           r == ready(b, s.cur)
<1>1. /\ b \in SchedulerStates(T) /\ b.atomic = 2 /\ b.cur = s.cur
      /\ \A f : Places(b, f) = Places(s, f)
  BY PlacesBegin
<1> HIDE DEF b
<1>2. /\ r \in SchedulerStates(T) /\ r.atomic = 2 /\ r.cur = s.cur
      /\ \A f : Places(r, f) = Places(s, f) + One(s.cur = f)
  BY <1>1, PlacesReady
<1>3. readyAndSwitch(s, x) = atomicSwitch(r, x) /\ switch(s, x) = atomicSwitch(b, x)
  BY <1>1 DEF readyAndSwitch, atomicReadyAndSwitch, switch, b
<1> HIDE DEF r
<1>4. /\ switch(s, x) \in SchedulerStates(T) /\ switch(s, x).atomic = b.atomic - 1
      /\ switch(s, x).cur = x
      /\ \A f : Places(switch(s, x), f) = Places(b, f) - One(b.cur = f) + One(x = f)
  BY <1>1, <1>3, PlacesSwitch
<1>5. /\ readyAndSwitch(s, x) \in SchedulerStates(T)
      /\ readyAndSwitch(s, x).atomic = r.atomic - 1
      /\ readyAndSwitch(s, x).cur = x
      /\ \A f : Places(readyAndSwitch(s, x), f) = Places(r, f) - One(r.cur = f) + One(x = f)
  BY <1>2, <1>3, PlacesSwitch
<1>6. \A f : Places(readyAndSwitch(s, x), f) = Places(s, f) + One(x = f)
  <2> SUFFICES ASSUME NEW f
               PROVE  Places(readyAndSwitch(s, x), f) = Places(s, f) + One(x = f)
    OBVIOUS
  <2>1. Places(readyAndSwitch(s, x), f) = (Places(s, f) + One(s.cur = f)) - One(s.cur = f) + One(x = f)
    BY <1>2, <1>5
  <2>2. Places(s, f) \in Nat /\ One(s.cur = f) \in Nat /\ One(x = f) \in Nat
    BY PlacesType DEF One
  <2>3. PICK k \in Nat, l \in Nat, m \in Nat :
          k = Places(s, f) /\ l = One(s.cur = f) /\ m = One(x = f)
    BY <2>2
  <2>4. (k + l) - l + m = k + m
    OBVIOUS
  <2> QED BY <2>1, <2>3, <2>4
<1>7. \A f : Places(switch(s, x), f) = Places(s, f) - One(s.cur = f) + One(x = f)
  BY <1>1, <1>4
<1>8. switch(s, x).atomic = 1 /\ readyAndSwitch(s, x).atomic = 1
  BY <1>1, <1>2, <1>4, <1>5
<1> QED BY <1>4, <1>5, <1>6, <1>7, <1>8

\* The partner leaves its queue.
LEMMA HeadFacts ==
  ASSUME NEW q \in Seq(Items), q # <<>>
  PROVE  /\ Head(q) \in Items /\ Tail(q) \in Seq(Items) /\ In(Head(q), q)
         /\ \A x : In(x, q) <=> x = Head(q) \/ In(x, Tail(q))
<1> DEFINE n == Len(q)
           r == Tail(q)
<1>1. /\ n \in Nat \ {0} /\ DOMAIN q = 1 .. n /\ DOMAIN r = 1 .. n - 1
      /\ \A i \in 1 .. n - 1 : r[i] = q[i + 1]
      /\ Head(q) = q[1] /\ Head(q) \in Items /\ r \in Seq(Items)
  OBVIOUS
<1>2. \A k \in DOMAIN r : k + 1 \in DOMAIN q /\ q[k + 1] = r[k]
  BY <1>1
<1>3. \A k \in DOMAIN q : k = 1 \/ (k - 1 \in DOMAIN r /\ q[k] = r[k - 1])
  BY <1>1
<1>4. 1 \in DOMAIN q
  BY <1>1
<1> QED BY <1>1, <1>2, <1>3, <1>4 DEF In

\* Taking the head of a queue and cancelling it.
LEMMA TakesPartner ==
  ASSUME EventInv, NEW q, NEW c \in Channels, NEW item, q # <<>>, item = Head(q),
         \/ q = inQ[c] /\ inQ' = [inQ EXCEPT ![c] = Tail(q)] /\ outQ' = outQ
         \/ q = outQ[c] /\ outQ' = [outQ EXCEPT ![c] = Tail(q)] /\ inQ' = inQ,
         cancelled' = cancelled \cup {item.tx}, cvars' = cvars, agenda' = agenda
  PROVE  /\ Kept /\ Brought /\ PartnersInv' /\ CVarsLast
         /\ inQ' \in [Channels -> Seq(Items)] /\ outQ' \in [Channels -> Seq(Items)]
<1>1. inQ \in [Channels -> Seq(Items)] /\ outQ \in [Channels -> Seq(Items)]
  BY DEF EventInv, TypeOK
<1>2. q \in Seq(Items)
  BY <1>1
<1>3. /\ Tail(q) \in Seq(Items)
      /\ \A x : In(x, q) <=> x = item \/ In(x, Tail(q))
  BY <1>2, HeadFacts
<1>4. inQ' \in [Channels -> Seq(Items)] /\ outQ' \in [Channels -> Seq(Items)]
  BY <1>1, <1>3
<1>5. \A x : \A d \in Channels :
        /\ In(x, inQ'[d]) => In(x, inQ[d])
        /\ In(x, outQ'[d]) => In(x, outQ[d])
        /\ x # item /\ In(x, inQ[d]) => In(x, inQ'[d])
        /\ x # item /\ In(x, outQ[d]) => In(x, outQ'[d])
  BY <1>1, <1>3
<1>6. \A x : \A d \in Channels : (In(x, inQ[d])' <=> In(x, inQ'[d]))
                              /\ (In(x, outQ[d])' <=> In(x, outQ'[d]))
  BY DEF In
<1>7. \A x : x.tx \notin cancelled' => x # item
  OBVIOUS
<1>8. /\ \A x : ToWake(x)' <=> ToWake(x)
      /\ \A x : \A v \in CVars : In(x, cvars[v].waiting)' <=> In(x, cvars[v].waiting)
  BY DEF ToWake, In
<1> HIDE DEF In, ToWake
<1>9. Kept
  BY <1>5, <1>6, <1>7, <1>8 DEF Kept
<1>10. Brought
  BY <1>5, <1>6, <1>8 DEF Brought
<1>11. PartnersInv'
  BY <1>5, <1>6, PartnersFrame
<1> QED BY <1>4, <1>9, <1>10, <1>11 DEF CVarsLast

\* Two operations that have met nobody meet.
LEMMA MeetFrame ==
  ASSUME EventInv, NEW t \in Threads, NEW u \in Threads, t # u, ops' = ops,
         cancelled' = cancelled \cup {Tx0(u)}, NEW m, matched' = matched \cup {m},
         (m[1] = Tx0(t) /\ m[2] = Tx0(u)) \/ (m[1] = Tx0(u) /\ m[2] = Tx0(t)),
         \A n \in matched : Tx0(t) \notin {n[1], n[2]} /\ Tx0(u) \notin {n[1], n[2]},
         \A x \in Tx : result'[x] = result[x] \/ x[2] = ops[x[1]]
  PROVE  MatchInv'
<1>1. MatchInv /\ TypeOK
  BY DEF EventInv
<1>2. /\ Tx0(t)[2] <= ops[Tx0(t)[1]] /\ Tx0(u)[2] <= ops[Tx0(u)[1]] /\ Tx0(t) # Tx0(u)
  <2>1. ops[t] \in Nat /\ ops[u] \in Nat
    BY <1>1, EntityFacts DEF TypeOK
  <2> QED BY <2>1, TxFacts
<1>3. \A x \in cancelled' : x[2] <= ops[x[1]]
  BY <1>1, <1>2 DEF MatchInv
<1>4. \A x \in Tx : x[2] > ops[x[1]] => result'[x] = Nil
  <2> SUFFICES ASSUME NEW x \in Tx, x[2] > ops[x[1]] PROVE result'[x] = Nil
    OBVIOUS
  <2>1. x[2] # ops[x[1]]
    BY TxFacts, <1>1 DEF TypeOK
  <2> QED BY <1>1, <2>1 DEF MatchInv
<1>5. \A n \in matched' : n[1][2] <= ops[n[1][1]] /\ n[2][2] <= ops[n[2][1]] /\ n[1] # n[2]
  BY <1>1, <1>2 DEF MatchInv
<1>6. \A n \in matched : {m[1], m[2]} \cap {n[1], n[2]} = {}
  OBVIOUS
<1>7. \A k, n \in matched' : {k[1], k[2]} \cap {n[1], n[2]} # {} => k = n
  <2>1. \A k, n \in matched : {k[1], k[2]} \cap {n[1], n[2]} # {} => k = n
    BY <1>1 DEF MatchInv
  <2> QED BY <1>6, <2>1
<1> QED BY <1>3, <1>4, <1>5, <1>7 DEF MatchInv

\* The partner of a rendezvous, a thread or one of its helpers, has the critical section.
LEMMA PartnerOk ==
  ASSUME EventInv, TypeOK', NEW u \in Threads, Waits(u), Tx0(u) \notin cancelled,
         Tx0(u) \in cancelled', NEW e \in Entities, e[1] = u,
         \E i \in DOMAIN request[u].events : e = Waiter(u, i),
         NEW kind \in {"send", "recv"}, Event(e).kind = kind, pc[e] = kind,
         \A f \in Entities : f[1] = u => pc'[f] = pc[f],
         \A f : Exec(f)' <=> f = e, \A f : ~ Readied(f)',
         ops'[u] = ops[u], request'[u] = request[u], CVarsLast,
         result'[Tx0(u)] = result[Tx0(u)],
         kind = "recv" => \E c \in Channels : <<val'[e], Tx0(u), c>> \in matched',
         kind = "send" => \E m \in matched' : m[1] = Tx0(u),
         \A v \in CVars : v[1] = u => (Settled(v)' <=> Settled(v))
  PROVE  /\ ThreadOk(u)' /\ BlockedOk(u)' /\ NacksOk(u)' /\ Placed(e)'
         /\ \A f \in Entities : f[1] = u => ~ Placed(f) /\ (f # e => ~ Placed(f)')
<1>1. /\ ops[u] > 0 /\ OpsOk(u) /\ result[Tx0(u)] = Nil
      /\ \A n : ~ Loses(u, n)
      /\ \A f \in Entities : f[1] = u =>
           /\ ~ Given(f) /\ ~ Exec(f) /\ ~ Readied(f) /\ ~ Placed(f)
           /\ f # Main(u) => pc[f] \in {"none", "send", "recv", "wait"}
  BY Uncommitted
<1>2. pc'[e] = kind /\ KindOf(kind) = kind
  BY DEF KindOf
<1>3. /\ ThreadOk(u)' /\ BlockedOk(u)'
      /\ \A f \in Entities : f[1] = u /\ f # e => ~ Given(f)' /\ ~ Placed(f)'
      /\ \A i \in DOMAIN request[u].events :
           Commits(u, i)' <=>
             e = Waiter(u, i) /\ (pc'[e] \in {"sent", "received", "return"} \/ Readied(e)')
  <2>1. Given(e)' /\ pc'[e] \in {"send", "recv", "wait", "sent", "received", "return"}
    BY <1>2 DEF Given
  <2>2. /\ pc'[e] # "return" => Event(e).kind = KindOf(pc'[e])
        /\ pc'[e] \in {"sent", "received"} => Exec(e)'
        /\ Readied(e)' => pc'[e] = "wait"
    BY <1>2
  <2>3. \A f \in Entities : f[1] = u /\ f # e =>
          /\ ~ Exec(f)' /\ ~ Readied(f)' /\ pc'[f] = pc[f]
          /\ f # Main(u) => pc[f] \in {"none", "send", "recv", "wait"}
    BY <1>1
  <2>4. /\ Event(e).kind = "recv" => \E c \in Channels : <<val'[e], Tx0(u), c>> \in matched'
        /\ Event(e).kind = "send" => \E m \in matched' : m[1] = Tx0(u)
        /\ Event(e).kind = "wait" => \A m \in matched' : Tx0(u) \notin {m[1], m[2]}
    OBVIOUS
  <2> QED BY <2>1, <2>2, <2>3, <2>4, GivenNow
<1>4. Placed(e)'
  BY DEF Placed
<1>5. NacksOk(u)'
  <2>1. \A i \in DOMAIN request[u].events : ~ Commits(u, i)'
    BY <1>2, <1>3
  <2>2. \A n : Loses(u, n)' <=> Loses(u, n)
    BY <1>1, <2>1 DEF Loses
  <2> QED BY <2>2, NacksStay
<1> QED BY <1>1, <1>3, <1>4, <1>5

\* Whom the head of a queue belongs to.
LEMMA PartnerFound ==
  ASSUME EventInv, NEW item, item.tx \notin cancelled, NEW kind \in {"send", "recv"},
         NEW c \in Channels, LiveItem(item, kind, c)
  PROVE  \E u \in Threads : \E e \in Entities :
           /\ Waits(u) /\ Tx0(u) \notin cancelled /\ e[1] = u
           /\ item.tx = Tx0(u) /\ item.thr = e /\ pc[e] = kind /\ Event(e).kind = kind
           /\ \E i \in DOMAIN request[u].events : e = Waiter(u, i)
<1>1. PICK u \in Threads : Waits(u) /\ \E i \in DOMAIN request[u].events :
        /\ request[u].events[i].kind = kind
        /\ item = Item(u, i) /\ pc[Waiter(u, i)] = kind
  BY DEF LiveItem
<1>2. PICK i \in DOMAIN request[u].events :
        /\ request[u].events[i].kind = kind
        /\ item = Item(u, i) /\ pc[Waiter(u, i)] = kind
  BY <1>1
<1>3. item.tx = Tx0(u) /\ item.thr = Waiter(u, i)
  BY <1>2 DEF Item
<1>4. ops[u] > 0 /\ OpsOk(u)
  BY <1>1, <1>3, Uncommitted
<1>5. PICK e \in Entities : e = Waiter(u, i) /\ e[1] = u /\ Event(e) = request[u].events[i]
  <2>1. /\ Waiter(u, i) \in Entities /\ Waiter(u, i)[1] = u
        /\ Event(Waiter(u, i)) = request[u].events[i]
    BY <1>4, RequestFacts DEF EventInv
  <2> QED BY <2>1
<1> QED BY <1>1, <1>2, <1>3, <1>5

LEMMA DoSendStep ==
  ASSUME EventInv, NEW t \in Threads, NEW c \in Channels, DoSend(t, c)
  PROVE  EventInv'
<1>0. PICK item : item = Head(inQ[c])
  OBVIOUS
<1>1. CASE Fails(item)
  <2>1. Fail
    BY <1>0, <1>1 DEF DoSend
  <2> QED BY <2>1, FailStep
<1>2. CASE ~ Fails(item)
  <2>1. /\ sched.cur = Main(t) /\ pc[Main(t)] = "choice" /\ sched.atomic = 1 /\ agenda = <<>>
        /\ Event(<<t, choice>>).kind = "send" /\ Event(<<t, choice>>).on = c
        /\ inQ' = [inQ EXCEPT ![c] = Tail(inQ[c])] /\ outQ' = outQ /\ cvars' = cvars
        /\ cancelled' = cancelled \cup {item.tx} /\ ops' = ops /\ request' = request
        /\ val' = [val EXCEPT ![item.thr] = Tx0(t)]
        /\ pc' = [pc EXCEPT ![Main(t)] = "run"] /\ choice' = 0
        /\ sched' = readyAndSwitch(sched, item.thr)
        /\ matched' = matched \cup {<<Tx0(t), item.tx, c>>}
        /\ result' = [result EXCEPT ![Tx0(t)] = [event |-> choice, val |-> Nil]]
        /\ agenda' = agenda /\ failed' = failed /\ item.tx \notin cancelled
    BY <1>0, <1>2 DEF DoSend, Runs, Return, Fails, Live
  <2>2. TypeOK /\ ThreadsInv /\ CVarsInv /\ MatchInv /\ PlacesInv /\ CommitInv
    BY DEF EventInv
  <2>3. /\ choice \in DOMAIN request[t].events /\ choice \in 1 .. Fan
        /\ Event(<<t, choice>>) = request[t].events[choice]
        /\ ~ Idles(t) /\ ~ Waits(t) /\ ops[t] > 0 /\ result[Tx0(t)] = Nil /\ Tx0(t) \in Tx
        /\ \A i \in DOMAIN request[t].events : Commits(t, i) <=> i = choice
        /\ \A f \in Entities : f[1] = t => ~ Given(f)
        /\ \A f \in Entities : f[1] = t /\ f # Main(t) =>
             ~ Exec(f) /\ ~ Placed(f) /\ pc[f] \in {"none", "send", "recv", "wait"}
    BY <2>1, CommitsChoice
  <2>4. inQ[c] # <<>> /\ inQ[c] \in Seq(Items)
    <3>1. ChoiceOk(t)
      BY <2>1, <2>2 DEF CommitInv
    <3>2. PICK ev : ev = request[t].events[choice]
      OBVIOUS
    <3>3. ev.kind = "send" /\ ev.on = c
      BY <2>1, <2>3, <3>2
    <3>4. ev.kind = "send" => inQ[ev.on] # <<>>
      BY <3>1, <3>2 DEF ChoiceOk
    <3> QED BY <2>2, <3>3, <3>4 DEF TypeOK
  <2>5. LiveItem(item, "recv", c)
    <3>1. In(item, inQ[c])
      BY <1>0, <2>4, HeadFacts
    <3> QED BY <2>1, <3>1 DEF EventInv, ItemsInv, Live
  <2>6. PICK u \in Threads : \E e \in Entities :
          /\ Waits(u) /\ Tx0(u) \notin cancelled /\ e[1] = u
          /\ item.tx = Tx0(u) /\ item.thr = e /\ pc[e] = "recv" /\ Event(e).kind = "recv"
          /\ \E i \in DOMAIN request[u].events : e = Waiter(u, i)
    BY <2>1, <2>5, PartnerFound
  <2>7. PICK e \in Entities :
          /\ Waits(u) /\ Tx0(u) \notin cancelled /\ e[1] = u
          /\ item.tx = Tx0(u) /\ item.thr = e /\ pc[e] = "recv" /\ Event(e).kind = "recv"
          /\ \E i \in DOMAIN request[u].events : e = Waiter(u, i)
    BY <2>6
  <2>8. t # u /\ Tx0(t) # Tx0(u) /\ Main(t) \in Entities /\ Main(t)[1] = t /\ Main(t) # e
        /\ Tx0(u) \in Tx
    BY <2>3, <2>7, TxFacts, EntityFacts, Uncommitted
  <2>9. /\ pc'[Main(t)] = "run" /\ \A f \in Entities : f # Main(t) => pc'[f] = pc[f]
        /\ pc' \in [Entities -> Points]
    BY <2>1, <2>2, <2>8 DEF TypeOK, Points
  <2>10. /\ val'[e] = Tx0(t) /\ \A f \in Entities : f # e => val'[f] = val[f]
         /\ val' \in [Entities -> Entities \cup Tx \cup {Nil}]
    BY <2>1, <2>2, <2>3, <2>7 DEF TypeOK
  <2>11. /\ result'[Tx0(t)] = [event |-> choice, val |-> Nil] /\ result'[Tx0(t)] # Nil
         /\ \A x \in Tx : x # Tx0(t) => result'[x] = result[x]
         /\ result' \in [Tx -> {Nil} \cup [event : 0 .. Fan, val : Tx \cup {Nil}]]
         /\ \A w \in Threads : w # t => result'[Tx0(w)] = result[Tx0(w)]
    <3>1. choice \in 0 .. Fan /\ Fan \in Nat
      BY <2>3, EntityFacts
    <3>2. [event |-> choice, val |-> Nil] # Nil
      BY <3>1, RequestsAssumption
    <3>3. \A w \in Threads : w # t => Tx0(w) # Tx0(t)
      BY TxFacts
    <3> QED BY <2>1, <2>2, <2>3, <3>1, <3>2, <3>3 DEF TypeOK
  <2>12. /\ sched' \in SchedulerStates(Entities) /\ sched'.atomic = 1 /\ sched'.cur = e
         /\ \A f : Scheduled(f)' = Scheduled(f) + One(e = f)
    <3>1. sched \in SchedulerStates(Entities) /\ sched.cur \in Entities /\ sched.atomic = 1
      BY <2>1, <2>2, <2>8 DEF TypeOK
    <3>2. sched' = readyAndSwitch(sched, e)
      BY <2>1, <2>7
    <3> QED BY <3>1, <3>2, PlacesHandOver DEF Scheduled
  <2>13. /\ Kept /\ Brought /\ PartnersInv' /\ CVarsLast
         /\ inQ' \in [Channels -> Seq(Items)] /\ outQ' \in [Channels -> Seq(Items)]
    BY <1>0, <2>1, <2>4, TakesPartner
  <2>14. TypeOK'
    <3>1. \A f \in Entities : f[2] = 0 => pc'[f] \notin {"none", "return"}
      BY <2>2, <2>9, EntityFacts DEF TypeOK
    <3>2. choice' \in 0 .. Fan /\ sched'.atomic \in 0 .. 1
      BY <2>1, <2>12, EntityFacts
    <3>3. cancelled' \subseteq Tx /\ matched' \subseteq Tx \X Tx \X Channels
      BY <2>1, <2>2, <2>3, <2>7, <2>8 DEF TypeOK
    <3> QED BY <2>1, <2>2, <2>9, <2>10, <2>11, <2>12, <2>13, <3>1, <3>2, <3>3 DEF TypeOK
  <2>15. PICK M : M = {t, u}
    OBVIOUS
  <2>16. \A w \in Threads : w \notin M =>
           /\ pc[Main(w)] \notin {"choice", "reply", "exiting"}
           /\ \A f \in Entities : f[1] = w => ~ Exec(f)
    <3>1. sched.cur[1] \in M /\ pc[sched.cur] \notin {"send", "sent"}
      BY <2>1, <2>8, <2>15
    <3> QED BY <2>1, <3>1, OthersAside
  <2>17. /\ \A f : Exec(f)' <=> f = e
         /\ \A f : ~ Readied(f) /\ ~ Readied(f)'
         /\ \A v : ~ ToBeSet(v) /\ ~ ToBeSet(v)'
         /\ \A x : ~ ToWake(x) /\ ~ ToWake(x)'
    <3>1. \A f : Exec(f)' <=> f = e
      BY <2>12 DEF Exec
    <3> QED BY <2>1, <3>1, NothingToDo
  <2>18. \A v \in CVars : Settled(v)' <=> Settled(v)
    BY <2>1, <2>17 DEF Settled
  <2>19. PhaseInv' /\ CommitInv'
    <3>1. pc'[e] = "recv" /\ agenda' = <<>>
      BY <2>1, <2>7, <2>8, <2>9
    <3>2. PhaseInv'
      BY <2>12, <3>1 DEF PhaseInv
    <3>3. \A w \in Threads : pc'[Main(w)] \notin {"choice", "reply"}
      <4> SUFFICES ASSUME NEW w \in Threads PROVE pc'[Main(w)] \notin {"choice", "reply"}
        OBVIOUS
      <4>1. CASE w = t
        BY <2>9, <4>1
      <4>2. CASE w # t
        <5>1. pc'[Main(w)] = pc[Main(w)]
          BY <2>9, <4>2, EntityFacts
        <5>2. pc[Main(u)] \notin {"choice", "reply"}
          BY <2>7 DEF Waits
        <5> QED BY <2>15, <2>16, <4>2, <5>1, <5>2
      <4> QED BY <4>1, <4>2
    <3> QED BY <3>2, <3>3 DEF CommitInv
  <2>20. \A w \in Threads : w \notin M => Same(w)
    <3> SUFFICES ASSUME NEW w \in Threads, w # t, w # u PROVE Same(w)
      BY <2>15
    <3>1. Tx0(w) \in cancelled' <=> Tx0(w) \in cancelled
      BY <2>1, <2>7, TxFacts
    <3>2. \A f \in Entities : f[1] = w => /\ pc'[f] = pc[f] /\ val'[f] = val[f]
                                          /\ ~ Exec(f)' /\ ~ Exec(f)
      BY <2>7, <2>8, <2>9, <2>10, <2>15, <2>16, <2>17
    <3>3. pc[Main(w)] \notin {"choice", "reply"}
      BY <2>15, <2>16
    <3> QED BY <2>1, <2>11, <2>17, <3>1, <3>2, <3>3 DEF Same
  <2>21. /\ ThreadOk(t)' /\ BlockedOk(t)' /\ NacksOk(t)'
         /\ \A f \in Entities : f[1] = t /\ f # Main(t) => ~ Placed(f)'
         /\ Placed(Main(t))'
    <3>1. result'[Tx0(t)].event = choice /\ result'[Tx0(t)] # Nil
      BY <2>11
    <3>2. \A f \in Entities : f[1] = t /\ f # Main(t) =>
            ~ Exec(f)' /\ pc'[f] \in {"none", "send", "recv", "wait"}
      BY <2>3, <2>7, <2>8, <2>9, <2>17
    <3>3. /\ \A f \in Entities : f[1] = t => ~ Readied(f)'
          /\ ops'[t] = ops[t] /\ request'[t] = request[t]
          /\ pc'[Main(t)] = "run" /\ ~ Idles(t) /\ CVarsLast
      BY <2>1, <2>3, <2>9, <2>13, <2>17
    <3>4. \A v \in CVars : v[1] = t => (Settled(v)' <=> Settled(v))
      BY <2>18
    <3>5. \A i \in DOMAIN request[t].events : Commits(t, i) <=> i = choice
      BY <2>3
    <3>6. PICK k : k = choice
      OBVIOUS
    <3> QED BY <2>14, <3>1, <3>2, <3>3, <3>4, <3>5, <3>6, ReturnsOk
  <2>22. /\ ThreadOk(u)' /\ BlockedOk(u)' /\ NacksOk(u)' /\ Placed(e)'
         /\ \A f \in Entities : f[1] = u => ~ Placed(f) /\ (f # e => ~ Placed(f)')
    <3>1. \A f \in Entities : f[1] = u => pc'[f] = pc[f]
      BY <2>8, <2>9
    <3>2. \E d \in Channels : <<val'[e], Tx0(u), d>> \in matched'
      BY <2>1, <2>7, <2>10
    <3>3. \A v \in CVars : v[1] = u => (Settled(v)' <=> Settled(v))
      BY <2>18
    <3>4. ops'[u] = ops[u] /\ request'[u] = request[u] /\ result'[Tx0(u)] = result[Tx0(u)]
          /\ Tx0(u) \in cancelled' /\ CVarsLast
      BY <2>1, <2>7, <2>8, <2>11, <2>13
    <3>5. /\ \A f : Exec(f)' <=> f = e
          /\ \A f : ~ Readied(f)'
      BY <2>17
    <3>6. PICK kind \in {"send", "recv"} : kind = "recv"
      OBVIOUS
    <3>7. Event(e).kind = kind /\ pc[e] = kind /\ kind # "send"
          /\ \E i \in DOMAIN request[u].events : e = Waiter(u, i)
      BY <2>7, <3>6
    <3> QED BY <2>7, <2>14, <3>1, <3>2, <3>3, <3>4, <3>5, <3>7, PartnerOk
  <2>23. \A f \in Entities : IF f[1] \in M THEN Scheduled(f)' = One(Placed(f)')
                             ELSE Scheduled(f)' = Scheduled(f)
    <3>1. \A f \in Entities : Scheduled(f) = One(Placed(f))
      BY <2>2 DEF PlacesInv
    <3>2. Placed(Main(t))
      BY <2>1 DEF Placed
    <3> HIDE DEF Scheduled
    <3>3. ASSUME NEW f \in Entities, f[1] = t PROVE Scheduled(f)' = One(Placed(f)')
      <4>1. CASE f = Main(t)
        BY <2>8, <2>12, <2>21, <3>1, <3>2, <4>1 DEF One
      <4>2. CASE f # Main(t)
        BY <2>3, <2>7, <2>8, <2>12, <2>21, <3>1, <3>3, <4>2 DEF One
      <4> QED BY <4>1, <4>2
    <3>4. ASSUME NEW f \in Entities, f[1] = u PROVE Scheduled(f)' = One(Placed(f)')
      BY <2>12, <2>22, <3>1, <3>4 DEF One
    <3>5. ASSUME NEW f \in Entities, f[1] \notin M PROVE Scheduled(f)' = Scheduled(f)
      <4>1. f # e
        BY <2>7, <2>15, <3>5
      <4> QED BY <2>12, <3>1, <4>1 DEF One
    <3> QED BY <2>15, <3>3, <3>4, <3>5
  <2>24. CVarsInv'
    <3>1. Distinct(agenda)'
      BY <2>1, <2>2 DEF CVarsInv, Distinct
    <3>2. \A w \in Threads : pc[Main(w)] \in {"exiting", "dead"} => pc'[Main(w)] \in {"exiting", "dead"}
      BY <2>1, <2>9, EntityFacts
    <3>3. \A w \in Threads : Settled(<<w, 0, 0>>)' => pc'[Main(w)] \in {"exiting", "dead"}
      BY <2>1, <2>17, <3>2, DeathsFrame
    <3> QED BY <2>1, <2>17, <3>1, <3>3, CVarsFrame
  <2>25. \A n \in matched : Tx0(t) \notin {n[1], n[2]} /\ Tx0(u) \notin {n[1], n[2]}
    <3>1. \A n \in matched : Tx0(t) \notin {n[1], n[2]}
      BY <2>1, <2>3, Unmet
    <3>2. \A n \in matched : Tx0(u) \notin {n[1], n[2]}
      BY <2>7, Uncommitted
    <3> QED BY <3>1, <3>2
  <2>26. PICK m : m = <<Tx0(t), Tx0(u), c>>
    OBVIOUS
  <2>27. matched' = matched \cup {m} /\ m[1] = Tx0(t) /\ m[2] = Tx0(u)
    BY <2>1, <2>7, <2>26
  <2>28. MatchInv'
    <3>1. \A x \in Tx : result'[x] = result[x] \/ x[2] = ops[x[1]]
      BY <2>11, TxFacts
    <3>2. cancelled' = cancelled \cup {Tx0(u)} /\ ops' = ops
      BY <2>1, <2>7
    <3>3. t # u
      BY <2>8
    <3>4. matched' = matched \cup {m}
      BY <2>27
    <3>5. (m[1] = Tx0(t) /\ m[2] = Tx0(u)) \/ (m[1] = Tx0(u) /\ m[2] = Tx0(t))
      BY <2>27
    <3> QED BY <2>25, <3>1, <3>2, <3>3, <3>4, <3>5, MeetFrame
  <2>29. /\ matched \subseteq matched' /\ cancelled \subseteq cancelled'
         /\ \A n \in matched' : n \notin matched => n[1][1] \in M /\ n[2][1] \in M
    BY <2>1, <2>15, <2>27, TxFacts
  <2>30. \A w \in Threads : w \in M => /\ ThreadOk(w)' /\ BlockedOk(w)' /\ NacksOk(w)'
                                       /\ (Waits(w) => Tx0(w) \in cancelled')
    BY <2>1, <2>3, <2>7, <2>15, <2>21, <2>22
  <2> HIDE DEF Scheduled
  <2> QED BY <2>13, <2>14, <2>18, <2>19, <2>20, <2>23, <2>24, <2>28, <2>29, <2>30, StepOk
<1> QED BY <1>1, <1>2

LEMMA DoRecvStep ==
  ASSUME EventInv, NEW t \in Threads, NEW c \in Channels, DoRecv(t, c)
  PROVE  EventInv'
<1>0. PICK item : item = Head(outQ[c])
  OBVIOUS
<1>1. CASE Fails(item)
  <2>1. Fail
    BY <1>0, <1>1 DEF DoRecv
  <2> QED BY <2>1, FailStep
<1>2. CASE ~ Fails(item)
  <2>1. /\ sched.cur = Main(t) /\ pc[Main(t)] = "choice" /\ sched.atomic = 1 /\ agenda = <<>>
        /\ Event(<<t, choice>>).kind = "recv" /\ Event(<<t, choice>>).on = c
        /\ outQ' = [outQ EXCEPT ![c] = Tail(outQ[c])] /\ inQ' = inQ /\ cvars' = cvars
        /\ cancelled' = cancelled \cup {item.tx} /\ ops' = ops /\ request' = request
        /\ val' = [val EXCEPT ![item.thr] = Main(t)]
        /\ pc' = [pc EXCEPT ![Main(t)] = "reply"] /\ choice' = choice
        /\ sched' = switch(sched, item.thr)
        /\ matched' = matched \cup {<<item.tx, Tx0(t), c>>}
        /\ result' = result
        /\ agenda' = agenda /\ failed' = failed /\ item.tx \notin cancelled
    BY <1>0, <1>2 DEF DoRecv, Runs, Return, Fails, Live
  <2>2. TypeOK /\ ThreadsInv /\ CVarsInv /\ MatchInv /\ PlacesInv /\ CommitInv
    BY DEF EventInv
  <2>3. /\ choice \in DOMAIN request[t].events /\ choice \in 1 .. Fan
        /\ Event(<<t, choice>>) = request[t].events[choice]
        /\ ~ Idles(t) /\ ~ Waits(t) /\ ops[t] > 0 /\ result[Tx0(t)] = Nil /\ Tx0(t) \in Tx
        /\ \A i \in DOMAIN request[t].events : Commits(t, i) <=> i = choice
        /\ \A f \in Entities : f[1] = t => ~ Given(f)
        /\ \A f \in Entities : f[1] = t /\ f # Main(t) =>
             ~ Exec(f) /\ ~ Placed(f) /\ pc[f] \in {"none", "send", "recv", "wait"}
    BY <2>1, CommitsChoice
  <2>4. outQ[c] # <<>> /\ outQ[c] \in Seq(Items)
    <3>1. ChoiceOk(t)
      BY <2>1, <2>2 DEF CommitInv
    <3>2. PICK ev : ev = request[t].events[choice]
      OBVIOUS
    <3>3. ev.kind = "recv" /\ ev.on = c
      BY <2>1, <2>3, <3>2
    <3>4. ev.kind = "recv" => outQ[ev.on] # <<>>
      BY <3>1, <3>2 DEF ChoiceOk
    <3> QED BY <2>2, <3>3, <3>4 DEF TypeOK
  <2>5. LiveItem(item, "send", c)
    <3>1. In(item, outQ[c])
      BY <1>0, <2>4, HeadFacts
    <3> QED BY <2>1, <3>1 DEF EventInv, ItemsInv, Live
  <2>6. PICK u \in Threads : \E e \in Entities :
          /\ Waits(u) /\ Tx0(u) \notin cancelled /\ e[1] = u
          /\ item.tx = Tx0(u) /\ item.thr = e /\ pc[e] = "send" /\ Event(e).kind = "send"
          /\ \E i \in DOMAIN request[u].events : e = Waiter(u, i)
    BY <2>1, <2>5, PartnerFound
  <2>7. PICK e \in Entities :
          /\ Waits(u) /\ Tx0(u) \notin cancelled /\ e[1] = u
          /\ item.tx = Tx0(u) /\ item.thr = e /\ pc[e] = "send" /\ Event(e).kind = "send"
          /\ \E i \in DOMAIN request[u].events : e = Waiter(u, i)
    BY <2>6
  <2>8. t # u /\ Tx0(t) # Tx0(u) /\ Main(t) \in Entities /\ Main(t)[1] = t /\ Main(t) # e
        /\ Tx0(u) \in Tx
    BY <2>3, <2>7, TxFacts, EntityFacts, Uncommitted
  <2>9. /\ pc'[Main(t)] = "reply" /\ \A f \in Entities : f # Main(t) => pc'[f] = pc[f]
        /\ pc' \in [Entities -> Points]
    BY <2>1, <2>2, <2>8 DEF TypeOK, Points
  <2>10. /\ val'[e] = Main(t) /\ \A f \in Entities : f # e => val'[f] = val[f]
         /\ val' \in [Entities -> Entities \cup Tx \cup {Nil}]
    BY <2>1, <2>2, <2>7, <2>8 DEF TypeOK
  <2>11. /\ result' \in [Tx -> {Nil} \cup [event : 0 .. Fan, val : Tx \cup {Nil}]]
         /\ \A w \in Threads : result'[Tx0(w)] = result[Tx0(w)]
    BY <2>1, <2>2 DEF TypeOK
  <2>12. /\ sched' \in SchedulerStates(Entities) /\ sched'.atomic = 1 /\ sched'.cur = e
         /\ \A f : Scheduled(f)' = Scheduled(f) - One(f = Main(t)) + One(e = f)
    <3>1. sched \in SchedulerStates(Entities) /\ sched.cur \in Entities /\ sched.atomic = 1
      BY <2>1, <2>2, <2>8 DEF TypeOK
    <3>2. sched' = switch(sched, e)
      BY <2>1, <2>7
    <3>3. /\ switch(sched, e) \in SchedulerStates(Entities)
          /\ switch(sched, e).atomic = 1 /\ switch(sched, e).cur = e
          /\ \A f : Places(switch(sched, e), f) = Places(sched, f) - One(sched.cur = f) + One(e = f)
      BY <3>1, PlacesHandOver
    <3>4. \A f : One(sched.cur = f) = One(f = Main(t))
      BY <2>1 DEF One
    <3> QED BY <3>2, <3>3, <3>4 DEF Scheduled
  <2>13. /\ Kept /\ Brought /\ PartnersInv' /\ CVarsLast
         /\ inQ' \in [Channels -> Seq(Items)] /\ outQ' \in [Channels -> Seq(Items)]
    BY <1>0, <2>1, <2>4, TakesPartner
  <2>14. TypeOK'
    <3>1. \A f \in Entities : f[2] = 0 => pc'[f] \notin {"none", "return"}
      BY <2>2, <2>9, EntityFacts DEF TypeOK
    <3>2. choice' \in 0 .. Fan /\ sched'.atomic \in 0 .. 1
      BY <2>1, <2>2, <2>12, EntityFacts DEF TypeOK
    <3>3. cancelled' \subseteq Tx /\ matched' \subseteq Tx \X Tx \X Channels
      BY <2>1, <2>2, <2>3, <2>7, <2>8 DEF TypeOK
    <3> QED BY <2>1, <2>2, <2>9, <2>10, <2>11, <2>12, <2>13, <3>1, <3>2, <3>3 DEF TypeOK
  <2>15. PICK M : M = {t, u}
    OBVIOUS
  <2>16. \A w \in Threads : w \notin M =>
           /\ pc[Main(w)] \notin {"choice", "reply", "exiting"}
           /\ \A f \in Entities : f[1] = w => ~ Exec(f)
    <3>1. sched.cur[1] \in M /\ pc[sched.cur] \notin {"send", "sent"}
      BY <2>1, <2>8, <2>15
    <3> QED BY <2>1, <3>1, OthersAside
  <2>17. /\ \A f : Exec(f)' <=> f = e
         /\ \A f : ~ Readied(f) /\ ~ Readied(f)'
         /\ \A v : ~ ToBeSet(v) /\ ~ ToBeSet(v)'
         /\ \A x : ~ ToWake(x) /\ ~ ToWake(x)'
    <3>1. \A f : Exec(f)' <=> f = e
      BY <2>12 DEF Exec
    <3> QED BY <2>1, <3>1, NothingToDo
  <2>18. \A v \in CVars : Settled(v)' <=> Settled(v)
    BY <2>1, <2>17 DEF Settled
  <2>19. PhaseInv' /\ CommitInv'
    <3>1. pc'[e] = "send" /\ agenda' = <<>> /\ val'[e] = Main(t) /\ pc'[Main(t)] = "reply"
      BY <2>1, <2>7, <2>8, <2>9, <2>10
    <3>2. PhaseInv'
      BY <2>12, <3>1 DEF PhaseInv
    <3>3. \A w \in Threads : w # t => pc'[Main(w)] \notin {"choice", "reply"}
      <4> SUFFICES ASSUME NEW w \in Threads, w # t PROVE pc'[Main(w)] \notin {"choice", "reply"}
        OBVIOUS
      <4>1. pc'[Main(w)] = pc[Main(w)]
        BY <2>9, EntityFacts
      <4>2. pc[Main(u)] \notin {"choice", "reply"}
        BY <2>7 DEF Waits
      <4> QED BY <2>15, <2>16, <4>1, <4>2
    <3>4. ReplyOk(t)'
      <4>1. sched'.atomic = 1 /\ pc'[sched'.cur] \in {"send", "sent"} /\ val'[sched'.cur] = Main(t)
        BY <2>12, <3>1
      <4>2. PICK ev : ev = request[t].events[choice]
        OBVIOUS
      <4>3. ev.kind = "recv"
        BY <2>1, <2>3, <4>2
      <4>4. /\ choice' \in DOMAIN request'[t].events
            /\ request'[t].events[choice'].kind = "recv"
        BY <2>1, <2>3, <4>2, <4>3
      <4>5. <<Tx0(sched.cur[1]), Tx0(t), c>>' \in matched'
        <5>1. (<<Tx0(sched.cur[1]), Tx0(t), c>>)' = <<Tx0(u), Tx0(t), c>>
          BY <2>1, <2>7, <2>12 DEF Tx0
        <5> QED BY <2>1, <2>7, <5>1
      <4> QED BY <4>1, <4>4, <4>5 DEF ReplyOk
    <3> QED BY <3>1, <3>2, <3>3, <3>4 DEF CommitInv
  <2>20. \A w \in Threads : w \notin M => Same(w)
    <3> SUFFICES ASSUME NEW w \in Threads, w # t, w # u PROVE Same(w)
      BY <2>15
    <3>1. Tx0(w) \in cancelled' <=> Tx0(w) \in cancelled
      BY <2>1, <2>7, TxFacts
    <3>2. \A f \in Entities : f[1] = w => /\ pc'[f] = pc[f] /\ val'[f] = val[f]
                                          /\ ~ Exec(f)' /\ ~ Exec(f)
      BY <2>7, <2>8, <2>9, <2>10, <2>15, <2>16, <2>17
    <3>3. pc[Main(w)] \notin {"choice", "reply"}
      BY <2>15, <2>16
    <3> QED BY <2>1, <2>11, <2>17, <3>1, <3>2, <3>3 DEF Same
  <2>21. /\ ThreadOk(t)' /\ BlockedOk(t)' /\ NacksOk(t)'
         /\ \A f \in Entities : f[1] = t => ~ Placed(f)'
    <3>1. /\ ~ Waits(t)' /\ ~ Idles(t)' /\ pc'[Main(t)] = "reply"
          /\ ops'[t] = ops[t] /\ request'[t] = request[t] /\ result'[Tx0(t)] = Nil
      BY <2>1, <2>3, <2>9 DEF Waits, Idles
    <3>2. \A f \in Entities : f[1] = t /\ f # Main(t) =>
            ~ Exec(f)' /\ pc'[f] \in {"none", "send", "recv", "wait"}
      BY <2>3, <2>7, <2>8, <2>9, <2>17
    <3>3. MetOk(t)'
      BY <3>1 DEF MetOk, MeetsNow
    <3>4. /\ ~ Idles(t)' => ops[t] > 0
          /\ ops[t] > 0 => (Idles(t)' <=> result'[Tx0(t)] # Nil)
          /\ pc'[Main(t)] \in {"choice", "exiting"} => Exec(Main(t))'
          /\ pc'[Main(t)] # "sync"
          /\ \A f \in Entities : f[1] = t => ~ Readied(f)'
      BY <2>3, <2>17, <3>1
    <3>5. /\ ThreadOk(t)' /\ BlockedOk(t)'
          /\ \A f \in Entities : f[1] = t /\ f # Main(t) => ~ Placed(f)'
      BY <2>13, <2>14, <3>1, <3>2, <3>3, <3>4, GoesOn
    <3>6. ~ Placed(Main(t))'
      BY <2>8, <2>17, <3>1 DEF Placed
    <3>7. \A i \in DOMAIN request[t].events : Commits(t, i)' <=> i = choice
      BY <2>1, <3>1 DEF Commits, Tx0
    <3>8. \A n : Loses(t, n)' <=> Loses(t, n)
      BY <2>3, <3>1, <3>7 DEF Loses
    <3>9. \A v \in CVars : v[1] = t => (Settled(v)' <=> Settled(v))
      BY <2>18
    <3>10. ops[t] > 0 => \A n \in request[t].nacks : Loses(t, n)' <=> Loses(t, n)
      BY <3>8
    <3>11. NacksOk(t)'
      BY <2>13, <3>1, <3>9, <3>10, NacksStay
    <3> QED BY <3>5, <3>6, <3>11
  <2>22. /\ ThreadOk(u)' /\ BlockedOk(u)' /\ NacksOk(u)' /\ Placed(e)'
         /\ \A f \in Entities : f[1] = u => ~ Placed(f) /\ (f # e => ~ Placed(f)')
    <3>1. \A f \in Entities : f[1] = u => pc'[f] = pc[f]
      BY <2>8, <2>9
    <3>2. \E m \in matched' : m[1] = Tx0(u)
      <4>1. PICK m : m = <<Tx0(u), Tx0(t), c>>
        OBVIOUS
      <4> QED BY <2>1, <2>7, <4>1
    <3>3. \A v \in CVars : v[1] = u => (Settled(v)' <=> Settled(v))
      BY <2>18
    <3>4. ops'[u] = ops[u] /\ request'[u] = request[u] /\ result'[Tx0(u)] = result[Tx0(u)]
          /\ Tx0(u) \in cancelled' /\ CVarsLast
      BY <2>1, <2>7, <2>8, <2>11, <2>13
    <3>5. /\ \A f : Exec(f)' <=> f = e
          /\ \A f : ~ Readied(f)'
      BY <2>17
    <3>6. PICK kind \in {"send", "recv"} : kind = "send"
      OBVIOUS
    <3>7. Event(e).kind = kind /\ pc[e] = kind /\ kind # "recv"
          /\ \E i \in DOMAIN request[u].events : e = Waiter(u, i)
      BY <2>7, <3>6
    <3> QED BY <2>7, <2>14, <3>1, <3>2, <3>3, <3>4, <3>5, <3>7, PartnerOk
  <2>23. \A f \in Entities : IF f[1] \in M THEN Scheduled(f)' = One(Placed(f)')
                             ELSE Scheduled(f)' = Scheduled(f)
    <3>1. \A f \in Entities : Scheduled(f) = One(Placed(f))
      BY <2>2 DEF PlacesInv
    <3>2. Placed(Main(t))
      BY <2>1 DEF Placed
    <3> HIDE DEF Scheduled
    <3>3. ASSUME NEW f \in Entities, f[1] = t PROVE Scheduled(f)' = One(Placed(f)')
      <4>1. CASE f = Main(t)
        BY <2>8, <2>12, <2>21, <3>1, <3>2, <4>1 DEF One
      <4>2. CASE f # Main(t)
        BY <2>3, <2>7, <2>8, <2>12, <2>21, <3>1, <3>3, <4>2 DEF One
      <4> QED BY <4>1, <4>2
    <3>4. ASSUME NEW f \in Entities, f[1] = u PROVE Scheduled(f)' = One(Placed(f)')
      <4>1. f # Main(t)
        BY <2>8, <3>4
      <4> QED BY <2>12, <2>22, <3>1, <3>4, <4>1 DEF One
    <3>5. ASSUME NEW f \in Entities, f[1] \notin M PROVE Scheduled(f)' = Scheduled(f)
      <4>1. f # e /\ f # Main(t)
        BY <2>7, <2>8, <2>15, <3>5
      <4> QED BY <2>12, <3>1, <4>1 DEF One
    <3> QED BY <2>15, <3>3, <3>4, <3>5
  <2>24. CVarsInv'
    <3>1. Distinct(agenda)'
      BY <2>1, <2>2 DEF CVarsInv, Distinct
    <3>2. \A w \in Threads : pc[Main(w)] \in {"exiting", "dead"} => pc'[Main(w)] \in {"exiting", "dead"}
      BY <2>1, <2>9, EntityFacts
    <3>3. \A w \in Threads : Settled(<<w, 0, 0>>)' => pc'[Main(w)] \in {"exiting", "dead"}
      BY <2>1, <2>17, <3>2, DeathsFrame
    <3> QED BY <2>1, <2>17, <3>1, <3>3, CVarsFrame
  <2>25. \A n \in matched : Tx0(t) \notin {n[1], n[2]} /\ Tx0(u) \notin {n[1], n[2]}
    <3>1. \A n \in matched : Tx0(t) \notin {n[1], n[2]}
      BY <2>1, <2>3, Unmet
    <3>2. \A n \in matched : Tx0(u) \notin {n[1], n[2]}
      BY <2>7, Uncommitted
    <3> QED BY <3>1, <3>2
  <2>26. PICK m : m = <<Tx0(u), Tx0(t), c>>
    OBVIOUS
  <2>27. matched' = matched \cup {m} /\ m[1] = Tx0(u) /\ m[2] = Tx0(t)
    BY <2>1, <2>7, <2>26
  <2>28. MatchInv'
    <3>1. \A x \in Tx : result'[x] = result[x] \/ x[2] = ops[x[1]]
      BY <2>1
    <3>2. cancelled' = cancelled \cup {Tx0(u)} /\ ops' = ops
      BY <2>1, <2>7
    <3>3. t # u
      BY <2>8
    <3>4. matched' = matched \cup {m}
      BY <2>27
    <3>5. (m[1] = Tx0(t) /\ m[2] = Tx0(u)) \/ (m[1] = Tx0(u) /\ m[2] = Tx0(t))
      BY <2>27
    <3> QED BY <2>25, <3>1, <3>2, <3>3, <3>4, <3>5, MeetFrame
  <2>29. /\ matched \subseteq matched' /\ cancelled \subseteq cancelled'
         /\ \A n \in matched' : n \notin matched => n[1][1] \in M /\ n[2][1] \in M
    BY <2>1, <2>15, <2>27, TxFacts
  <2>30. \A w \in Threads : w \in M => /\ ThreadOk(w)' /\ BlockedOk(w)' /\ NacksOk(w)'
                                       /\ (Waits(w) => Tx0(w) \in cancelled')
    BY <2>1, <2>3, <2>7, <2>15, <2>21, <2>22
  <2> HIDE DEF Scheduled
  <2> QED BY <2>13, <2>14, <2>18, <2>19, <2>20, <2>23, <2>24, <2>28, <2>29, <2>30, StepOk
<1> QED BY <1>1, <1>2

-----------------------------------------------------------------------------
(***************************************************************************)
(* Blocking.                                                               *)
(***************************************************************************)
\* Event i of t is of that kind, on that channel or variable.
Concerns(t, i, kind, on) ==
  request[t].events[i].kind = kind /\ request[t].events[i].on = on

\* An order in which all the events of t are gone through.
GoesThrough(order, t) ==
  /\ order \in Seq(DOMAIN request[t].events)
  /\ \A i \in DOMAIN request[t].events : \E k \in DOMAIN order : order[k] = i

LEMMA Orders ==
  ASSUME EventInv, NEW t \in Threads, ops[t] > 0, OpsOk(t)
  PROVE  /\ GoesThrough(LastFirst(Len(request[t].events)), t)
         /\ GoesThrough(FirstFirst(Len(request[t].events)), t)
<1>1. PICK n : n = Len(request[t].events)
  OBVIOUS
<1>2. n \in Nat /\ DOMAIN request[t].events = 1 .. n
  BY <1>1, RequestFacts, EntityFacts DEF EventInv
<1>3. LastFirst(n) \in Seq(1 .. n) /\ FirstFirst(n) \in Seq(1 .. n)
  BY <1>2 DEF LastFirst, FirstFirst
<1>4. \A i \in 1 .. n : n + 1 - i \in DOMAIN LastFirst(n) /\ LastFirst(n)[n + 1 - i] = i
  BY <1>2 DEF LastFirst
<1>5. \A i \in 1 .. n : i \in DOMAIN FirstFirst(n) /\ FirstFirst(n)[i] = i
  BY <1>2 DEF FirstFirst
<1> QED BY <1>1, <1>2, <1>3, <1>4, <1>5 DEF GoesThrough

LEMMA NewItemsFacts ==
  ASSUME EventInv, NEW t \in Threads, ops[t] > 0, OpsOk(t), NEW order, GoesThrough(order, t),
         NEW kind, NEW on
  PROVE  /\ NewItems(t, kind, on, order) \in Seq(Items)
         /\ \A x : In(x, NewItems(t, kind, on, order)) <=>
              \E i \in DOMAIN request[t].events : Concerns(t, i, kind, on) /\ x = Item(t, i)
<1> DEFINE S == {i \in DOMAIN request[t].events :
                   request[t].events[i].kind = kind /\ request[t].events[i].on = on}
           D == DOMAIN request[t].events
           index == Among(order, S)
<1>1. \A i \in D : Item(t, i) \in Items
  BY RequestFacts DEF EventInv
<1>2. /\ order \in Seq(D)
      /\ \A i \in D : \E k \in DOMAIN order : order[k] = i
  BY DEF GoesThrough
<1>3. DOMAIN order = 1 .. Len(order)
  BY <1>2
<1>4. \A i : i \in S <=> i \in D /\ Concerns(t, i, kind, on)
  BY DEF Concerns
<1> HIDE DEF S, D
<1>5. index \in Seq(D \cap S) /\ Selects(order, S, Len(order), index)
  BY <1>2, AmongElements
<1>6. NewItems(t, kind, on, order) = [k \in DOMAIN index |-> Item(t, index[k])]
  BY DEF NewItems, index, S
<1> HIDE DEF index
<1>7. DOMAIN index = 1 .. Len(index) /\ Len(index) \in Nat /\ \A k \in DOMAIN index : index[k] \in D \cap S
  BY <1>5
<1>8. \A i \in S : \E k \in DOMAIN index : index[k] = i
  <2> SUFFICES ASSUME NEW i \in S PROVE \E k \in DOMAIN index : index[k] = i
    OBVIOUS
  <2>1. PICK k \in 1 .. Len(order) : order[k] = i
    BY <1>2, <1>3, <1>4
  <2> QED BY <1>5, <2>1 DEF Selects
<1>9. NewItems(t, kind, on, order) \in Seq(Items)
  <2>1. \A k \in 1 .. Len(index) : Item(t, index[k]) \in Items
    BY <1>1, <1>7
  <2> QED BY <1>6, <1>7, <2>1
<1>10. \A x : In(x, NewItems(t, kind, on, order)) <=>
         \E k \in DOMAIN index : x = Item(t, index[k])
  BY <1>6 DEF In
<1>11. \A x : (\E k \in DOMAIN index : x = Item(t, index[k])) <=> \E i \in S : x = Item(t, i)
  BY <1>7, <1>8
<1>12. \A x : (\E i \in S : x = Item(t, i)) <=>
         \E i \in D : Concerns(t, i, kind, on) /\ x = Item(t, i)
  BY <1>4
<1> QED BY <1>9, <1>10, <1>11, <1>12 DEF D

\* The elements of a concatenation.
LEMMA InConcat ==
  ASSUME NEW a \in Seq(Items), NEW b \in Seq(Items)
  PROVE  a \o b \in Seq(Items) /\ \A x : In(x, a \o b) <=> In(x, a) \/ In(x, b)
<1>1. PICK c : c = a \o b
  OBVIOUS
<1>2. c \in Seq(Items) /\ Joins(a, b, c)
  BY <1>1, ConcatElements
<1>3. \A x : In(x, c) => In(x, a) \/ In(x, b)
  <2> SUFFICES ASSUME NEW k \in DOMAIN c PROVE In(c[k], a) \/ In(c[k], b)
    BY DEF In
  <2> QED BY <1>2 DEF Joins, In
<1>4. \A x : In(x, a) => In(x, c)
  <2> SUFFICES ASSUME NEW k \in DOMAIN a PROVE In(a[k], c)
    BY DEF In
  <2> QED BY <1>2 DEF Joins, In
<1>5. \A x : In(x, b) => In(x, c)
  <2> SUFFICES ASSUME NEW k \in DOMAIN b PROVE In(b[k], c)
    BY DEF In
  <2> QED BY <1>2 DEF Joins, In
<1> QED BY <1>1, <1>2, <1>3, <1>4, <1>5

\* r is q with the items of t for its events of that kind.
Enqueues(t, kind, q, r) ==
  \A c \in Channels :
    LET new == NewItems(t, kind, c, LastFirst(Len(request[t].events)))
    IN  (new = <<>> /\ r[c] = q[c]) \/ r[c] \in {q[c] \o new, Clean(q[c] \o new)}

\* What a thread that blocks leaves in the queues: what was alive, and its own items.
LEMMA EnqueuedFacts ==
  ASSUME EventInv, NEW t \in Threads, ops[t] > 0, OpsOk(t), Tx0(t) \notin cancelled,
         NEW kind, NEW q \in [Channels -> Seq(Items)], NEW r, Enqueues(t, kind, q, r)
  PROVE  /\ \A c \in Channels : r[c] \in Seq(Items)
         /\ \A x : \A c \in Channels : In(x, r[c]) =>
              \/ In(x, q[c])
              \/ \E i \in DOMAIN request[t].events : Concerns(t, i, kind, c) /\ x = Item(t, i)
         /\ \A x : \A c \in Channels : In(x, q[c]) /\ Live(x) => In(x, r[c])
         /\ \A i \in DOMAIN request[t].events : \A c \in Channels :
              Concerns(t, i, kind, c) => In(Item(t, i), r[c])
<1>1. PICK order : order = LastFirst(Len(request[t].events)) /\ GoesThrough(order, t)
  BY Orders
<1>2. PICK new : new = [c \in Channels |-> NewItems(t, kind, c, order)]
  OBVIOUS
<1>3. \A c \in Channels : \/ new[c] = <<>> /\ r[c] = q[c]
                         \/ r[c] \in {q[c] \o new[c], Clean(q[c] \o new[c])}
  BY <1>1, <1>2 DEF Enqueues
<1>4. \A c \in Channels :
        /\ new[c] \in Seq(Items) /\ q[c] \in Seq(Items)
        /\ \A x : In(x, new[c]) <=>
             \E i \in DOMAIN request[t].events : Concerns(t, i, kind, c) /\ x = Item(t, i)
  BY <1>1, <1>2, NewItemsFacts
<1>7. \A i : Live(Item(t, i))
  BY DEF Live, Item
<1>8. ASSUME NEW c \in Channels
      PROVE  /\ r[c] \in Seq(Items)
             /\ \A x : In(x, r[c]) => In(x, q[c]) \/ In(x, new[c])
             /\ \A x : Live(x) /\ (In(x, q[c]) \/ In(x, new[c])) => In(x, r[c])
  <2>1. PICK all : all = q[c] \o new[c]
    OBVIOUS
  <2>2. all \in Seq(Items) /\ \A x : In(x, all) <=> In(x, q[c]) \/ In(x, new[c])
    BY <1>4, <2>1, InConcat
  <2>3. Clean(all) \in Seq(Items) /\ \A x : In(x, Clean(all)) <=> In(x, all) /\ Live(x)
    BY <2>2, CleanFacts
  <2>4. (new[c] = <<>> /\ r[c] = q[c]) \/ r[c] \in {all, Clean(all)}
    BY <1>3, <2>1
  <2>5. \A x : ~ In(x, <<>>)
    BY DEF In
  <2>6. CASE new[c] = <<>> /\ r[c] = q[c]
    BY <1>4, <2>5, <2>6
  <2>7. CASE r[c] \in {all, Clean(all)}
    BY <2>2, <2>3, <2>7
  <2> QED BY <2>4, <2>6, <2>7
<1>10. \A x : \A c \in Channels : In(x, r[c]) =>
         \/ In(x, q[c])
         \/ \E i \in DOMAIN request[t].events : Concerns(t, i, kind, c) /\ x = Item(t, i)
  BY <1>4, <1>8
<1>11. \A i \in DOMAIN request[t].events : \A c \in Channels :
         Concerns(t, i, kind, c) => In(Item(t, i), r[c])
  BY <1>4, <1>7, <1>8
<1> QED BY <1>8, <1>10, <1>11

\* None of the events is enabled: nobody alive is there to meet, and the variables
\* waited for are not set.
LEMMA NoneEnabled ==
  ASSUME EventInv, NEW t \in Threads, ops[t] > 0, OpsOk(t), EnabledEvents(t) = {},
         NEW i \in DOMAIN request[t].events
  PROVE  /\ \A c \in Channels : Concerns(t, i, "recv", c) =>
              \A y : In(y, outQ[c]) => ~ Live(y)
         /\ \A c \in Channels : Concerns(t, i, "send", c) =>
              \A y : In(y, inQ[c]) => ~ Live(y)
         /\ \A v \in CVars : Concerns(t, i, "wait", v) => cvars[v].state = "unset"
<1>1. PICK ev : ev = request[t].events[i]
  OBVIOUS
<1>2. ~ Enabled(ev)
  BY <1>1 DEF EnabledEvents
<1>3. /\ inQ \in [Channels -> Seq(Items)] /\ outQ \in [Channels -> Seq(Items)]
      /\ \A v \in CVars : cvars[v].state \in {"none", "unset", "set"}
  BY DEF EventInv, TypeOK
<1>4. \A q \in Seq(Items) : Clean(q) = <<>> => \A y : In(y, q) => ~ Live(y)
  <2> SUFFICES ASSUME NEW q \in Seq(Items), Clean(q) = <<>>, NEW y, In(y, q), Live(y)
               PROVE  FALSE
    OBVIOUS
  <2>1. In(y, Clean(q))
    BY CleanFacts
  <2> QED BY <2>1 DEF In
<1>5. ASSUME NEW c \in Channels, Concerns(t, i, "recv", c)
      PROVE  \A y : In(y, outQ[c]) => ~ Live(y)
  <2>1. ev.kind = "recv" /\ ev.on = c
    BY <1>1, <1>5 DEF Concerns
  <2>2. Clean(outQ[c]) = <<>>
    BY <1>2, <2>1 DEF Enabled, HasPartner
  <2> QED BY <1>3, <1>4, <2>2
<1>6. ASSUME NEW c \in Channels, Concerns(t, i, "send", c)
      PROVE  \A y : In(y, inQ[c]) => ~ Live(y)
  <2>1. ev.kind = "send" /\ ev.on = c
    BY <1>1, <1>6 DEF Concerns
  <2>2. Clean(inQ[c]) = <<>>
    BY <1>2, <2>1 DEF Enabled, HasPartner
  <2> QED BY <1>3, <1>4, <2>2
<1>7. ASSUME NEW v \in CVars, Concerns(t, i, "wait", v)
      PROVE  cvars[v].state = "unset"
  <2>1. ev.kind = "wait" /\ ev.on = v
    BY <1>1, <1>7 DEF Concerns
  <2>2. cvars[v].state # "set"
    BY <1>2, <2>1 DEF Enabled
  <2>3. request[t].events[i].kind = "wait" => cvars[request[t].events[i].on].state # "none"
    BY RequestFacts DEF EventInv
  <2> QED BY <1>1, <1>3, <2>1, <2>2, <2>3
<1> QED BY <1>5, <1>6, <1>7

LEMMA BlockQueues ==
  ASSUME EventInv, NEW t \in Threads, ops[t] > 0, OpsOk(t), Tx0(t) \notin cancelled, Block(t)
  PROVE  /\ inQ' \in [Channels -> Seq(Items)] /\ outQ' \in [Channels -> Seq(Items)]
         /\ cvars' \in [CVars -> [state : {"none", "unset", "set"}, waiting : Seq(Items)]]
         /\ \A x : \A c \in Channels :
              /\ In(x, inQ'[c]) =>
                   \/ In(x, inQ[c])
                   \/ \E i \in DOMAIN request[t].events : Concerns(t, i, "recv", c) /\ x = Item(t, i)
              /\ In(x, outQ'[c]) =>
                   \/ In(x, outQ[c])
                   \/ \E i \in DOMAIN request[t].events : Concerns(t, i, "send", c) /\ x = Item(t, i)
              /\ In(x, inQ[c]) /\ Live(x) => In(x, inQ'[c])
              /\ In(x, outQ[c]) /\ Live(x) => In(x, outQ'[c])
         /\ \A x : \A v \in CVars :
              In(x, cvars'[v].waiting) <=>
                \/ In(x, cvars[v].waiting)
                \/ \E i \in DOMAIN request[t].events : Concerns(t, i, "wait", v) /\ x = Item(t, i)
         /\ \A i \in DOMAIN request[t].events : \A c \in Channels :
              /\ Concerns(t, i, "recv", c) => In(Item(t, i), inQ'[c])
              /\ Concerns(t, i, "send", c) => In(Item(t, i), outQ'[c])
         /\ \A v \in CVars : /\ cvars'[v].state = cvars[v].state
                             /\ cvars'[v].state # "unset" => cvars'[v].waiting = <<>>
<1>1. /\ inQ'  = Enqueued(t, "recv", Polled(t, "send", inQ), FALSE)
      /\ outQ' = Enqueued(t, "send", Polled(t, "recv", outQ), request[t].mode = "call")
      /\ cvars' = [v \in CVars |->
           [cvars[v] EXCEPT !.waiting = NewItems(t, "wait", v, FirstFirst(Len(request[t].events))) \o @]]
      /\ EnabledEvents(t) = {}
  BY DEF Block
<1>2. /\ inQ \in [Channels -> Seq(Items)] /\ outQ \in [Channels -> Seq(Items)]
      /\ cvars \in [CVars -> [state : {"none", "unset", "set"}, waiting : Seq(Items)]]
  BY DEF EventInv, TypeOK
<1>3. PICK pin : pin = Polled(t, "send", inQ)
  OBVIOUS
<1>4. PICK pout : pout = Polled(t, "recv", outQ)
  OBVIOUS
<1>5. /\ pin \in [Channels -> Seq(Items)]
      /\ \A item : \A c \in Channels : In(item, pin[c]) => In(item, inQ[c])
      /\ \A item : \A c \in Channels : In(item, inQ[c]) /\ Live(item) => In(item, pin[c])
  BY <1>2, <1>3, PolledFacts
<1>6. /\ pout \in [Channels -> Seq(Items)]
      /\ \A item : \A c \in Channels : In(item, pout[c]) => In(item, outQ[c])
      /\ \A item : \A c \in Channels : In(item, outQ[c]) /\ Live(item) => In(item, pout[c])
  BY <1>2, <1>4, PolledFacts
<1>7. /\ inQ' \in [Channels -> Seq(Items)]
      /\ \A x : \A c \in Channels : In(x, inQ'[c]) =>
           \/ In(x, pin[c])
           \/ \E i \in DOMAIN request[t].events : Concerns(t, i, "recv", c) /\ x = Item(t, i)
      /\ \A x : \A c \in Channels : In(x, pin[c]) /\ Live(x) => In(x, inQ'[c])
      /\ \A i \in DOMAIN request[t].events : \A c \in Channels :
           Concerns(t, i, "recv", c) => In(Item(t, i), inQ'[c])
  <2>1. \A c \in Channels :
          LET new == NewItems(t, "recv", c, LastFirst(Len(request[t].events)))
          IN  (new = <<>> /\ inQ'[c] = pin[c]) \/ inQ'[c] \in {pin[c] \o new, Clean(pin[c] \o new)}
    BY <1>1, <1>3 DEF Enqueued
  <2>2. inQ' = [c \in Channels |-> inQ'[c]]
    BY <1>1 DEF Enqueued
  <2>3. PICK r : r = inQ'
    OBVIOUS
  <2>4. /\ \A c \in Channels : r[c] \in Seq(Items)
        /\ \A x : \A c \in Channels : In(x, r[c]) =>
             \/ In(x, pin[c])
             \/ \E i \in DOMAIN request[t].events : Concerns(t, i, "recv", c) /\ x = Item(t, i)
        /\ \A x : \A c \in Channels : In(x, pin[c]) /\ Live(x) => In(x, r[c])
        /\ \A i \in DOMAIN request[t].events : \A c \in Channels :
             Concerns(t, i, "recv", c) => In(Item(t, i), r[c])
    <3>1. Enqueues(t, "recv", pin, r)
      BY <2>1, <2>3 DEF Enqueues
    <3> QED BY <1>5, <3>1, EnqueuedFacts
  <2> QED BY <2>2, <2>3, <2>4
<1>8. /\ outQ' \in [Channels -> Seq(Items)]
      /\ \A x : \A c \in Channels : In(x, outQ'[c]) =>
           \/ In(x, pout[c])
           \/ \E i \in DOMAIN request[t].events : Concerns(t, i, "send", c) /\ x = Item(t, i)
      /\ \A x : \A c \in Channels : In(x, pout[c]) /\ Live(x) => In(x, outQ'[c])
      /\ \A i \in DOMAIN request[t].events : \A c \in Channels :
           Concerns(t, i, "send", c) => In(Item(t, i), outQ'[c])
  <2>1. \A c \in Channels :
          LET new == NewItems(t, "send", c, LastFirst(Len(request[t].events)))
          IN  (new = <<>> /\ outQ'[c] = pout[c]) \/ outQ'[c] \in {pout[c] \o new, Clean(pout[c] \o new)}
    BY <1>1, <1>4 DEF Enqueued
  <2>2. outQ' = [c \in Channels |-> outQ'[c]]
    BY <1>1 DEF Enqueued
  <2>3. PICK r : r = outQ'
    OBVIOUS
  <2>4. /\ \A c \in Channels : r[c] \in Seq(Items)
        /\ \A x : \A c \in Channels : In(x, r[c]) =>
             \/ In(x, pout[c])
             \/ \E i \in DOMAIN request[t].events : Concerns(t, i, "send", c) /\ x = Item(t, i)
        /\ \A x : \A c \in Channels : In(x, pout[c]) /\ Live(x) => In(x, r[c])
        /\ \A i \in DOMAIN request[t].events : \A c \in Channels :
             Concerns(t, i, "send", c) => In(Item(t, i), r[c])
    <3>1. Enqueues(t, "send", pout, r)
      BY <2>1, <2>3 DEF Enqueues
    <3> QED BY <1>6, <3>1, EnqueuedFacts
  <2> QED BY <2>2, <2>3, <2>4
<1>9. PICK order : order = FirstFirst(Len(request[t].events)) /\ GoesThrough(order, t)
  BY Orders
<1>10. PICK new : new = [v \in CVars |-> NewItems(t, "wait", v, order)]
  OBVIOUS
<1>11. \A v \in CVars :
         /\ new[v] \in Seq(Items)
         /\ \A x : In(x, new[v]) <=>
              \E i \in DOMAIN request[t].events : Concerns(t, i, "wait", v) /\ x = Item(t, i)
  BY <1>9, <1>10, NewItemsFacts
<1>12. \A v \in CVars : cvars[v].waiting \in Seq(Items) /\ cvars[v].state \in {"none", "unset", "set"}
  BY <1>2
<1>13. \A v \in CVars : cvars'[v] = [cvars[v] EXCEPT !.waiting = new[v] \o @]
  BY <1>1, <1>9, <1>10
<1>14. \A v \in CVars : /\ cvars'[v].waiting = new[v] \o cvars[v].waiting
                        /\ cvars'[v].state = cvars[v].state
                        /\ cvars'[v] = [state |-> cvars[v].state, waiting |-> new[v] \o cvars[v].waiting]
  BY <1>2, <1>13
<1>15. \A v \in CVars :
         /\ cvars'[v].waiting \in Seq(Items)
         /\ \A x : In(x, cvars'[v].waiting) <=> In(x, new[v]) \/ In(x, cvars[v].waiting)
  <2> SUFFICES ASSUME NEW v \in CVars
               PROVE  /\ cvars'[v].waiting \in Seq(Items)
                      /\ \A x : In(x, cvars'[v].waiting) <=> In(x, new[v]) \/ In(x, cvars[v].waiting)
    OBVIOUS
  <2>1. PICK a, b : a = new[v] /\ b = cvars[v].waiting
    OBVIOUS
  <2>2. a \in Seq(Items) /\ b \in Seq(Items) /\ cvars'[v].waiting = a \o b
    BY <1>11, <1>12, <1>14, <2>1
  <2>3. a \o b \in Seq(Items) /\ \A x : In(x, a \o b) <=> In(x, a) \/ In(x, b)
    BY <2>2, InConcat
  <2> QED BY <2>1, <2>2, <2>3
<1>16. cvars' \in [CVars -> [state : {"none", "unset", "set"}, waiting : Seq(Items)]]
  <2>1. \A v \in CVars : cvars'[v] \in [state : {"none", "unset", "set"}, waiting : Seq(Items)]
    <3> SUFFICES ASSUME NEW v \in CVars
                 PROVE  cvars'[v] \in [state : {"none", "unset", "set"}, waiting : Seq(Items)]
      OBVIOUS
    <3>1. PICK w : w = new[v] \o cvars[v].waiting
      OBVIOUS
    <3>2. w \in Seq(Items) /\ cvars'[v] = [state |-> cvars[v].state, waiting |-> w]
      BY <1>14, <1>15, <3>1
    <3> QED BY <1>12, <3>2
  <2>2. cvars' = [v \in CVars |-> cvars'[v]]
    BY <1>1
  <2> QED BY <2>1, <2>2
<1>17. \A v \in CVars : cvars'[v].state # "unset" => cvars'[v].waiting = <<>>
  <2> SUFFICES ASSUME NEW v \in CVars, cvars[v].state # "unset"
               PROVE  cvars'[v].waiting = <<>>
    BY <1>14
  <2>1. cvars[v].waiting = <<>>
    BY DEF EventInv, CVarsInv
  <2>2. \A x : ~ In(x, new[v])
    BY <1>1, <1>11, NoneEnabled
  <2>3. new[v] = <<>>
    <3>1. PICK a \in Seq(Items) : a = new[v]
      BY <1>11
    <3>2. \A k \in DOMAIN a : FALSE
      BY <2>2, <3>1 DEF In
    <3>3. DOMAIN a = 1 .. Len(a) /\ Len(a) \in Nat /\ (Len(a) > 0 => 1 \in DOMAIN a)
      OBVIOUS
    <3>4. Len(a) = 0
      BY <3>2, <3>3
    <3> QED BY <3>1, <3>4
  <2>4. cvars'[v].waiting = <<>> \o <<>>
    BY <1>14, <2>1, <2>3
  <2> QED BY <2>4
<1>18. \A x : \A v \in CVars :
         In(x, cvars'[v].waiting) <=>
           \/ In(x, cvars[v].waiting)
           \/ \E i \in DOMAIN request[t].events : Concerns(t, i, "wait", v) /\ x = Item(t, i)
  BY <1>11, <1>15
<1>19. \A x : \A c \in Channels :
         /\ In(x, inQ'[c]) =>
              \/ In(x, inQ[c])
              \/ \E i \in DOMAIN request[t].events : Concerns(t, i, "recv", c) /\ x = Item(t, i)
         /\ In(x, outQ'[c]) =>
              \/ In(x, outQ[c])
              \/ \E i \in DOMAIN request[t].events : Concerns(t, i, "send", c) /\ x = Item(t, i)
  BY <1>5, <1>6, <1>7, <1>8
<1>20. \A x : \A c \in Channels : /\ In(x, inQ[c]) /\ Live(x) => In(x, inQ'[c])
                                  /\ In(x, outQ[c]) /\ Live(x) => In(x, outQ'[c])
  BY <1>5, <1>6, <1>7, <1>8
<1> QED BY <1>7, <1>8, <1>14, <1>16, <1>17, <1>18, <1>19, <1>20

\* The queues after a thread has blocked: nothing alive is gone, what is new is alive and
\* belongs to a waiter, and no partners have come together.
LEMMA BlockOk ==
  ASSUME EventInv, NEW t \in Threads, ops[t] > 0, OpsOk(t), Tx0(t) \notin cancelled, Block(t),
         cancelled' = cancelled, agenda' = agenda, Waits(t)', request'[t] = request[t],
         ops'[t] = ops[t],
         \A i \in DOMAIN request[t].events : pc'[Waiter(t, i)] = request[t].events[i].kind
  PROVE  /\ Kept /\ Brought /\ PartnersInv' /\ CVarsLast
         /\ \A i \in DOMAIN request[t].events : InQueue(t, i)'
<1>1. /\ \A x : \A c \in Channels :
           /\ In(x, inQ'[c]) =>
                \/ In(x, inQ[c])
                \/ \E i \in DOMAIN request[t].events : Concerns(t, i, "recv", c) /\ x = Item(t, i)
           /\ In(x, outQ'[c]) =>
                \/ In(x, outQ[c])
                \/ \E i \in DOMAIN request[t].events : Concerns(t, i, "send", c) /\ x = Item(t, i)
           /\ In(x, inQ[c]) /\ Live(x) => In(x, inQ'[c])
           /\ In(x, outQ[c]) /\ Live(x) => In(x, outQ'[c])
      /\ \A x : \A v \in CVars :
           In(x, cvars'[v].waiting) <=>
             \/ In(x, cvars[v].waiting)
             \/ \E i \in DOMAIN request[t].events : Concerns(t, i, "wait", v) /\ x = Item(t, i)
      /\ \A i \in DOMAIN request[t].events : \A c \in Channels :
           /\ Concerns(t, i, "recv", c) => In(Item(t, i), inQ'[c])
           /\ Concerns(t, i, "send", c) => In(Item(t, i), outQ'[c])
      /\ \A v \in CVars : cvars'[v].state = cvars[v].state
  BY BlockQueues
<1>2. \A x : \A c \in Channels : /\ In(x, inQ[c])' <=> In(x, inQ'[c])
                                 /\ In(x, outQ[c])' <=> In(x, outQ'[c])
  BY DEF In
<1>3. \A x : \A v \in CVars : In(x, cvars[v].waiting)' <=> In(x, cvars'[v].waiting)
  BY DEF In
<1>4. \A x : (ToWake(x)' <=> ToWake(x)) /\ (x.tx \notin cancelled' <=> Live(x))
  BY DEF ToWake, Live
<1>5. HasHelpers(t)' <=> HasHelpers(t)
  BY DEF HasHelpers
<1>6. \A i : Waiter(t, i)' = Waiter(t, i)
  BY <1>5 DEF Waiter
<1>7. \A i : Item(t, i)' = Item(t, i)
  BY <1>6 DEF Item, Tx0
<1>8. \A i \in DOMAIN request[t].events : \A kind, on :
        Concerns(t, i, kind, on) => LiveItem(Item(t, i), kind, on)'
  <2> SUFFICES ASSUME NEW i \in DOMAIN request[t].events, NEW kind, NEW on,
                      Concerns(t, i, kind, on)
               PROVE  LiveItem(Item(t, i), kind, on)'
    OBVIOUS
  <2>1. /\ i \in DOMAIN request'[t].events
        /\ request'[t].events[i].kind = kind /\ request'[t].events[i].on = on
    BY DEF Concerns
  <2>2. pc'[Waiter(t, i)'] = kind
    BY <1>6 DEF Concerns
  <2>3. Waits(t)' /\ \E j \in DOMAIN request'[t].events :
          /\ request'[t].events[j].kind = kind /\ request'[t].events[j].on = on
          /\ Item(t, i)' = Item(t, j)' /\ pc'[Waiter(t, j)'] = kind
    BY <2>1, <2>2
  <2> QED BY <2>3 DEF LiveItem
<1> HIDE DEF In
<1>9. \A x : \A c \in Channels :
        /\ In(x, inQ'[c]) => In(x, inQ[c]) \/ LiveItem(x, "recv", c)'
        /\ In(x, outQ'[c]) => In(x, outQ[c]) \/ LiveItem(x, "send", c)'
  <2> SUFFICES ASSUME NEW x, NEW c \in Channels
               PROVE  /\ In(x, inQ'[c]) => In(x, inQ[c]) \/ LiveItem(x, "recv", c)'
                      /\ In(x, outQ'[c]) => In(x, outQ[c]) \/ LiveItem(x, "send", c)'
    OBVIOUS
  <2>1. ASSUME NEW i \in DOMAIN request[t].events, NEW kind, Concerns(t, i, kind, c), x = Item(t, i)
        PROVE  LiveItem(x, kind, c)'
    <3>1. LiveItem(Item(t, i), kind, c)'
      BY <1>8, <2>1
    <3>2. Item(t, i)' = x
      BY <1>7, <2>1
    <3> QED BY <3>1, <3>2 DEF LiveItem
  <2> QED BY <1>1, <2>1
<1>10. \A x : \A v \in CVars :
         In(x, cvars'[v].waiting) => In(x, cvars[v].waiting) \/ LiveItem(x, "wait", v)'
  <2> SUFFICES ASSUME NEW x, NEW v \in CVars, In(x, cvars'[v].waiting), ~ In(x, cvars[v].waiting)
               PROVE  LiveItem(x, "wait", v)'
    OBVIOUS
  <2>1. PICK i \in DOMAIN request[t].events : Concerns(t, i, "wait", v) /\ x = Item(t, i)
    BY <1>1
  <2>2. LiveItem(Item(t, i), "wait", v)'
    BY <1>8, <2>1
  <2>3. Item(t, i)' = x
    BY <1>7, <2>1
  <2> QED BY <2>2, <2>3 DEF LiveItem
<1>11. Kept
  BY <1>1, <1>2, <1>3, <1>4 DEF Kept
<1>12. Brought
  BY <1>2, <1>3, <1>4, <1>9, <1>10 DEF Brought
<1>13. PartnersInv'
  <2> SUFFICES ASSUME NEW c \in Channels, NEW x, NEW y,
                      In(x, inQ'[c]), In(y, outQ'[c]), Live(x), Live(y)
               PROVE  x.tx = y.tx
    <3>1. \A x : Live(x)' <=> Live(x)
      BY DEF Live
    <3> QED BY <1>2, <3>1 DEF PartnersInv
  <2>1. EnabledEvents(t) = {}
    BY DEF Block
  <2>2. CASE In(x, inQ[c]) /\ In(y, outQ[c])
    BY <2>2 DEF EventInv, PartnersInv
  <2>3. ASSUME NEW i \in DOMAIN request[t].events, Concerns(t, i, "recv", c)
        PROVE  ~ In(y, outQ[c])
    BY <2>1, <2>3, NoneEnabled
  <2>4. ASSUME NEW i \in DOMAIN request[t].events, Concerns(t, i, "send", c)
        PROVE  ~ In(x, inQ[c])
    BY <2>1, <2>4, NoneEnabled
  <2>5. CASE ~ In(x, inQ[c])
    <3>1. PICK i \in DOMAIN request[t].events : Concerns(t, i, "recv", c) /\ x = Item(t, i)
      BY <1>1, <2>5
    <3>2. PICK j \in DOMAIN request[t].events : Concerns(t, j, "send", c) /\ y = Item(t, j)
      BY <1>1, <2>3, <3>1
    <3> QED BY <3>1, <3>2 DEF Item
  <2>6. CASE ~ In(y, outQ[c])
    <3>1. PICK j \in DOMAIN request[t].events : Concerns(t, j, "send", c) /\ y = Item(t, j)
      BY <1>1, <2>6
    <3>2. PICK i \in DOMAIN request[t].events : Concerns(t, i, "recv", c) /\ x = Item(t, i)
      BY <1>1, <2>4, <3>1
    <3> QED BY <3>1, <3>2 DEF Item
  <2> QED BY <2>2, <2>5, <2>6
<1>14. CVarsLast
  BY <1>1 DEF CVarsLast
<1>15. ASSUME NEW i \in DOMAIN request[t].events PROVE InQueue(t, i)'
  <2>1. PICK ev : ev = request[t].events[i]
    OBVIOUS
  <2>2. /\ ev.kind \in {"send", "recv", "wait"}
        /\ ev.kind # "wait" => ev.on \in Channels
        /\ ev.kind = "wait" => ev.on \in CVars
    BY <2>1, RequestFacts DEF EventInv
  <2>3. Concerns(t, i, ev.kind, ev.on)
    BY <2>1 DEF Concerns
  <2>4. request'[t].events[i] = ev
    BY <2>1
  <2>5. CASE ev.kind = "send"
    <3>1. In(Item(t, i), outQ'[ev.on])
      BY <1>1, <2>2, <2>3, <2>5
    <3>2. QueueOf(request[t].events[i])' = outQ'[ev.on]
      BY <2>4, <2>5 DEF QueueOf
    <3>3. In(Item(t, i), QueueOf(request[t].events[i]))'
      BY <1>7, <3>1, <3>2 DEF In
    <3> QED BY <3>3 DEF InQueue
  <2>6. CASE ev.kind = "recv"
    <3>1. In(Item(t, i), inQ'[ev.on])
      BY <1>1, <2>2, <2>3, <2>6
    <3>2. QueueOf(request[t].events[i])' = inQ'[ev.on]
      BY <2>4, <2>6 DEF QueueOf
    <3>3. In(Item(t, i), QueueOf(request[t].events[i]))'
      BY <1>7, <3>1, <3>2 DEF In
    <3> QED BY <3>3 DEF InQueue
  <2>7. CASE ev.kind = "wait"
    <3>1. In(Item(t, i), cvars'[ev.on].waiting)
      BY <1>1, <2>2, <2>3, <2>7
    <3>2. QueueOf(request[t].events[i])' = cvars'[ev.on].waiting
      BY <2>4, <2>7 DEF QueueOf
    <3>3. In(Item(t, i), QueueOf(request[t].events[i]))'
      BY <1>7, <3>1, <3>2 DEF In
    <3> QED BY <3>3 DEF InQueue
  <2> QED BY <2>2, <2>5, <2>6, <2>7
<1> QED BY <1>11, <1>12, <1>13, <1>14, <1>15

LEMMA BlockStep ==
  ASSUME EventInv, NEW t \in Threads, Block(t)
  PROVE  EventInv'
<1>1. /\ sched.cur = Main(t) /\ pc[Main(t)] = "sync" /\ sched.atomic = 0
      /\ cancelled' = cancelled /\ ops' = ops /\ request' = request /\ val' = val
      /\ choice' = choice /\ agenda' = agenda /\ failed' = failed /\ matched' = matched
      /\ result' = result
      /\ sched' = atomicSwitchToNext(
           [atomicBegin(sched) EXCEPT !.marked = @ \cup
              {Waiter(t, i) : i \in DOMAIN request[t].events}])
      /\ pc' = [e \in Entities |->
           IF \E i \in DOMAIN request[t].events : e = Waiter(t, i) THEN
             request[t].events[IF e[2] = 0 THEN 1 ELSE e[2]].kind
           ELSE IF e = Main(t) THEN "helped" ELSE pc[e]]
  BY DEF Block, Runs
<1>2. TypeOK /\ ThreadsInv /\ CVarsInv /\ MatchInv /\ PlacesInv
  BY DEF EventInv
<1>3. /\ ~ Idles(t) /\ ~ Waits(t) /\ ops[t] > 0 /\ OpsOk(t) /\ result[Tx0(t)] = Nil
      /\ Tx0(t) \in Tx /\ Tx0(t) \notin cancelled
  <2>1. ~ Idles(t) /\ ~ Waits(t)
    BY <1>1 DEF Idles, Waits
  <2>2. ops[t] > 0 /\ OpsOk(t) /\ result[Tx0(t)] = Nil /\ Tx0(t) \in Tx
    BY <2>1, InOperation
  <2> QED BY <1>1, <2>1, <2>2 DEF OpsOk
<1>4. Main(t) \in Entities /\ Main(t)[1] = t /\ Main(t)[2] = 0
  BY EntityFacts
<1>5. \A i \in DOMAIN request[t].events :
        /\ Waiter(t, i) \in Entities /\ Waiter(t, i)[1] = t
        /\ Event(Waiter(t, i)) = request[t].events[i]
        /\ request[t].events[i].kind \in {"send", "recv", "wait"}
  BY <1>2, <1>3, RequestFacts
<1>6. /\ pc' \in [Entities -> Points]
      /\ \A i \in DOMAIN request[t].events : pc'[Waiter(t, i)] = request[t].events[i].kind
      /\ \A e \in Entities : e[1] # t => pc'[e] = pc[e]
      /\ \A e \in Entities : e[1] = t /\ e # Main(t) => pc'[e] \in {"none", "send", "recv", "wait"}
      /\ pc'[Main(t)] \in {"send", "recv", "wait", "helped"}
      /\ pc'[Main(t)] = "helped" <=> HasHelpers(t)
  <2>1. \A e \in Entities : Event(e) = request[e[1]].events[IF e[2] = 0 THEN 1 ELSE e[2]]
    BY DEF Event
  <2>2. \A e \in Entities :
          /\ (\E i \in DOMAIN request[t].events : e = Waiter(t, i)) =>
               e[1] = t /\ pc'[e] = Event(e).kind /\ pc'[e] \in {"send", "recv", "wait"}
          /\ ~ (\E i \in DOMAIN request[t].events : e = Waiter(t, i)) =>
               pc'[e] = IF e = Main(t) THEN "helped" ELSE pc[e]
    <3> SUFFICES ASSUME NEW e \in Entities
                 PROVE  /\ (\E i \in DOMAIN request[t].events : e = Waiter(t, i)) =>
                             e[1] = t /\ pc'[e] = Event(e).kind /\ pc'[e] \in {"send", "recv", "wait"}
                        /\ ~ (\E i \in DOMAIN request[t].events : e = Waiter(t, i)) =>
                             pc'[e] = IF e = Main(t) THEN "helped" ELSE pc[e]
      OBVIOUS
    <3>1. ASSUME NEW i \in DOMAIN request[t].events, e = Waiter(t, i)
          PROVE  e[1] = t /\ pc'[e] = Event(e).kind /\ pc'[e] \in {"send", "recv", "wait"}
      <4>1. e[1] = t /\ Event(e) = request[t].events[i]
            /\ request[t].events[i].kind \in {"send", "recv", "wait"}
        BY <1>5, <3>1
      <4>2. pc'[e] = request[t].events[IF e[2] = 0 THEN 1 ELSE e[2]].kind
        BY <1>1, <3>1
      <4>3. pc'[e] = Event(e).kind
        BY <2>1, <4>1, <4>2
      <4> QED BY <4>1, <4>3
    <3>2. ASSUME ~ (\E i \in DOMAIN request[t].events : e = Waiter(t, i))
          PROVE  pc'[e] = IF e = Main(t) THEN "helped" ELSE pc[e]
      BY <1>1, <3>2
    <3> QED BY <3>1, <3>2
  <2>3. \A i \in DOMAIN request[t].events : pc'[Waiter(t, i)] = request[t].events[i].kind
    BY <1>5, <2>2
  <2>4. \A e \in Entities : e[1] = t /\ e # Main(t) => pc[e] \in {"none", "send", "recv", "wait"}
    BY <1>3, NotWaiting
  <2>5. \A e \in Entities : e[1] # t => pc'[e] = pc[e]
    BY <1>4, <2>2
  <2>6. \A e \in Entities : e[1] = t /\ e # Main(t) => pc'[e] \in {"none", "send", "recv", "wait"}
    BY <2>2, <2>4
  <2>7. (\E i \in DOMAIN request[t].events : Main(t) = Waiter(t, i)) <=> ~ HasHelpers(t)
    <3>1. 1 \in DOMAIN request[t].events /\ \A i \in DOMAIN request[t].events : i \in 1 .. Fan
      BY <1>2, <1>3, RequestFacts, EntityFacts
    <3> QED BY <3>1, EntityFacts DEF Waiter
  <2>8. /\ pc'[Main(t)] \in {"send", "recv", "wait", "helped"}
        /\ pc'[Main(t)] = "helped" <=> HasHelpers(t)
    BY <1>4, <2>2, <2>7
  <2>9. pc' \in [Entities -> Points]
    <3>1. \A e \in Entities : pc'[e] \in Points
      BY <1>2, <2>5, <2>6, <2>8 DEF TypeOK, Points
    <3> QED BY <1>1, <3>1
  <2> QED BY <2>3, <2>5, <2>6, <2>8, <2>9
<1>7. Waits(t)' /\ ~ Idles(t)'
  BY <1>6 DEF Waits, Idles
<1>8. /\ Kept /\ Brought /\ PartnersInv' /\ CVarsLast
      /\ \A i \in DOMAIN request[t].events : InQueue(t, i)'
  BY <1>1, <1>3, <1>6, <1>7, BlockOk
<1>9. /\ inQ' \in [Channels -> Seq(Items)] /\ outQ' \in [Channels -> Seq(Items)]
      /\ cvars' \in [CVars -> [state : {"none", "unset", "set"}, waiting : Seq(Items)]]
      /\ \A v \in CVars : /\ cvars'[v].state = cvars[v].state
                          /\ cvars'[v].state # "unset" => cvars'[v].waiting = <<>>
  BY <1>3, BlockQueues
<1>10. /\ sched' \in SchedulerStates(Entities) /\ sched'.atomic = 0
       /\ \A f \in Entities : Scheduled(f)' = Scheduled(f) - One(f = Main(t))
  <2>1. PICK b : b = atomicBegin(sched)
    OBVIOUS
  <2>2. sched \in SchedulerStates(Entities) /\ NoThread \notin Entities
    BY <1>2, EntityFacts DEF TypeOK
  <2>3. /\ b \in SchedulerStates(Entities) /\ b.atomic = 1 /\ b.cur = Main(t)
        /\ \A f : Places(b, f) = Places(sched, f)
    BY <1>1, <2>1, <2>2, PlacesBegin
  <2>4. PICK m : m = b.marked \cup {Waiter(t, i) : i \in DOMAIN request[t].events}
    OBVIOUS
  <2>5. m \in SUBSET Entities
    <3>1. b.marked \subseteq Entities
      BY <2>3 DEF SchedulerStates
    <3> QED BY <1>5, <2>4, <3>1
  <2>6. PICK r : r = [b EXCEPT !.marked = m]
    OBVIOUS
  <2>7. /\ r \in SchedulerStates(Entities) /\ r.atomic = b.atomic /\ r.cur = b.cur
        /\ \A f : Places(r, f) = Places(b, f)
    BY <2>3, <2>5, <2>6, PlacesMarked
  <2>8. sched' = atomicSwitchToNext(r)
    BY <1>1, <2>1, <2>4, <2>6
  <2>9. r.cur \in Entities /\ r.atomic > 0
    BY <1>4, <2>3, <2>7
  <2>10. /\ atomicSwitchToNext(r) \in SchedulerStates(Entities)
         /\ atomicSwitchToNext(r).atomic = r.atomic - 1
         /\ \A f \in Entities : Places(atomicSwitchToNext(r), f) = Places(r, f) - One(r.cur = f)
    BY <2>2, <2>7, <2>9, PlacesSwitchToNext
  <2>11. \A f : One(r.cur = f) = One(f = Main(t))
    BY <2>3, <2>7 DEF One
  <2> QED BY <2>3, <2>7, <2>8, <2>10, <2>11 DEF Scheduled
<1>11. TypeOK'
  <2>1. \A e \in Entities : e[2] = 0 => pc'[e] \notin {"none", "return"}
    <3> SUFFICES ASSUME NEW e \in Entities, e[2] = 0 PROVE pc'[e] \notin {"none", "return"}
      OBVIOUS
    <3>1. CASE e[1] = t
      BY <1>6, <3>1, EntityFacts
    <3>2. CASE e[1] # t
      BY <1>2, <1>6, <3>2 DEF TypeOK
    <3> QED BY <3>1, <3>2
  <2> QED BY <1>1, <1>2, <1>6, <1>9, <1>10, <2>1 DEF TypeOK
<1>12. PICK M : M = {t}
  OBVIOUS
<1>13. PhaseInv' /\ CommitInv' /\ \A e : ~ Exec(e)' /\ ~ Readied(e)'
  <2>1. \A e \in Entities : e[1] \notin M => pc'[e] = pc[e]
    BY <1>6, <1>12
  <2>2. \A u \in Threads : u \in M => pc'[Main(u)] \notin {"choice", "reply"}
    BY <1>6, <1>12
  <2> QED BY <1>1, <1>2, <1>10, <2>1, <2>2, StillQuiet
<1>14. /\ \A v : ~ ToBeSet(v) /\ ~ ToBeSet(v)'
       /\ \A item : ~ ToWake(item) /\ ~ ToWake(item)'
       /\ \A v \in CVars : Settled(v)' <=> Settled(v)
  <2>1. /\ \A v : ~ ToBeSet(v) /\ ~ ToBeSet(v)'
        /\ \A item : ~ ToWake(item) /\ ~ ToWake(item)'
    BY <1>1, Quiet DEF ToBeSet, ToWake
  <2> QED BY <1>9, <2>1 DEF Settled
<1>15. \A u \in Threads : u \notin M => Same(u)
  <2> SUFFICES ASSUME NEW u \in Threads, u # t PROVE Same(u)
    BY <1>12
  <2>1. \A e \in Entities : e[1] = u => /\ pc'[e] = pc[e] /\ val'[e] = val[e]
                                        /\ (Exec(e)' <=> Exec(e)) /\ (Readied(e)' <=> Readied(e))
    BY <1>1, <1>6, <1>13, Quiet
  <2> QED BY <1>1, <2>1, TxFacts DEF Same
<1>16. \A e \in Entities : e[1] = t => ~ Given(e)' /\ ~ Placed(e)'
  <2> SUFFICES ASSUME NEW e \in Entities, e[1] = t
               PROVE  pc'[e] \in {"none", "send", "recv", "wait", "helped"}
    BY <1>13 DEF Given, Placed
  <2> QED BY <1>6
<1>17. ThreadOk(t)'
  <2>1. OpsOk(t)'
    <3>1. \E r \in Requests : Evaluated(t, r)'
      BY <1>1, <1>3, <1>8, RequestKept
    <3>2. ops'[t] > 0 /\ result'[Tx0(t)] = Nil /\ Tx0(t)' = Tx0(t) /\ pc'[Main(t)] # "sync"
      BY <1>1, <1>3, <1>6 DEF Tx0
    <3>3. HasHelpers(t)' <=> HasHelpers(t)
      BY <1>1 DEF HasHelpers
    <3> QED BY <1>6, <1>7, <3>1, <3>2, <3>3 DEF OpsOk
  <2>2. MetOk(t)'
    <3>1. \A e \in Entities : e[1] = t => ~ Given(e)
      BY <1>3, NotWaiting
    <3>2. \A m \in matched : Tx0(t) \notin {m[1], m[2]}
      BY <1>1, <1>3, <3>1, Unmet
    <3> QED BY <1>1, <3>2 DEF MetOk, Tx0
  <2>3. \A e \in Entities : e[1] = t => GivenOk(e)'
    BY <1>16 DEF GivenOk
  <2>4. ASSUME NEW e \in Entities, e[1] = t PROVE EntityOk(e)'
    <3>1. CASE e = Main(t)
      BY <1>4, <1>6, <3>1 DEF EntityOk
    <3>2. CASE e # Main(t)
      BY <1>6, <2>4, <3>2 DEF EntityOk
    <3> QED BY <3>1, <3>2
  <2> QED BY <2>1, <2>2, <2>3, <2>4 DEF ThreadOk
<1>18. BlockedOk(t)'
  BY <1>1, <1>3, <1>8 DEF BlockedOk, Tx0
<1>19. NacksOk(t)'
  <2>1. \A n : ~ Loses(t, n)
    BY <1>1, NoLosers
  <2>2. \A i \in DOMAIN request[t].events : ~ Commits(t, i)'
    <3> SUFFICES ASSUME NEW i \in DOMAIN request[t].events PROVE ~ Commits(t, i)'
      OBVIOUS
    <3>1. HasHelpers(t)' <=> HasHelpers(t)
      BY <1>1 DEF HasHelpers
    <3>2. Waiter(t, i)' = Waiter(t, i)
      BY <3>1 DEF Waiter
    <3>3. pc'[Waiter(t, i)'] \in {"send", "recv", "wait"}
      BY <1>5, <1>6, <3>2
    <3>4. ~ Readied(Waiter(t, i))'
      <4>1. PICK f : f = Waiter(t, i)'
        OBVIOUS
      <4>2. ~ Readied(f)'
        BY <1>13
      <4> QED BY <4>1, <4>2 DEF Readied
    <3>5. result'[Tx0(t)'] = Nil
      BY <1>1, <1>3 DEF Tx0
    <3> QED BY <1>6, <3>3, <3>4, <3>5 DEF Commits
  <2>3. \A n : ~ Loses(t, n)'
    BY <1>1, <2>2 DEF Loses
  <2>4. ops[t] > 0 => \A n \in request[t].nacks : Loses(t, n)' <=> Loses(t, n)
    BY <2>1, <2>3
  <2>5. \A v \in CVars : v[1] = t => (Settled(v)' <=> Settled(v))
    BY <1>14
  <2> QED BY <1>1, <1>8, <2>4, <2>5, NacksStay
<1>20. \A e \in Entities : IF e[1] \in M THEN Scheduled(e)' = One(Placed(e)')
                           ELSE Scheduled(e)' = Scheduled(e)
  <2>1. \A e \in Entities : Scheduled(e) = One(Placed(e))
    BY <1>2 DEF PlacesInv
  <2>2. Placed(Main(t))
    BY <1>1 DEF Placed
  <2>3. \A e \in Entities : e[1] = t /\ e # Main(t) => ~ Placed(e)
    BY <1>3, NotWaiting
  <2> HIDE DEF Scheduled
  <2>4. ASSUME NEW e \in Entities, e[1] = t PROVE Scheduled(e)' = One(Placed(e)')
    BY <1>10, <1>16, <2>1, <2>2, <2>3, <2>4 DEF One
  <2>5. ASSUME NEW e \in Entities, e[1] # t PROVE Scheduled(e)' = Scheduled(e)
    <3>1. e # Main(t)
      BY <1>4, <2>5
    <3> QED BY <1>10, <2>1, <3>1 DEF One
  <2> QED BY <1>12, <2>4, <2>5
<1>21. CVarsInv'
  <2>1. Distinct(agenda)'
    BY <1>1, <1>2 DEF CVarsInv, Distinct
  <2>2. ASSUME NEW v \in CVars
        PROVE  /\ cvars'[v].state # "unset" => cvars'[v].waiting = <<>>
               /\ v[2] > ops'[v[1]] => cvars'[v].state = "none"
               /\ ~ ToBeSet(v)'
    BY <1>1, <1>2, <1>9, <1>14 DEF CVarsInv
  <2>3. ASSUME NEW u \in Threads
        PROVE  /\ cvars'[<<u, 0, 0>>].state # "none"
               /\ Settled(<<u, 0, 0>>)' => pc'[Main(u)] \in {"exiting", "dead"}
    <3>1. PICK v : v = <<u, 0, 0>>
      OBVIOUS
    <3>2. v \in CVars /\ cvars'[v].state = cvars[v].state /\ (Settled(v)' <=> Settled(v))
      BY <1>9, <1>14, <3>1, CVarFacts
    <3>3. cvars[v].state # "none" /\ (Settled(v) => pc[Main(u)] \in {"exiting", "dead"})
      BY <1>2, <3>1 DEF CVarsInv
    <3>4. pc[Main(u)] \in {"exiting", "dead"} => pc'[Main(u)] \in {"exiting", "dead"}
      BY <1>1, <1>6, EntityFacts
    <3>5. Settled(<<u, 0, 0>>)' <=> Settled(v)'
      BY <3>1 DEF Settled, ToBeSet
    <3> QED BY <3>1, <3>2, <3>3, <3>4, <3>5
  <2> QED BY <2>1, <2>2, <2>3 DEF CVarsInv
<1>22. MatchInv'
  BY <1>1, MatchFrame
<1>23. /\ cancelled \subseteq cancelled' /\ matched \subseteq matched'
       /\ \A u \in Threads : u \in M /\ Waits(u) => Tx0(u) \in cancelled'
       /\ \A m \in matched' : m \notin matched => m[1][1] \in M /\ m[2][1] \in M
       /\ \A v \in CVars : v[1] \notin M => (Settled(v)' <=> Settled(v))
       /\ \A u \in Threads : u \in M => ThreadOk(u)' /\ BlockedOk(u)' /\ NacksOk(u)'
  BY <1>1, <1>3, <1>12, <1>14, <1>17, <1>18, <1>19
<1> HIDE DEF Scheduled
<1> QED BY <1>8, <1>11, <1>13, <1>15, <1>20, <1>21, <1>22, <1>23, StepOk

-----------------------------------------------------------------------------
(***************************************************************************)
(* The invariant.                                                          *)
(***************************************************************************)
LEMMA InvNext ==
  ASSUME EventInv, [Next]_vars
  PROVE  EventInv'
<1>1. CASE UNCHANGED vars
  BY <1>1, Unchanged
<1>2. CASE Preempt
  BY <1>2, PreemptStep
<1>3. ASSUME NEW t \in Threads, ThreadStep(t) PROVE EventInv'
  <2>1. CASE \E r \in Requests : Evaluate(t, r)
    BY <2>1, EvaluateStep
  <2>2. CASE SyncEnabled(t)
    BY <2>2, SyncEnabledStep
  <2>3. CASE PollFails(t)
    BY <2>3, PollFailsStep
  <2>4. CASE Block(t)
    BY <2>4, BlockStep
  <2>5. CASE \E c \in Channels : DoSend(t, c) \/ DoRecv(t, c)
    BY <2>5, DoSendStep, DoRecvStep
  <2>6. CASE DoWait(t)
    BY <2>6, DoWaitStep
  <2>7. CASE Exit(t)
    BY <2>7, ExitStep
  <2>8. CASE Exited(t)
    BY <2>8, ExitedStep
  <2> QED BY <1>3, <2>1, <2>2, <2>3, <2>4, <2>5, <2>6, <2>7, <2>8 DEF ThreadStep
<1>4. ASSUME NEW e \in Entities, EntityStep(e) PROVE EventInv'
  BY <1>4, CleanUpStep, ReceivedStep, SentStep, HelperReturnsStep DEF EntityStep
<1>5. CASE AgendaStep
  BY <1>5, SetCVarStep, WakeDead, WakeLive, MakeReadyStep DEF AgendaStep
<1> QED BY <1>1, <1>2, <1>3, <1>4, <1>5 DEF Next, Step

\* The queues, the transaction ids and the program points fit together in all the states
\* the program reaches.
THEOREM InvAlways == Spec => []EventInv
<1>1. Init => EventInv
  BY InitInv
<1>2. EventInv /\ [Next]_vars => EventInv'
  BY InvNext
<1> QED BY <1>1, <1>2, PTL DEF Spec

LEMMA TypeOfInv ==
  ASSUME EventInv
  PROVE  TypeOK
BY DEF EventInv

\* The queues hold items, the scheduler the threads of the program and their helpers.
THEOREM TypeOKAlways == Spec => []TypeOK
<1>1. EventInv => TypeOK
  BY TypeOfInv
<1> QED BY <1>1, InvAlways, PTL

\* Where a thread is between critical sections.
LEMMA Whereabouts ==
  ASSUME EventInv, sched.atomic = 0, NEW t \in Threads
  PROVE  /\ pc[Main(t)] \in {"run", "sync", "send", "recv", "wait", "helped", "dead"}
         /\ \A e \in Entities : Placed(e) <=> pc[e] \in {"run", "sync", "return"}
         /\ Waits(t) <=> pc[Main(t)] \in {"send", "recv", "wait", "helped"}
<1>1. /\ \A e : ~ Exec(e)
      /\ \A e \in Entities : pc[e] \notin {"choice", "exiting", "sent", "received"}
      /\ pc[Main(t)] \notin {"choice", "exiting", "sent", "received", "reply"}
  BY Quiet
<1>2. pc[Main(t)] \in Points /\ pc[Main(t)] \notin {"none", "return"}
  BY EntityFacts DEF EventInv, TypeOK
<1> QED BY <1>1, <1>2 DEF Placed, Points, Waits

\* A thread whose operation is alive has an item for each of its events.
LEMMA StillPending ==
  ASSUME EventInv, sched.atomic = 0, NEW t \in Threads, Waits(t), Tx0(t) \notin cancelled
  PROVE  Pending(t)
<1>1. \A i \in DOMAIN request[t].events : InQueue(t, i)
  BY DEF EventInv, ThreadsInv, BlockedOk
<1>2. \A item : ~ ToWake(item)
  BY Quiet
<1>3. \A i \in DOMAIN request[t].events : IsQueued(t, i)
  BY <1>1, <1>2 DEF InQueue, In, IsQueued
<1> QED BY <1>3 DEF Pending, Live

\* One whose operation is over is passed the result by a helper.
LEMMA HelperHasResult ==
  ASSUME EventInv, sched.atomic = 0, NEW t \in Threads, Waits(t), Tx0(t) \in cancelled
  PROVE  /\ pc[Main(t)] = "helped"
         /\ \E i \in 1 .. Fan : /\ pc[<<t, i>>] = "return" /\ Placed(<<t, i>>)
                                /\ \A j \in (1 .. Fan) \ {i} : ~ Placed(<<t, j>>)
<1>1. PICK e \in Entities : e[1] = t /\ Given(e)
  BY DEF EventInv, ThreadsInv, BlockedOk
<1>2. pc[e] = "return"
  BY <1>1, Quiet
<1>3. e # Main(t)
  BY <1>2, EntityFacts DEF EventInv, TypeOK
<1>4. /\ pc[Main(t)] = "helped"
      /\ \A f \in Entities : f[1] = t /\ f # e => ~ Placed(f)
  BY <1>1, <1>3, GivenFacts
<1>5. PICK i \in 1 .. Fan : e = <<t, i>>
  BY <1>1, <1>3, EntityFacts
<1>6. \A j \in (1 .. Fan) \ {i} : <<t, j>> \in Entities /\ <<t, j>>[1] = t /\ <<t, j>> # e
  BY <1>5, EntityFacts
<1>7. Placed(e)
  BY <1>2 DEF Placed
<1> QED BY <1>2, <1>4, <1>5, <1>6, <1>7

LEMMA NobodyLost ==
  ASSUME EventInv
  PROVE  NobodyIsLost
<1> HIDE DEF Scheduled, Placed
<1> SUFFICES ASSUME sched.atomic = 0, NEW t \in Threads
             PROVE  CASE pc[Main(t)] \in {"run", "sync"} -> Scheduled(Main(t)) = 1
                      [] pc[Main(t)] \in {"send", "recv", "wait"} ->
                           Scheduled(Main(t)) = 0 /\ Pending(t)
                      [] pc[Main(t)] = "helped" ->
                           /\ Scheduled(Main(t)) = 0
                           /\ \/ /\ Pending(t)
                                 /\ \A i \in 1..Fan : Scheduled(<<t, i>>) = 0
                              \/ /\ ~Live([tx |-> Tx0(t)])
                                 /\ \E i \in 1..Fan :
                                      /\ pc[<<t, i>>] = "return" /\ Scheduled(<<t, i>>) = 1
                                      /\ \A j \in (1..Fan) \ {i} : Scheduled(<<t, j>>) = 0
                      [] pc[Main(t)] = "dead" -> Scheduled(Main(t)) = 0
                      [] OTHER -> FALSE
  BY DEF NobodyIsLost
<1>1. \A e \in Entities : Scheduled(e) = One(Placed(e))
  BY DEF EventInv, PlacesInv
<1>2. /\ Main(t) \in Entities
      /\ \A i \in 1 .. Fan : <<t, i>> \in Entities /\ <<t, i>>[1] = t /\ <<t, i>> # Main(t)
  BY EntityFacts
<1>3. /\ pc[Main(t)] \in {"run", "sync", "send", "recv", "wait", "helped", "dead"}
      /\ Placed(Main(t)) <=> pc[Main(t)] \in {"run", "sync", "return"}
      /\ Waits(t) <=> pc[Main(t)] \in {"send", "recv", "wait", "helped"}
  BY <1>2, Whereabouts
<1>4. CASE pc[Main(t)] \in {"run", "sync"}
  BY <1>1, <1>2, <1>3, <1>4 DEF One
<1>5. CASE pc[Main(t)] \in {"send", "recv", "wait"}
  <2>1. Tx0(t) \notin cancelled
    BY <1>3, <1>5, HelperHasResult
  <2>2. Pending(t)
    BY <1>3, <1>5, <2>1, StillPending
  <2>3. Scheduled(Main(t)) = 0
    BY <1>1, <1>2, <1>3, <1>5 DEF One
  <2> QED BY <1>5, <2>2, <2>3
<1>6. CASE pc[Main(t)] = "helped"
  <2>1. Scheduled(Main(t)) = 0 /\ Waits(t)
    BY <1>1, <1>2, <1>3, <1>6 DEF One
  <2>2. CASE Tx0(t) \notin cancelled
    <3>1. Pending(t)
      BY <2>1, <2>2, StillPending
    <3>2. \A i \in 1 .. Fan : ~ Placed(<<t, i>>)
      BY <1>2, <2>1, <2>2, Uncommitted
    <3>3. \A i \in 1 .. Fan : Scheduled(<<t, i>>) = 0
      BY <1>1, <1>2, <3>2 DEF One
    <3> QED BY <1>6, <2>1, <3>1, <3>3
  <2>3. CASE Tx0(t) \in cancelled
    <3>1. PICK i \in 1 .. Fan : /\ pc[<<t, i>>] = "return" /\ Placed(<<t, i>>)
                                /\ \A j \in (1 .. Fan) \ {i} : ~ Placed(<<t, j>>)
      BY <2>1, <2>3, HelperHasResult
    <3>2. Scheduled(<<t, i>>) = 1 /\ \A j \in (1 .. Fan) \ {i} : Scheduled(<<t, j>>) = 0
      BY <1>1, <1>2, <3>1 DEF One
    <3>3. ~ Live([tx |-> Tx0(t)])
      BY <2>3 DEF Live
    <3> QED BY <1>6, <2>1, <3>1, <3>2, <3>3
  <2> QED BY <2>2, <2>3
<1>7. CASE pc[Main(t)] = "dead"
  BY <1>1, <1>2, <1>3, <1>7 DEF One
<1> QED BY <1>3, <1>4, <1>5, <1>6, <1>7

LEMMA NoPartners ==
  ASSUME EventInv
  PROVE  NoPartnersAsleep
<1> SUFFICES ASSUME sched.atomic = 0
             PROVE  /\ \A c \in Channels : \A i \in DOMAIN inQ[c], j \in DOMAIN outQ[c] :
                         Live(inQ[c][i]) /\ Live(outQ[c][j]) => inQ[c][i].tx = outQ[c][j].tx
                    /\ \A v \in CVars : cvars[v].state = "set" =>
                         \A t \in Threads : ops[t] > 0 /\ Live([tx |-> Tx0(t)]) /\ result[Tx0(t)] = Nil
                                              /\ pc[Main(t)] # "sync" =>
                           \A i \in DOMAIN request[t].events :
                             ~(request[t].events[i].kind = "wait" /\ request[t].events[i].on = v)
  BY DEF NoPartnersAsleep
<1>1. \A c \in Channels : \A i \in DOMAIN inQ[c], j \in DOMAIN outQ[c] :
        Live(inQ[c][i]) /\ Live(outQ[c][j]) => inQ[c][i].tx = outQ[c][j].tx
  BY DEF EventInv, PartnersInv, In
<1>2. ASSUME NEW v \in CVars, cvars[v].state = "set", NEW t \in Threads, ops[t] > 0,
             Live([tx |-> Tx0(t)]), result[Tx0(t)] = Nil, pc[Main(t)] # "sync",
             NEW i \in DOMAIN request[t].events,
             request[t].events[i].kind = "wait" /\ request[t].events[i].on = v
      PROVE  FALSE
  <2>1. ~ Idles(t)
    BY <1>2 DEF EventInv, ThreadsInv, ThreadOk, OpsOk
  <2>2. Waits(t) /\ Tx0(t) \notin cancelled
    BY <1>2, <2>1, Whereabouts DEF Idles, Live
  <2>3. IsQueued(t, i)
    BY <2>2, StillPending DEF Pending
  <2>4. cvars[v].waiting = <<>>
    BY <1>2 DEF EventInv, CVarsInv
  <2>5. PICK ev : ev = request[t].events[i]
    OBVIOUS
  <2>6. QueueOf(ev) = <<>>
    BY <1>2, <2>4, <2>5 DEF QueueOf
  <2> QED BY <2>3, <2>5, <2>6 DEF IsQueued
<1> QED BY <1>1, <1>2

\* Between critical sections every thread is in one place, and one that is blocked has a
\* live item in the queue of every event of its choice: rendezvous, wake-up and the
\* cancellation of transaction ids lose nobody and resume nobody twice.
THEOREM NobodyIsLostAlways == Spec => []NobodyIsLost
<1>1. EventInv => NobodyIsLost
  BY NobodyLost
<1> QED BY <1>1, InvAlways, PTL

\* A sender and a receiver on one channel, or a waiter and a variable that is set, are
\* never left asleep: what polling misses, blocking cannot.
THEOREM NoPartnersAsleepAlways == Spec => []NoPartnersAsleep
<1>1. EventInv => NoPartnersAsleep
  BY NoPartners
<1> QED BY <1>1, InvAlways, PTL

-----------------------------------------------------------------------------
(***************************************************************************)
(* Negative acknowledgements.                                              *)
(***************************************************************************)
\* An operation returns with one of its events, or with none.
ResultOk(t) ==
  ops[t] > 0 /\ result[Tx0(t)] # Nil =>
    result[Tx0(t)].event \in {0} \cup DOMAIN request[t].events

ResultsInv == \A t \in Threads : ResultOk(t)

\* The result of u, if it is new, names one of its events.
LEMMA ResultFrame ==
  ASSUME ResultsInv, NEW u \in Threads, ops'[u] = ops[u], request'[u] = request[u],
         \/ result'[Tx0(u)] = result[Tx0(u)]
         \/ result'[Tx0(u)].event \in {0} \cup DOMAIN request[u].events
  PROVE  ResultOk(u)'
<1>1. Tx0(u)' = Tx0(u)
  BY DEF Tx0
<1> QED BY <1>1 DEF ResultsInv, ResultOk

\* A passive thread returns with its only event.
LEMMA OutcomeOk ==
  ASSUME EventInv, NEW e \in Entities, Given(e), NEW v, NEW u \in Threads
  PROVE  \/ Outcome(e, v)[Tx0(u)] = result[Tx0(u)]
         \/ Outcome(e, v)[Tx0(u)].event \in {0} \cup DOMAIN request[u].events
<1>1. /\ OpsOk(e[1]) /\ ops[e[1]] > 0 /\ Tx0(e[1]) \in Tx
  BY GivenFacts, EntityFacts
<1>2. 1 \in DOMAIN request[e[1]].events
  <2>1. /\ Len(request[e[1]].events) \in 1 .. Fan /\ Fan \in Nat
        /\ DOMAIN request[e[1]].events = 1 .. Len(request[e[1]].events)
    BY <1>1, RequestFacts, EntityFacts DEF EventInv
  <2> QED BY <2>1
<1>3. result \in [Tx -> {Nil} \cup [event : 0 .. Fan, val : Tx \cup {Nil}]]
  BY DEF EventInv, TypeOK
<1>4. PICK r : r = Outcome(e, v)
  OBVIOUS
<1>5. r = result \/ r = [result EXCEPT ![Tx0(e[1])] = [event |-> 1, val |-> v]]
  BY <1>4 DEF Outcome
<1>6. CASE r = result
  BY <1>4, <1>6
<1>7. CASE r = [result EXCEPT ![Tx0(e[1])] = [event |-> 1, val |-> v]]
  <2>1. CASE u = e[1]
    <3>1. r[Tx0(u)] = [event |-> 1, val |-> v]
      BY <1>1, <1>3, <1>7, <2>1
    <3>2. r[Tx0(u)].event = 1
      BY <3>1
    <3> QED BY <1>2, <1>4, <2>1, <3>2
  <2>2. CASE u # e[1]
    <3>1. Tx0(u) # Tx0(e[1])
      BY <2>2, TxFacts
    <3>2. r[Tx0(u)] = result[Tx0(u)]
      BY <1>3, <1>7, <3>1
    <3> QED BY <1>4, <3>2
  <2> QED BY <2>1, <2>2
<1> QED BY <1>5, <1>6, <1>7

LEMMA ResultsNext ==
  ASSUME EventInv, ResultsInv, [Next]_vars
  PROVE  ResultsInv'
<1> SUFFICES ASSUME NEW u \in Threads PROVE ResultOk(u)'
  BY DEF ResultsInv
<1>1. result \in [Tx -> {Nil} \cup [event : 0 .. Fan, val : Tx \cup {Nil}]]
  BY DEF EventInv, TypeOK
<1>2. ASSUME NEW t \in Threads, NEW k \in {0} \cup DOMAIN request[t].events, NEW v,
             result' = [result EXCEPT ![Tx0(t)] = [event |-> k, val |-> v]], ~ Idles(t),
             ops' = ops, request' = request
      PROVE  ResultOk(u)'
  <2>1. Tx0(t) \in Tx
    BY <1>2, InOperation
  <2>2. CASE u = t
    <3>1. result'[Tx0(u)] = [event |-> k, val |-> v]
      BY <1>1, <1>2, <2>1, <2>2
    <3>2. result'[Tx0(u)].event = k
      BY <3>1
    <3> QED BY <1>2, <2>2, <3>2, ResultFrame
  <2>3. CASE u # t
    <3>1. Tx0(u) # Tx0(t)
      BY <2>3, TxFacts
    <3>2. result'[Tx0(u)] = result[Tx0(u)]
      BY <1>1, <1>2, <3>1
    <3> QED BY <1>2, <3>2, ResultFrame
  <2> QED BY <2>2, <2>3
<1>3. CASE result' = result /\ ops' = ops /\ request' = request
  BY <1>3, ResultFrame
<1>4. ASSUME NEW t \in Threads, ThreadStep(t) PROVE ResultOk(u)'
  <2>1. ASSUME NEW r \in Requests, Evaluate(t, r) PROVE ResultOk(u)'
    <3>1. /\ result' = result /\ ops' = [ops EXCEPT ![t] = @ + 1] /\ ops[t] < MaxOps
          /\ request' = [request EXCEPT ![t] = Forced(r)]
      BY <2>1 DEF Evaluate
    <3>2. ops \in [Threads -> 0 .. MaxOps] /\ DOMAIN request = Threads /\ MatchInv
      BY DEF EventInv, TypeOK
    <3>3. CASE u = t
      <4>1. ops[t] \in Nat /\ MaxOps \in Nat /\ ops'[t] = ops[t] + 1
        BY <3>1, <3>2, EntityFacts
      <4>2. PICK x : x = <<t, ops[t] + 1>>
        OBVIOUS
      <4>3. x \in Tx /\ x[1] = t /\ x[2] > ops[t]
        BY <3>1, <4>1, <4>2 DEF Tx
      <4>4. result[x] = Nil
        BY <3>2, <4>3 DEF MatchInv
      <4>5. Tx0(u)' = x
        BY <3>3, <4>1, <4>2 DEF Tx0
      <4> QED BY <3>1, <4>4, <4>5 DEF ResultOk
    <3>4. CASE u # t
      BY <3>1, <3>2, <3>4, ResultFrame
    <3> QED BY <3>3, <3>4
  <2>2. CASE SyncEnabled(t) \/ Block(t) \/ Exit(t) \/ Exited(t)
    BY <1>3, <2>2 DEF SyncEnabled, Block, Exit, Exited
  <2>3. CASE PollFails(t)
    BY <1>2, <2>3 DEF PollFails, Runs, Idles
  <2>4. ASSUME pc[Main(t)] = "choice", result' = [result EXCEPT ![Tx0(t)] = [event |-> choice, val |-> Nil]],
               ops' = ops, request' = request
        PROVE  ResultOk(u)'
    BY <1>2, <2>4, CommitsChoice
  <2>5. CASE DoWait(t)
    BY <2>4, <2>5 DEF DoWait, Runs, Return
  <2>6. ASSUME NEW c \in Channels, DoSend(t, c) PROVE ResultOk(u)'
    <3>1. PICK item : item = Head(inQ[c])
      OBVIOUS
    <3>2. CASE Fails(item)
      BY <1>3, <2>6, <3>1, <3>2 DEF DoSend, Fail
    <3>3. CASE ~ Fails(item)
      BY <2>4, <2>6, <3>1, <3>3 DEF DoSend, Runs, Return
    <3> QED BY <3>2, <3>3
  <2>7. ASSUME NEW c \in Channels, DoRecv(t, c) PROVE ResultOk(u)'
    <3>1. PICK item : item = Head(outQ[c])
      OBVIOUS
    <3>2. CASE Fails(item)
      BY <1>3, <2>7, <3>1, <3>2 DEF DoRecv, Fail
    <3>3. CASE ~ Fails(item)
      BY <1>3, <2>7, <3>1, <3>3 DEF DoRecv
    <3> QED BY <3>2, <3>3
  <2> QED BY <1>4, <2>1, <2>2, <2>3, <2>5, <2>6, <2>7 DEF ThreadStep
<1>5. ASSUME NEW e \in Entities, EntityStep(e) PROVE ResultOk(u)'
  <2>1. CASE CleanUp(e)
    BY <1>3, <2>1 DEF CleanUp
  <2>2. ASSUME sched.cur = e, sched.atomic = 1, pc[e] \in {"sent", "received"} PROVE Given(e)
    BY <2>2 DEF Given, Exec
  <2>3. CASE Received(e)
    BY <2>2, <2>3, OutcomeOk, ResultFrame DEF Received, Runs
  <2>4. CASE Sent(e)
    <3>1. /\ sched.cur = e /\ sched.atomic = 1 /\ pc[e] = "sent"
          /\ ops' = ops /\ request' = request
          /\ result' = [Outcome(e, Nil) EXCEPT
                          ![Tx0(val[e][1])] = [event |-> choice, val |-> Tx0(e[1])]]
      BY <2>4 DEF Sent, Runs
    <3>2. PICK rt \in Threads : val[e] = Main(rt) /\ pc[Main(rt)] = "reply"
      BY <3>1 DEF EventInv, PhaseInv
    <3>3. choice \in DOMAIN request[rt].events /\ Tx0(rt) \in Tx
      BY <3>2, CommitsChoice
    <3>4. val[e][1] = rt
      BY <3>2, EntityFacts
    <3>5. DOMAIN Outcome(e, Nil) = Tx
      BY <1>1 DEF Outcome
    <3>6. \/ Outcome(e, Nil)[Tx0(u)] = result[Tx0(u)]
          \/ Outcome(e, Nil)[Tx0(u)].event \in {0} \cup DOMAIN request[u].events
      BY <2>2, <3>1, OutcomeOk
    <3>7. PICK o : o = Outcome(e, Nil)
      OBVIOUS
    <3>8. result' = [o EXCEPT ![Tx0(rt)] = [event |-> choice, val |-> Tx0(e[1])]] /\ DOMAIN o = Tx
      BY <3>1, <3>4, <3>5, <3>7
    <3>9. CASE u = rt
      <4>1. result'[Tx0(u)] = [event |-> choice, val |-> Tx0(e[1])]
        BY <3>3, <3>8, <3>9
      <4>2. result'[Tx0(u)].event = choice
        BY <4>1
      <4> QED BY <3>1, <3>3, <3>9, <4>2, ResultFrame
    <3>10. CASE u # rt
      <4>1. Tx0(u) # Tx0(rt)
        BY <3>10, TxFacts
      <4>2. result'[Tx0(u)] = o[Tx0(u)]
        BY <3>8, <4>1
      <4> QED BY <3>1, <3>6, <3>7, <4>2, ResultFrame
    <3> QED BY <3>9, <3>10
  <2>5. CASE HelperReturns(e)
    <3>1. /\ pc[e] = "return" /\ ops' = ops /\ request' = request
          /\ result' = [result EXCEPT ![Tx0(e[1])] = [event |-> e[2], val |-> HelperVal(e)]]
      BY <2>5 DEF HelperReturns, Runs
    <3>2. Given(e) /\ e[1] \in Threads /\ e # Main(e[1])
      BY <3>1, EntityFacts DEF Given, EventInv, TypeOK
    <3>3. PICK i \in DOMAIN request[e[1]].events : i = IF e[2] = 0 THEN 1 ELSE e[2]
      BY <3>2, GivenFacts
    <3>4. e[2] \in DOMAIN request[e[1]].events /\ ~ Idles(e[1])
      BY <3>2, <3>3, EntityFacts, GivenFacts
    <3> QED BY <1>2, <3>1, <3>2, <3>4
  <2> QED BY <1>5, <2>1, <2>3, <2>4, <2>5 DEF EntityStep
<1>6. CASE AgendaStep
  <2>1. CASE SetCVar
    BY <1>3, <2>1 DEF SetCVar, Fail
  <2>2. CASE Wake
    BY <1>3, <2>2 DEF Wake
  <2>3. CASE MakeReady
    <3>1. /\ agenda # <<>> /\ Head(agenda).do = "ready" /\ ops' = ops /\ request' = request
          /\ result' = Outcome(Head(agenda).item.thr, Nil)
      BY <2>3 DEF MakeReady
    <3>2. PICK f : f = Head(agenda).item.thr
      OBVIOUS
    <3>3. agenda \in Seq(Tasks)
      BY DEF EventInv, TypeOK
    <3>4. f \in Entities
      <4>1. Head(agenda) \in Tasks
        BY <3>1, <3>3
      <4> QED BY <3>1, <3>2, <4>1 DEF Tasks, Items
    <3>5. Readied(f)
      <4>1. 1 \in DOMAIN agenda /\ agenda[1] = Head(agenda)
        BY <3>1, <3>3
      <4> QED BY <3>1, <3>2, <4>1 DEF Readied
    <3>6. Given(f)
      BY <3>5 DEF Given
    <3> QED BY <3>1, <3>2, <3>4, <3>6, OutcomeOk, ResultFrame
  <2> QED BY <1>6, <2>1, <2>2, <2>3 DEF AgendaStep
<1>7. CASE Preempt \/ UNCHANGED vars
  BY <1>3, <1>7 DEF Preempt, vars
<1> QED BY <1>4, <1>5, <1>6, <1>7 DEF Next, Step

\* Between critical sections, what a thread has committed to.
LEMMA CommitmentFacts ==
  ASSUME EventInv, ResultsInv, sched.atomic = 0, NEW t \in Threads, ops[t] > 0
  PROVE  /\ CommittedTo(t) # 0 => CommittedTo(t) \in DOMAIN request[t].events
         /\ \A i \in DOMAIN request[t].events : Commits(t, i) <=> i = CommittedTo(t)
<1>1. TypeOK /\ OpsOk(t)
  BY DEF EventInv, ThreadsInv, ThreadOk
<1>2. /\ pc[Main(t)] \notin {"choice", "reply"}
      /\ \A e : ~ Readied(e)
      /\ \A e \in Entities : pc[e] \notin {"sent", "received"}
      /\ \A e \in Entities : Given(e) <=> pc[e] = "return"
  BY Quiet
<1>3. \A i \in DOMAIN request[t].events : /\ i \in 1 .. Fan /\ i # 0
                                          /\ Waiter(t, i) \in Entities /\ ~ Readied(Waiter(t, i))
  <2>1. \A i \in DOMAIN request[t].events : i \in 1 .. Fan /\ Waiter(t, i) \in Entities
    BY <1>1, RequestFacts
  <2> QED BY <1>2, <2>1
<1>4. CASE result[Tx0(t)] # Nil
  <2>1. Idles(t) /\ ~ Waits(t)
    BY <1>1, <1>2, <1>4 DEF OpsOk, Idles, Waits
  <2>2. CommittedTo(t) = result[Tx0(t)].event
    BY <1>4 DEF CommittedTo
  <2>3. CommittedTo(t) \in {0} \cup DOMAIN request[t].events
    BY <1>4, <2>2 DEF ResultsInv, ResultOk
  <2>4. \A i \in DOMAIN request[t].events : Commits(t, i) <=> i = CommittedTo(t)
    BY <1>2, <1>4, <2>1, <2>2 DEF Commits
  <2> QED BY <2>3, <2>4
<1>5. CASE result[Tx0(t)] = Nil
  <2> DEFINE H == {i \in 1 .. Fan : pc[<<t, i>>] = "return"}
  <2>1. CommittedTo(t) = IF H = {} THEN 0 ELSE CHOOSE i \in H : TRUE
    BY <1>5 DEF CommittedTo
  <2>2. \A i \in DOMAIN request[t].events :
          Commits(t, i) <=> Waits(t) /\ pc[Waiter(t, i)] = "return"
    BY <1>2, <1>3, <1>5 DEF Commits
  <2>3. \A e \in Entities : pc[e] = "return" => e # Main(e[1])
    BY <1>1, EntityFacts DEF TypeOK
  <2>4. \A i \in DOMAIN request[t].events : Commits(t, i) => i \in H
    <3> SUFFICES ASSUME NEW i \in DOMAIN request[t].events, pc[Waiter(t, i)] = "return"
                 PROVE  i \in H
      BY <2>2
    <3>1. Waiter(t, i) = <<t, i>>
      BY <1>3, <2>3, EntityFacts DEF Waiter
    <3> QED BY <1>3, <3>1
  <2>5. \A i \in H : i \in DOMAIN request[t].events /\ Commits(t, i)
    <3> SUFFICES ASSUME NEW i \in H PROVE i \in DOMAIN request[t].events /\ Commits(t, i)
      OBVIOUS
    <3>1. PICK e \in Entities : e = <<t, i>> /\ e[1] = t /\ e[2] = i /\ pc[e] = "return" /\ i # 0
      BY EntityFacts
    <3>2. Given(e)
      BY <1>2, <3>1
    <3>3. Waits(t) /\ \E j \in DOMAIN request[t].events :
            e = Waiter(t, j) /\ j = IF e[2] = 0 THEN 1 ELSE e[2]
      BY <3>1, <3>2, GivenFacts
    <3> QED BY <2>2, <3>1, <3>3
  <2>6. \A i, j \in H : i = j
    <3> SUFFICES ASSUME NEW i \in H, NEW j \in H PROVE i = j
      OBVIOUS
    <3>1. PICK e \in Entities : e = <<t, i>> /\ e[1] = t /\ e[2] = i /\ pc[e] = "return"
      BY EntityFacts
    <3>2. PICK f \in Entities : f = <<t, j>> /\ f[1] = t /\ f[2] = j /\ pc[f] = "return"
      BY EntityFacts
    <3>3. Given(e) /\ Given(f)
      BY <1>2, <3>1, <3>2
    <3>4. f = e
      BY <3>1, <3>2, <3>3, GivenFacts
    <3> QED BY <3>1, <3>2, <3>4
  <2>7. CASE H = {}
    <3>1. CommittedTo(t) = 0
      BY <2>1, <2>7
    <3> QED BY <1>3, <2>4, <2>7, <3>1
  <2>8. CASE H # {}
    <3>1. CommittedTo(t) \in H
      BY <2>1, <2>8
    <3> QED BY <2>4, <2>5, <2>6, <3>1
  <2> QED BY <2>7, <2>8
<1> QED BY <1>4, <1>5

LEMMA NacksSettled ==
  ASSUME EventInv, ResultsInv
  PROVE  NackIffLost
<1> SUFFICES ASSUME sched.atomic = 0, NEW t \in Threads, ops[t] > 0, NEW v \in Nacks(t)
             PROVE  (cvars[v].state = "set") <=>
                      /\ CommittedTo(t) # 0
                      /\ v[3] \notin request[t].events[CommittedTo(t)].within
  BY DEF NackIffLost
<1>1. PICK n \in request[t].nacks : v = <<t, ops[t], n>>
  BY DEF Nacks
<1>2. v[3] = n
  BY <1>1
<1>3. Settled(v) <=> Loses(t, n)
  BY <1>1 DEF EventInv, ThreadsInv, NacksOk
<1>4. Settled(v) <=> cvars[v].state = "set"
  BY Quiet DEF Settled
<1>5. /\ CommittedTo(t) # 0 => CommittedTo(t) \in DOMAIN request[t].events
      /\ \A i \in DOMAIN request[t].events : Commits(t, i) <=> i = CommittedTo(t)
  BY CommitmentFacts
<1>6. \A i \in DOMAIN request[t].events : i # 0
  BY RequestFacts DEF EventInv, ThreadsInv, ThreadOk
<1>7. Loses(t, n) <=> /\ CommittedTo(t) # 0
                      /\ n \notin request[t].events[CommittedTo(t)].within
  BY <1>5, <1>6 DEF Loses
<1> QED BY <1>2, <1>3, <1>4, <1>7

LEMMA InitResults ==
  ASSUME Init
  PROVE  ResultsInv
BY EntityFacts DEF Init, ResultsInv, ResultOk

\* The nack of a withNack group is set exactly when the operation has committed to an
\* event outside the group, whoever commits it: polling, a partner, or a variable that
\* is set in the middle of another thread's rendezvous.
THEOREM NackIffLostAlways == Spec => []NackIffLost
<1>1. Init => ResultsInv
  BY InitResults
<1>2. EventInv /\ ResultsInv /\ [Next]_vars => ResultsInv'
  BY ResultsNext
<1>3. EventInv /\ ResultsInv => NackIffLost
  BY NacksSettled
<1> QED BY <1>1, <1>2, <1>3, InvAlways, PTL DEF Spec

-----------------------------------------------------------------------------
(***************************************************************************)
(* No internal exception, if the requests are free of the race.            *)
(*                                                                         *)
(* A thread that has polled a partner sets its nacks before it forces the  *)
(* partner's transaction id.  All that may be woken in between waits for a *)
(* nack numbered in a set G that waking it cannot lead out of, and no      *)
(* operation that waits for one of those is the partner.                   *)
(***************************************************************************)
QHead(ev) == IF ev.kind = "send" THEN Head(inQ[ev.on]) ELSE Head(outQ[ev.on])

Spares(G, ev) ==
  /\ Closed(G, ev, Requests)
  /\ \A v : ToBeSet(v) => v[3] \in G
  /\ \A item : ToWake(item) /\ Live(item) =>
       \E v \in CVars : v[3] \in G /\ LiveItem(item, "wait", v)

Safe(ev) == Live(QHead(ev)) /\ \E G \in SUBSET {1, 2} : Spares(G, ev)

RaceOk(t) ==
  pc[Main(t)] = "choice" /\ request[t].events[choice].kind # "wait" =>
    Safe(request[t].events[choice])

RaceInv == \A t \in Threads : RaceOk(t)

\* What a request says of the operation it has become.
LEMMA ClosedFacts ==
  ASSUME EventInv, NEW G, NEW ev, Closed(G, ev, Requests), NEW u \in Threads, ops[u] > 0,
         NEW i \in DOMAIN request[u].events, request[u].events[i].kind = "wait",
         request[u].events[i].on[3] \in G
  PROVE  request[u].nacks \ request[u].events[i].within \subseteq G /\ ~ Partner(ev, request[u])
<1>1. OpsOk(u) /\ TypeOK
  BY DEF EventInv, ThreadsInv, ThreadOk
<1>2. PICK r \in Requests : Evaluated(u, r)
  BY <1>1 DEF OpsOk
<1>3. DOMAIN request[u].events = DOMAIN r.events
  <2>1. r.events \in Seq(BaseEvents) /\ request[u].events \in Seq(Events)
    BY <1>2, RequestsAssumption DEF Evaluated, Operations
  <2> QED BY <1>2, <2>1 DEF Evaluated
<1>4. /\ request[u].nacks = r.nacks
      /\ \A k \in DOMAIN r.events :
           /\ request[u].events[k].kind = r.events[k].kind
           /\ request[u].events[k].within = r.events[k].within
           /\ r.events[k].kind = "wait" => request[u].events[k].on[3] = r.events[k].on[2]
           /\ r.events[k].kind # "wait" => request[u].events[k].on = r.events[k].on
  BY <1>2 DEF Evaluated
<1>5. r.nacks \ r.events[i].within \subseteq G /\ ~ Partner(ev, r)
  BY <1>3, <1>4 DEF Closed
<1>6. ~ Partner(ev, request[u])
  <2> SUFFICES ASSUME NEW k \in DOMAIN request[u].events,
                      {ev.kind, request[u].events[k].kind} = {"send", "recv"},
                      ev.on = request[u].events[k].on
               PROVE  FALSE
    BY DEF Partner
  <2>1. request[u].events[k].kind # "wait"
    OBVIOUS
  <2>2. r.events[k].kind = request[u].events[k].kind /\ request[u].events[k].on = r.events[k].on
    BY <1>3, <1>4, <2>1
  <2> QED BY <1>3, <1>5, <2>2 DEF Partner
<1> QED BY <1>3, <1>4, <1>5, <1>6

\* What a thread that commits to a partner may set.
LEMMA FreeChoice ==
  ASSUME EventInv, RaceFree(Requests), NEW t \in Threads, ops[t] > 0,
         NEW i \in DOMAIN request[t].events, request[t].events[i].kind # "wait"
  PROVE  \E G \in SUBSET {1, 2} : /\ request[t].nacks \ request[t].events[i].within \subseteq G
                                  /\ Closed(G, request[t].events[i], Requests)
<1>1. OpsOk(t) /\ TypeOK
  BY DEF EventInv, ThreadsInv, ThreadOk
<1>2. PICK r \in Requests : Evaluated(t, r)
  BY <1>1 DEF OpsOk
<1>3. DOMAIN request[t].events = DOMAIN r.events
  <2>1. r.events \in Seq(BaseEvents) /\ request[t].events \in Seq(Events)
    BY <1>2, RequestsAssumption DEF Evaluated, Operations
  <2> QED BY <1>2, <2>1 DEF Evaluated
<1>4. /\ request[t].nacks = r.nacks
      /\ request[t].events[i].kind = r.events[i].kind
      /\ request[t].events[i].within = r.events[i].within
      /\ request[t].events[i].on = r.events[i].on
  BY <1>2, <1>3 DEF Evaluated
<1>5. PICK G \in SUBSET {1, 2} : /\ r.nacks \ r.events[i].within \subseteq G
                                 /\ Closed(G, r.events[i], Requests)
  BY <1>2, <1>3, <1>4 DEF RaceFree
<1>6. Closed(G, request[t].events[i], Requests)
  BY <1>4, <1>5 DEF Closed, Partner
<1> QED BY <1>4, <1>5, <1>6

\* Whoever is at the head of the queue polled could be the partner.
LEMMA HeadPartner ==
  ASSUME EventInv, NEW t \in Threads, pc[Main(t)] = "choice", NEW ev,
         ev = request[t].events[choice], ev.kind # "wait", Live(QHead(ev))
  PROVE  \E u \in Threads : Waits(u) /\ QHead(ev).tx = Tx0(u) /\ Partner(ev, request[u])
<1>1. TypeOK /\ ItemsInv /\ ChoiceOk(t) /\ ops[t] > 0 /\ OpsOk(t)
  BY CommitsChoice DEF EventInv, CommitInv
<1>2. ev.kind \in {"send", "recv"} /\ ev.on \in Channels
  BY <1>1, RequestFacts DEF ChoiceOk
<1>3. PICK kind \in {"send", "recv"} : {ev.kind, kind} = {"send", "recv"}
  BY <1>2
<1>4. LiveItem(QHead(ev), kind, ev.on)
  <2>1. CASE ev.kind = "send"
    <3>1. inQ[ev.on] \in Seq(Items) /\ inQ[ev.on] # <<>> /\ QHead(ev) = Head(inQ[ev.on])
      BY <1>1, <1>2, <2>1 DEF ChoiceOk, TypeOK, QHead
    <3>2. In(QHead(ev), inQ[ev.on])
      BY <3>1, HeadFacts
    <3>3. kind = "recv"
      BY <1>3, <2>1
    <3> QED BY <1>1, <1>2, <3>2, <3>3 DEF ItemsInv
  <2>2. CASE ev.kind = "recv"
    <3>1. outQ[ev.on] \in Seq(Items) /\ outQ[ev.on] # <<>> /\ QHead(ev) = Head(outQ[ev.on])
      BY <1>1, <1>2, <2>2 DEF ChoiceOk, TypeOK, QHead
    <3>2. In(QHead(ev), outQ[ev.on])
      BY <3>1, HeadFacts
    <3>3. kind = "send"
      BY <1>3, <2>2
    <3> QED BY <1>1, <1>2, <3>2, <3>3 DEF ItemsInv
  <2> QED BY <1>2, <2>1, <2>2
<1>5. PICK u \in Threads : Waits(u) /\ \E i \in DOMAIN request[u].events :
        /\ request[u].events[i].kind = kind /\ request[u].events[i].on = ev.on
        /\ QHead(ev) = Item(u, i)
  BY <1>4 DEF LiveItem
<1>6. QHead(ev).tx = Tx0(u)
  BY <1>5 DEF Item
<1>7. Partner(ev, request[u])
  BY <1>3, <1>5 DEF Partner
<1> QED BY <1>5, <1>6, <1>7

\* What a step of the agenda does to what the choice is to be spared.
LEMMA SparesFrame ==
  ASSUME EventInv, NEW ev, NEW G, Spares(G, ev), cancelled \subseteq cancelled',
         \A u \in Threads : Waits(u) /\ Tx0(u) \notin cancelled' => Same(u),
         \A v : ToBeSet(v)' => v[3] \in G,
         \A x : ToWake(x)' =>
           ToWake(x) \/ \E v \in CVars : v[3] \in G /\ In(x, cvars[v].waiting)
  PROVE  Spares(G, ev)'
<1>1. TypeOK /\ ThreadsInv /\ ItemsInv
  BY DEF EventInv
<1>2. ASSUME NEW x, ToWake(x)', x.tx \notin cancelled'
      PROVE  \E v \in CVars : v[3] \in G /\ LiveItem(x, "wait", v)'
  <2>1. Live(x)
    BY <1>2 DEF Live
  <2>2. PICK v \in CVars : v[3] \in G /\ LiveItem(x, "wait", v)
    BY <1>1, <1>2, <2>1 DEF Spares, ItemsInv
  <2>3. \A u \in Threads : Waits(u) /\ x.tx = Tx0(u) => Same(u)
    BY <1>2
  <2>4. LiveItem(x, "wait", v)'
    BY <1>1, <2>2, <2>3, LiveItemFrame
  <2> QED BY <2>2, <2>4
<1>3. Closed(G, ev, Requests)
  BY DEF Spares
<1> QED BY <1>2, <1>3 DEF Spares, Live

LEMMA RaceSetCVar ==
  ASSUME EventInv, SetCVar, NEW ev, Safe(ev)
  PROVE  Safe(ev)'
<1>1. PICK G \in SUBSET {1, 2} : Spares(G, ev)
  BY DEF Safe
<1>2. /\ inQ' = inQ /\ outQ' = outQ /\ cancelled' = cancelled
      /\ \A u \in Threads : Same(u)
  BY SetCVarStep
<1>3. PICK v \in CVars : /\ ToBeSet(v)
                         /\ \A w : ToBeSet(w)' => ToBeSet(w)
                         /\ \A i : ToWake(i)' => ToWake(i) \/ In(i, cvars[v].waiting)
  BY SetCVarStep
<1>4. \A w : ToBeSet(w) => w[3] \in G
  BY <1>1 DEF Spares
<1>5. \A w : ToBeSet(w)' => w[3] \in G
  BY <1>3, <1>4
<1>6. \A x : ToWake(x)' =>
        ToWake(x) \/ \E w \in CVars : w[3] \in G /\ In(x, cvars[w].waiting)
  BY <1>3, <1>4
<1>7. \A u \in Threads : Waits(u) /\ Tx0(u) \notin cancelled' => Same(u)
  BY <1>2
<1>8. cancelled \subseteq cancelled'
  BY <1>2
<1>9. Spares(G, ev)'
  BY <1>1, <1>5, <1>6, <1>7, <1>8, SparesFrame
<1>10. Live(QHead(ev))'
  BY <1>2 DEF Safe, Live, QHead
<1> QED BY <1>9, <1>10 DEF Safe

LEMMA RaceMakeReady ==
  ASSUME EventInv, MakeReady, NEW ev, Safe(ev)
  PROVE  Safe(ev)'
<1>1. PICK G \in SUBSET {1, 2} : Spares(G, ev)
  BY DEF Safe
<1>2. inQ' = inQ /\ outQ' = outQ /\ cancelled' = cancelled
  BY DEF MakeReady
<1>3. /\ \A v : ToBeSet(v)' <=> ToBeSet(v)
      /\ \A x : ToWake(x)' <=> ToWake(x)
      /\ \A u \in Threads : Tx0(u) \notin cancelled => Same(u)
  BY MakeReadyStep
<1>4. \A w : ToBeSet(w)' => w[3] \in G
  BY <1>1, <1>3 DEF Spares
<1>5. \A x : ToWake(x)' =>
        ToWake(x) \/ \E w \in CVars : w[3] \in G /\ In(x, cvars[w].waiting)
  BY <1>3
<1>6. \A u \in Threads : Waits(u) /\ Tx0(u) \notin cancelled' => Same(u)
  BY <1>2, <1>3
<1>7. cancelled \subseteq cancelled'
  BY <1>2
<1>8. Spares(G, ev)'
  BY <1>1, <1>4, <1>5, <1>6, <1>7, SparesFrame
<1>9. Live(QHead(ev))'
  BY <1>2 DEF Safe, Live, QHead
<1> QED BY <1>8, <1>9 DEF Safe

LEMMA RaceWakeDead ==
  ASSUME EventInv, Wake, ~ Live(Head(agenda).item), NEW ev, Safe(ev)
  PROVE  Safe(ev)'
<1>1. PICK G \in SUBSET {1, 2} : Spares(G, ev)
  BY DEF Safe
<1>2. inQ' = inQ /\ outQ' = outQ /\ cancelled' = cancelled
  BY DEF Wake
<1>3. /\ \A v : ToBeSet(v)' <=> ToBeSet(v)
      /\ \A x : ToWake(x)' => ToWake(x)
      /\ \A u \in Threads : Same(u)
  BY WakeDead
<1>4. \A w : ToBeSet(w)' => w[3] \in G
  BY <1>1, <1>3 DEF Spares
<1>5. \A x : ToWake(x)' =>
        ToWake(x) \/ \E w \in CVars : w[3] \in G /\ In(x, cvars[w].waiting)
  BY <1>3
<1>6. \A u \in Threads : Waits(u) /\ Tx0(u) \notin cancelled' => Same(u)
  BY <1>3
<1>7. cancelled \subseteq cancelled'
  BY <1>2
<1>8. Spares(G, ev)'
  BY <1>1, <1>4, <1>5, <1>6, <1>7, SparesFrame
<1>9. Live(QHead(ev))'
  BY <1>2 DEF Safe, Live, QHead
<1> QED BY <1>8, <1>9 DEF Safe

\* The waiter that is cancelled is not the partner.
LEMMA RaceWakeLive ==
  ASSUME EventInv, Wake, Live(Head(agenda).item), NEW ev, Safe(ev),
         NEW t \in Threads, pc[Main(t)] = "choice", ev = request[t].events[choice],
         ev.kind # "wait"
  PROVE  Safe(ev)'
<1>0. PICK item : item = Head(agenda).item
  OBVIOUS
<1>1. PICK G \in SUBSET {1, 2} : Spares(G, ev)
  BY DEF Safe
<1>2. inQ' = inQ /\ outQ' = outQ /\ cancelled' = cancelled \cup {item.tx} /\ Live(item)
  BY <1>0 DEF Wake
<1>3. /\ ToWake(item)
      /\ \E u \in Threads : \E i \in DOMAIN request[u].events :
           /\ Waits(u) /\ request[u].events[i].kind = "wait" /\ item = Item(u, i)
           /\ \A v : ToBeSet(v)' <=> ToBeSet(v) \/ SetsIn(NackTasks(u, i), v)
           /\ \A x : ToWake(x)' => ToWake(x)
           /\ \A w \in Threads : w # u => Same(w)
  BY <1>0, WakeLive
<1>4. PICK u \in Threads : \E i \in DOMAIN request[u].events :
        /\ Waits(u) /\ request[u].events[i].kind = "wait" /\ item = Item(u, i)
        /\ \A v : ToBeSet(v)' <=> ToBeSet(v) \/ SetsIn(NackTasks(u, i), v)
        /\ \A x : ToWake(x)' => ToWake(x)
        /\ \A w \in Threads : w # u => Same(w)
  BY <1>3
<1>5. PICK i \in DOMAIN request[u].events :
        /\ Waits(u) /\ request[u].events[i].kind = "wait" /\ item = Item(u, i)
        /\ \A v : ToBeSet(v)' <=> ToBeSet(v) \/ SetsIn(NackTasks(u, i), v)
        /\ \A x : ToWake(x)' => ToWake(x)
        /\ \A w \in Threads : w # u => Same(w)
  BY <1>4
<1>6. item.tx = Tx0(u) /\ item.thr = Waiter(u, i)
  BY <1>5 DEF Item
<1>7. TypeOK /\ ops[u] > 0 /\ OpsOk(u)
  BY <1>2, <1>5, <1>6, Uncommitted DEF Live, EventInv
<1>8. request[u].events[i].on[3] \in G
  <2>1. PICK v \in CVars : v[3] \in G /\ LiveItem(item, "wait", v)
    BY <1>1, <1>2, <1>3 DEF Spares
  <2>2. PICK w \in Threads : Waits(w) /\ \E j \in DOMAIN request[w].events :
          request[w].events[j].on = v /\ item = Item(w, j)
    BY <2>1 DEF LiveItem
  <2>3. PICK j \in DOMAIN request[w].events : request[w].events[j].on = v /\ item = Item(w, j)
    BY <2>2
  <2>4. item.tx = Tx0(w) /\ item.thr = Waiter(w, j)
    BY <2>3 DEF Item
  <2>5. w = u
    BY <1>6, <2>4, TxFacts
  <2>6. j = i
    BY <1>6, <1>7, <2>3, <2>4, <2>5, WaitersDiffer
  <2> QED BY <2>1, <2>3, <2>5, <2>6
<1>9. request[u].nacks \ request[u].events[i].within \subseteq G /\ ~ Partner(ev, request[u])
  <2>1. Closed(G, ev, Requests)
    BY <1>1 DEF Spares
  <2> QED BY <1>5, <1>7, <1>8, <2>1, ClosedFacts
<1>10. \A v : SetsIn(NackTasks(u, i), v) => v[3] \in G
  <2> SUFFICES ASSUME NEW v, SetsIn(NackTasks(u, i), v) PROVE v[3] \in G
    OBVIOUS
  <2>1. PICK n \in request[u].nacks : v = <<u, ops[u], n>> /\ n \notin request[u].events[i].within
    BY <1>7, NackTasksFacts
  <2> QED BY <1>9, <2>1
<1>11. \A v : ToBeSet(v)' => v[3] \in G
  BY <1>1, <1>5, <1>10 DEF Spares
<1>12. \A x : ToWake(x)' =>
        ToWake(x) \/ \E w \in CVars : w[3] \in G /\ In(x, cvars[w].waiting)
  BY <1>5
<1>13. \A w \in Threads : Waits(w) /\ Tx0(w) \notin cancelled' => Same(w)
  BY <1>2, <1>5, <1>6
<1>14. cancelled \subseteq cancelled'
  BY <1>2
<1>15. Spares(G, ev)'
  BY <1>1, <1>11, <1>12, <1>13, <1>14, SparesFrame
<1>16. QHead(ev).tx # Tx0(u)
  <2>1. Live(QHead(ev))
    BY DEF Safe
  <2>2. PICK w \in Threads : QHead(ev).tx = Tx0(w) /\ Partner(ev, request[w])
    BY <2>1, HeadPartner
  <2> QED BY <1>9, <2>2, TxFacts
<1>17. Live(QHead(ev))'
  BY <1>2, <1>6, <1>16 DEF Safe, Live, QHead
<1> QED BY <1>15, <1>17 DEF Safe

\* The partner that has been polled is alive, and so far nothing is woken.
LEMMA RaceSync ==
  ASSUME EventInv, RaceFree(Requests), NEW t \in Threads, SyncEnabled(t)
  PROVE  RaceInv'
<1>0. PICK i \in EnabledEvents(t) : choice' = i /\ agenda' = NackTasks(t, i)
  BY DEF SyncEnabled
<1>1. /\ sched.cur = Main(t) /\ pc[Main(t)] = "sync" /\ sched.atomic = 0
      /\ cancelled' = cancelled /\ request' = request
      /\ inQ' = Polled(t, "send", inQ) /\ outQ' = Polled(t, "recv", outQ)
      /\ pc' = [pc EXCEPT ![Main(t)] = "choice"]
  BY DEF SyncEnabled, Runs
<1>2. TypeOK /\ ops[t] > 0 /\ OpsOk(t)
  BY <1>1, InOperation DEF Idles, EventInv
<1>3. i \in DOMAIN request[t].events
  BY DEF EnabledEvents
<1>4. PICK ev : ev = request[t].events[i]
  OBVIOUS
<1>5. \A u \in Threads : u # t => pc'[Main(u)] # "choice"
  BY <1>1, <1>2, Quiet, EntityFacts DEF TypeOK
<1>6. ASSUME ev.kind # "wait" PROVE Safe(ev)'
  <2>1. PICK G \in SUBSET {1, 2} : /\ request[t].nacks \ ev.within \subseteq G
                                   /\ Closed(G, ev, Requests)
    BY <1>2, <1>3, <1>4, <1>6, FreeChoice
  <2>2. /\ \A v : ToBeSet(v)' <=> \E n \in request[t].nacks :
                                  v = <<t, ops[t], n>> /\ n \notin ev.within
        /\ \A item : ~ ToWake(item)'
    BY <1>0, <1>2, <1>3, <1>4, NackTasksFacts, AgendaNow
  <2>3. \A v : ToBeSet(v)' => v[3] \in G
    BY <2>1, <2>2
  <2>4. Spares(G, ev)'
    BY <2>1, <2>2, <2>3 DEF Spares
  <2>5. ev.kind \in {"send", "recv"} /\ ev.on \in Channels
    BY <1>2, <1>3, <1>4, <1>6, RequestFacts
  <2>6. inQ \in [Channels -> Seq(Items)] /\ outQ \in [Channels -> Seq(Items)]
    BY <1>2 DEF TypeOK
  <2>7. PICK q \in Seq(Items) : /\ HasPartner(q)
                                /\ ev.kind = "send" => q = inQ[ev.on] /\ inQ'[ev.on] = Clean(q)
                                /\ ev.kind = "recv" => q = outQ[ev.on] /\ outQ'[ev.on] = Clean(q)
    <3>1. Enabled(ev)
      BY <1>4 DEF EnabledEvents
    <3>2. CASE ev.kind = "send"
      <4>1. HasPartner(inQ[ev.on])
        BY <3>1, <3>2 DEF Enabled
      <4>2. inQ'[ev.on] = Clean(inQ[ev.on])
        <5>1. PICK c \in Channels : c = ev.on
          BY <2>5
        <5>2. inQ'[c] = Clean(inQ[c])
          BY <1>1, <1>3, <1>4, <3>2, <5>1 DEF Polled
        <5> QED BY <5>1, <5>2
      <4> QED BY <2>5, <2>6, <3>2, <4>1, <4>2
    <3>3. CASE ev.kind = "recv"
      <4>1. HasPartner(outQ[ev.on])
        BY <3>1, <3>3 DEF Enabled
      <4>2. outQ'[ev.on] = Clean(outQ[ev.on])
        <5>1. PICK c \in Channels : c = ev.on
          BY <2>5
        <5>2. outQ'[c] = Clean(outQ[c])
          BY <1>1, <1>3, <1>4, <3>3, <5>1 DEF Polled
        <5> QED BY <5>1, <5>2
      <4> QED BY <2>5, <2>6, <3>3, <4>1, <4>2
    <3> QED BY <2>5, <3>2, <3>3
  <2>8. Live(Head(Clean(q)))
    <3>1. Clean(q) \in Seq(Items) /\ Clean(q) # <<>>
      BY <2>7, CleanFacts DEF HasPartner
    <3>2. In(Head(Clean(q)), Clean(q))
      BY <3>1, HeadFacts
    <3> QED BY <3>2, CleanFacts
  <2>9. QHead(ev)' = Head(Clean(q))
    BY <2>5, <2>7 DEF QHead
  <2>10. Live(QHead(ev))'
    BY <1>1, <2>8, <2>9 DEF Live
  <2> QED BY <2>4, <2>10 DEF Safe
<1>7. RaceOk(t)'
  <2>1. request'[t].events[choice'] = ev
    BY <1>0, <1>1, <1>4
  <2> QED BY <1>6, <2>1 DEF RaceOk
<1> QED BY <1>5, <1>7 DEF RaceInv, RaceOk

LEMMA RaceAgenda ==
  ASSUME EventInv, RaceInv, AgendaStep
  PROVE  RaceInv' /\ failed' = failed
<1>1. request' = request /\ choice' = choice
  BY DEF AgendaStep, SetCVar, Wake, MakeReady, Fail
<1>2. failed' = failed
  BY SetCVarStep DEF AgendaStep, Wake, MakeReady
<1>3. \A t \in Threads : pc'[Main(t)] = "choice" => pc[Main(t)] = "choice"
  <2>1. CASE SetCVar \/ Wake
    BY <2>1 DEF SetCVar, Wake, Fail
  <2>2. CASE MakeReady
    <3>1. pc' = [pc EXCEPT ![Head(agenda).item.thr] = Finished(Head(agenda).item.thr)]
      BY <2>2 DEF MakeReady
    <3>2. pc \in [Entities -> Points]
      BY DEF EventInv, TypeOK
    <3> QED BY <3>1, <3>2, EntityFacts DEF Finished
  <2> QED BY <2>1, <2>2 DEF AgendaStep
<1> SUFFICES ASSUME NEW t \in Threads, pc[Main(t)] = "choice",
                    NEW ev, ev = request[t].events[choice], ev.kind # "wait", Safe(ev)
             PROVE  Safe(ev)'
  BY <1>1, <1>2, <1>3 DEF RaceInv, RaceOk
<1> QED BY RaceSetCVar, RaceMakeReady, RaceWakeDead, RaceWakeLive DEF AgendaStep

\* The transaction id of the partner is forced while it is alive.
LEMMA RaceNext ==
  ASSUME EventInv, RaceFree(Requests), RaceInv, ~ failed, [Next]_vars
  PROVE  RaceInv' /\ ~ failed'
<1>1. TypeOK
  BY DEF EventInv
<1>2. pc \in [Entities -> Points] /\ \A w \in Threads : Main(w) \in Entities
  BY <1>1, EntityFacts DEF TypeOK
<1>3. \A w \in Threads : pc[Main(w)] = "choice" => sched.atomic = 1 /\ sched.cur = Main(w)
  BY EntityFacts DEF EventInv, ThreadsInv, ThreadOk, EntityOk, Exec
<1>5. CASE UNCHANGED vars
  <2>1. /\ inQ' = inQ /\ outQ' = outQ /\ cancelled' = cancelled /\ agenda' = agenda /\ pc' = pc
        /\ request' = request /\ ops' = ops /\ choice' = choice /\ failed' = failed
    BY <1>5 DEF vars
  <2>2. ASSUME NEW ev, Safe(ev) PROVE Safe(ev)'
    <3>1. PICK G \in SUBSET {1, 2} : Spares(G, ev)
      BY <2>2 DEF Safe
    <3>2. /\ \A v : ToBeSet(v)' => v[3] \in G
          /\ \A x : ToWake(x)' =>
               ToWake(x) \/ \E v \in CVars : v[3] \in G /\ In(x, cvars[v].waiting)
      BY <2>1, <3>1 DEF Spares, ToBeSet, ToWake
    <3>3. \A u \in Threads : Waits(u) /\ Tx0(u) \notin cancelled' => Same(u)
      BY <1>5, <2>1 DEF Same, Exec, Readied, Tx0, vars
    <3>4. cancelled \subseteq cancelled'
      BY <2>1
    <3>5. Spares(G, ev)'
      BY <3>1, <3>2, <3>3, <3>4, SparesFrame
    <3>6. Live(QHead(ev))'
      BY <2>1, <2>2 DEF Safe, Live, QHead
    <3> QED BY <3>5, <3>6 DEF Safe
  <2> QED BY <2>1, <2>2 DEF RaceInv, RaceOk
<1>6. CASE Preempt
  BY <1>3, <1>6 DEF Preempt, RaceInv, RaceOk
<1>7. CASE AgendaStep
  BY <1>7, RaceAgenda
<1>8. ASSUME NEW e \in Entities, EntityStep(e) PROVE RaceInv' /\ ~ failed'
  <2>1. failed' = failed
    BY <1>8 DEF EntityStep, CleanUp, Received, Sent, HelperReturns
  <2>2. sched.cur = e /\ pc[e] # "choice"
    BY <1>8 DEF EntityStep, CleanUp, Received, Sent, HelperReturns, Runs
  <2>3. \A w \in Threads : pc[Main(w)] # "choice"
    BY <1>3, <2>2
  <2>4. Finished(e) # "choice"
    BY DEF Finished
  <2>5. \A w \in Threads : pc'[Main(w)] # "choice"
    BY <1>2, <1>8, <2>3, <2>4 DEF EntityStep, CleanUp, Received, Sent, HelperReturns
  <2> QED BY <2>1, <2>5 DEF RaceInv, RaceOk
<1>9. ASSUME NEW t \in Threads, ThreadStep(t) PROVE RaceInv' /\ ~ failed'
  <2>1. CASE SyncEnabled(t)
    BY <2>1, RaceSync DEF SyncEnabled
  <2>2. sched.cur = Main(t)
    BY <1>9 DEF ThreadStep, Evaluate, SyncEnabled, PollFails, Block, DoSend, DoRecv, DoWait,
                Exit, Exited, Runs
  <2>3. \A w \in Threads : w # t => pc[Main(w)] # "choice"
    BY <1>3, <2>2, EntityFacts
  <2>4. ASSUME NEW p, p # "choice", pc' = [pc EXCEPT ![Main(t)] = p], failed' = failed
        PROVE  RaceInv' /\ ~ failed'
    BY <1>2, <2>3, <2>4, EntityFacts DEF RaceInv, RaceOk
  <2>5. CASE (\E r \in Requests : Evaluate(t, r)) \/ PollFails(t) \/ DoWait(t) \/ Exit(t) \/ Exited(t)
    BY <2>4, <2>5 DEF Evaluate, PollFails, DoWait, Exit, Exited
  <2>6. CASE Block(t)
    <3>1. /\ pc[Main(t)] = "sync" /\ failed' = failed
          /\ pc' = [e \in Entities |->
               IF \E i \in DOMAIN request[t].events : e = Waiter(t, i) THEN
                 request[t].events[IF e[2] = 0 THEN 1 ELSE e[2]].kind
               ELSE IF e = Main(t) THEN "helped" ELSE pc[e]]
      BY <2>6 DEF Block, Runs
    <3>2. ops[t] > 0 /\ OpsOk(t)
      BY <3>1, InOperation DEF Idles
    <3>3. \A i \in DOMAIN request[t].events :
            /\ request[t].events[i].kind # "choice"
            /\ Waiter(t, i)[1] = t
            /\ Event(Waiter(t, i)) = request[t].events[i]
      BY <1>1, <3>2, RequestFacts
    <3>4. ASSUME NEW w \in Threads PROVE pc'[Main(w)] # "choice"
      <4>1. CASE \E i \in DOMAIN request[t].events : Main(w) = Waiter(t, i)
        <5>1. PICK i \in DOMAIN request[t].events : Main(w) = Waiter(t, i)
          BY <4>1
        <5>2. w = t /\ Event(Main(w)) = request[t].events[i]
          BY <3>3, <5>1, EntityFacts
        <5>3. pc'[Main(w)] = Event(Main(w)).kind
          BY <1>2, <3>1, <4>1, <5>2, EntityFacts DEF Event
        <5> QED BY <3>3, <5>2, <5>3
      <4>2. CASE ~ \E i \in DOMAIN request[t].events : Main(w) = Waiter(t, i)
        BY <1>2, <2>3, <3>1, <4>2
      <4> QED BY <4>1, <4>2
    <3> QED BY <3>1, <3>4 DEF RaceInv, RaceOk
  <2>7. ASSUME pc[Main(t)] = "choice", NEW ev, ev = Event(<<t, choice>>), ev.kind # "wait"
        PROVE  Live(QHead(ev))
    <3>1. ev = request[t].events[choice]
      BY <2>7, CommitsChoice
    <3> QED BY <2>7, <3>1 DEF RaceInv, RaceOk, Safe
  <2>8. ASSUME NEW c \in Channels, DoSend(t, c) PROVE RaceInv' /\ ~ failed'
    <3>1. PICK item : item = Head(inQ[c])
      OBVIOUS
    <3>2. ~ Fails(item)
      <4>1. PICK ev : ev = Event(<<t, choice>>)
        OBVIOUS
      <4>2. pc[Main(t)] = "choice" /\ ev.kind = "send" /\ ev.on = c
        BY <2>8, <4>1 DEF DoSend, Runs
      <4>3. Live(QHead(ev))
        BY <2>7, <4>1, <4>2
      <4> QED BY <3>1, <4>2, <4>3 DEF QHead, Fails
    <3>3. pc' = [pc EXCEPT ![Main(t)] = "run"] /\ failed' = failed
      BY <2>8, <3>1, <3>2 DEF DoSend
    <3> QED BY <2>4, <3>3
  <2>9. ASSUME NEW c \in Channels, DoRecv(t, c) PROVE RaceInv' /\ ~ failed'
    <3>1. PICK item : item = Head(outQ[c])
      OBVIOUS
    <3>2. ~ Fails(item)
      <4>1. PICK ev : ev = Event(<<t, choice>>)
        OBVIOUS
      <4>2. pc[Main(t)] = "choice" /\ ev.kind = "recv" /\ ev.on = c
        BY <2>9, <4>1 DEF DoRecv, Runs
      <4>3. Live(QHead(ev))
        BY <2>7, <4>1, <4>2
      <4> QED BY <3>1, <4>2, <4>3 DEF QHead, Fails
    <3>3. pc' = [pc EXCEPT ![Main(t)] = "reply"] /\ failed' = failed
      BY <2>9, <3>1, <3>2 DEF DoRecv
    <3> QED BY <2>4, <3>3
  <2> QED BY <1>9, <2>1, <2>5, <2>6, <2>8, <2>9 DEF ThreadStep
<1> QED BY <1>5, <1>6, <1>7, <1>8, <1>9 DEF Next, Step, Preempt

LEMMA InitRace ==
  ASSUME Init
  PROVE  RaceInv /\ ~ failed
BY EntityFacts DEF Init, RaceInv, RaceOk

\* If no waiter that a choice's nacks may wake could be the partner it has polled, neither
\* exception is ever raised, and the scheduler and the queues keep what they owe.
THEOREM SchedulingOkAlways == RaceFree(Requests) => (Spec => []SchedulingOk)
<1> SUFFICES ASSUME RaceFree(Requests) PROVE Spec => []SchedulingOk
  OBVIOUS
<1>1. Init => RaceInv /\ ~ failed
  BY InitRace
<1>2. EventInv /\ RaceInv /\ ~ failed /\ [Next]_vars => RaceInv' /\ ~ failed'
  BY RaceNext
<1>3. EventInv /\ ~ failed => SchedulingOk
  BY TypeOfInv, NobodyLost, NoPartners DEF SchedulingOk, NeverFails
<1> QED BY <1>1, <1>2, <1>3, InvAlways, PTL DEF Spec

-----------------------------------------------------------------------------
(***************************************************************************)
(* The implementation of synchronous rendezvous.                           *)
(***************************************************************************)
Busy(t)      == ops[t] > 0 /\ result[Tx0(t)] = Nil
MetNobody(t) == \A m \in matched : Tx0(t) \notin {m[1], m[2]}

\* What an operation may return with, given whom it has met.
Answers(x) ==
  /\ result'[x] # Nil
  /\ \/ result'[x].val = Nil /\ \A m \in matched : m[2] # x
     \/ \E m \in matched : m[2] = x /\ result'[x].val = m[1]

LEMMA AnswerNotNil ==
  \A v \in Tx \cup {Nil} : [val |-> v] # Nil
BY RequestsAssumption DEF Tx

LEMMA AbstractStutter ==
  ASSUME ops' = ops, request' = request, matched' = matched, result' = result
  PROVE  UNCHANGED Abstract!vars
BY DEF Abstract!vars

\* The result of an operation or two, seen as answers.
LEMMA AbstractReturn ==
  ASSUME TypeOK, TypeOK', NEW t \in Threads, NEW u \in Threads, Busy(t), Busy(u),
         Tx0(t) \in Tx, Tx0(u) \in Tx,
         t # u => \E m \in matched : m[1] = Tx0(t) /\ m[2] = Tx0(u),
         Answers(Tx0(t)), Answers(Tx0(u)),
         \A x \in Tx : x \notin {Tx0(t), Tx0(u)} => result'[x] = result[x],
         ops' = ops, request' = request, matched' = matched
  PROVE  Abstract!Return
<1>1. PICK x \in Tx : x = Tx0(t) /\ x = Abstract!Now(t)
  BY DEF Tx0, Abstract!Now
<1>2. PICK y \in Tx : y = Tx0(u) /\ y = Abstract!Now(u)
  BY DEF Tx0, Abstract!Now
<1>3. ~ Abstract!Idle(t) /\ ~ Abstract!Idle(u)
  BY <1>1, <1>2, EntityFacts DEF Busy, Abstract!Idle, TypeOK
<1>4. x # y => \E m \in matched : m[1] = x /\ m[2] = y
  BY <1>1, <1>2
<1>5. Abstract!Answers({x, y}, matched)
  <2>1. result[x] = Nil /\ result[y] = Nil /\ Answers(x) /\ Answers(y)
    BY <1>1, <1>2 DEF Busy
  <2>2. \A z \in Tx : z \notin {x, y} => result'[z] = result[z]
    BY <1>1, <1>2
  <2>3. /\ result'[x] # Nil => result'[x].val \in Tx \cup {Nil}
        /\ result'[y] # Nil => result'[y].val \in Tx \cup {Nil}
    BY DEF TypeOK
  <2> QED BY <2>1, <2>2, <2>3, AnswerNotNil DEF Answers, Abstract!Answers, Abstract!MayAnswer
<1>6. \E v, w \in {Abstract!Now(k) : k \in {k \in Threads : ~ Abstract!Idle(k)}} :
        /\ v # w => \E m \in matched : m[1] = v /\ m[2] = w
        /\ Abstract!Answers({v, w}, matched)
  <2>1. /\ x \in {Abstract!Now(k) : k \in {k \in Threads : ~ Abstract!Idle(k)}}
        /\ y \in {Abstract!Now(k) : k \in {k \in Threads : ~ Abstract!Idle(k)}}
    BY <1>1, <1>2, <1>3
  <2> QED BY <1>4, <1>5, <2>1
<1> QED BY <1>6 DEF Abstract!Return

\* A rendezvous, in which the sender may return.
LEMMA AbstractMeet ==
  ASSUME TypeOK, TypeOK', NEW s \in Threads, NEW r \in Threads, NEW c \in Channels, s # r,
         Busy(s), Busy(r), MetNobody(s), MetNobody(r), Tx0(s) \in Tx, Tx0(r) \in Tx,
         \E i \in DOMAIN request[s].events :
           request[s].events[i].kind = "send" /\ request[s].events[i].on = c,
         \E i \in DOMAIN request[r].events :
           request[r].events[i].kind = "recv" /\ request[r].events[i].on = c,
         matched' = matched \cup {<<Tx0(s), Tx0(r), c>>}, ops' = ops, request' = request,
         result'[Tx0(s)] = Nil \/ result'[Tx0(s)].val = Nil,
         \A x \in Tx : x # Tx0(s) => result'[x] = result[x]
  PROVE  Abstract!Meet(s, r, c)
<1>1. PICK x \in Tx : x = Tx0(s) /\ x = Abstract!Now(s)
  BY DEF Tx0, Abstract!Now
<1>2. PICK y \in Tx : y = Tx0(r) /\ y = Abstract!Now(r)
  BY DEF Tx0, Abstract!Now
<1>3. y # x
  BY <1>1, <1>2, TxFacts
<1>4. ~ Abstract!Idle(s) /\ ~ Abstract!Idle(r)
  <2>1. ops[s] # 0 /\ ops[r] # 0
    BY EntityFacts DEF Busy, TypeOK
  <2>2. result[x] = Nil /\ result[y] = Nil
    BY <1>1, <1>2 DEF Busy
  <2> QED BY <1>1, <1>2, <2>1, <2>2 DEF Abstract!Idle
<1>5. ~ Abstract!Met(x) /\ ~ Abstract!Met(y)
  BY <1>1, <1>2 DEF MetNobody, Abstract!Met
<1>6. \E xs \in SUBSET {x} : Abstract!Answers(xs, matched')
  <2>1. result[x] = Nil /\ \A m \in matched' : m[2] # x
    <3>1. \A m \in matched : m[2] # x
      BY <1>1 DEF MetNobody
    <3> QED BY <1>1, <1>2, <1>3, <3>1 DEF Busy
  <2>2. \A z \in Tx : z # x => result'[z] = result[z]
    BY <1>1
  <2>3. CASE result'[x] = Nil
    <3>1. \A z \in Tx : result'[z] = Nil <=> result[z] = Nil
      BY <2>1, <2>2, <2>3
    <3>2. Abstract!Answers({}, matched')
      BY <2>1, <2>2, <2>3 DEF Abstract!Answers
    <3> QED BY <3>2
  <2>4. CASE result'[x] # Nil
    <3>1. result'[x].val = Nil /\ [val |-> Nil] # Nil
      BY <1>1, <2>4, AnswerNotNil
    <3>2. Abstract!Answers({x}, matched')
      BY <2>1, <2>2, <2>4, <3>1 DEF Abstract!Answers, Abstract!MayAnswer
    <3> QED BY <3>2
  <2> QED BY <2>3, <2>4
<1> QED BY <1>1, <1>2, <1>3, <1>4, <1>5, <1>6 DEF Abstract!Meet, Busy

\* One operation returns by itself.
LEMMA OneReturns ==
  ASSUME EventInv, EventInv', NEW t \in Threads, ~ Idles(t), Answers(Tx0(t)), NEW a,
         result' = [result EXCEPT ![Tx0(t)] = a],
         ops' = ops, request' = request, matched' = matched
  PROVE  Abstract!Return
<1>1. TypeOK /\ TypeOK'
  BY DEF EventInv
<1>2. Busy(t) /\ Tx0(t) \in Tx
  BY InOperation DEF Busy
<1>3. \A x \in Tx : x \notin {Tx0(t), Tx0(t)} => result'[x] = result[x]
  BY <1>1, <1>2 DEF TypeOK
<1> QED BY <1>1, <1>2, <1>3, AbstractReturn

\* A thread that has met nobody, and returns without a message.
LEMMA ReturnsAlone ==
  ASSUME EventInv, EventInv', NEW t \in Threads, ~ Idles(t), MetNobody(t), NEW k \in 0 .. Fan,
         result' = [result EXCEPT ![Tx0(t)] = [event |-> k, val |-> Nil]],
         ops' = ops, request' = request, matched' = matched
  PROVE  Abstract!Return
<1>1. Tx0(t) \in Tx /\ result \in [Tx -> {Nil} \cup [event : 0 .. Fan, val : Tx \cup {Nil}]]
  BY InOperation DEF EventInv, TypeOK
<1>2. result'[Tx0(t)] = [event |-> k, val |-> Nil]
  BY <1>1
<1>3. result'[Tx0(t)] # Nil
  <2>1. [event |-> k, val |-> Nil] # Nil
    BY RequestsAssumption
  <2> QED BY <1>2, <2>1
<1>4. result'[Tx0(t)].val = Nil
  BY <1>2
<1>5. Answers(Tx0(t))
  BY <1>3, <1>4 DEF Answers, MetNobody
<1> QED BY <1>5, OneReturns

LEMMA AbstractOffer ==
  ASSUME EventInv, NEW t \in Threads, NEW r, Evaluate(t, r)
  PROVE  Abstract!Offer(t)
<1>1. /\ pc[Main(t)] = "run" /\ ops' = [ops EXCEPT ![t] = @ + 1]
      /\ request' = [request EXCEPT ![t] = Forced(r)]
      /\ matched' = matched /\ result' = result
  BY DEF Evaluate, Runs
<1>2. TypeOK /\ OpsOk(t)
  BY DEF EventInv, ThreadsInv, ThreadOk
<1>3. \A u \in Threads \ {t} : ops'[u] = ops[u] /\ request'[u] = request[u]
  BY <1>1, <1>2 DEF TypeOK
<1>4. Abstract!Idle(t)
  <2>1. CASE ops[t] = 0
    BY <2>1 DEF Abstract!Idle
  <2>2. CASE ops[t] # 0
    <3>1. ops[t] > 0
      BY <1>2, <2>2, EntityFacts DEF TypeOK
    <3>2. Tx0(t) \in Tx /\ result[Tx0(t)] # Nil
      BY <1>1, <1>2, <3>1, RequestFacts DEF OpsOk, Idles
    <3>3. result[Tx0(t)].val \in Tx \cup {Nil}
      BY <1>2, <3>2 DEF TypeOK
    <3>4. [val |-> result[Tx0(t)].val] # Nil
      BY <3>3, AnswerNotNil
    <3>5. Abstract!Now(t) = Tx0(t)
      BY DEF Abstract!Now, Tx0
    <3> QED BY <3>2, <3>4, <3>5 DEF Abstract!Idle
  <2> QED BY <2>1, <2>2
<1> QED BY <1>1, <1>3, <1>4 DEF Abstract!Offer

\* The queue of a live partner is one of those its own request names.
LEMMA AbstractSend ==
  ASSUME EventInv, EventInv', NEW t \in Threads, NEW c \in Channels, DoSend(t, c),
         Live(Head(inQ[c]))
  PROVE  \E r \in Threads : Abstract!Meet(t, r, c)
<1>0. PICK item : item = Head(inQ[c])
  OBVIOUS
<1>1. /\ pc[Main(t)] = "choice" /\ Event(<<t, choice>>).kind = "send"
      /\ Event(<<t, choice>>).on = c
      /\ ops' = ops /\ request' = request
      /\ result' = [result EXCEPT ![Tx0(t)] = [event |-> choice, val |-> Nil]]
      /\ matched' = matched \cup {<<Tx0(t), item.tx, c>>}
  BY <1>0 DEF DoSend, Runs, Return, Fails
<1>2. /\ choice \in DOMAIN request[t].events /\ Tx0(t) \in Tx /\ Busy(t) /\ ~ Waits(t)
      /\ request[t].events[choice].kind = "send" /\ request[t].events[choice].on = c
      /\ \A e \in Entities : e[1] = t => ~ Given(e)
  BY <1>1, CommitsChoice DEF Busy
<1>3. MetNobody(t)
  BY <1>1, <1>2, Unmet DEF Busy, MetNobody
<1>4. PICK ev : ev = request[t].events[choice]
  OBVIOUS
<1>5. QHead(ev) = item /\ Live(item) /\ ev.kind # "wait"
  BY <1>0, <1>2, <1>4 DEF QHead
<1>6. PICK u \in Threads : Waits(u) /\ item.tx = Tx0(u) /\ Partner(ev, request[u])
  BY <1>1, <1>4, <1>5, HeadPartner
<1>7. \E k \in DOMAIN request[u].events :
        request[u].events[k].kind = "recv" /\ request[u].events[k].on = c
  BY <1>2, <1>4, <1>6 DEF Partner
<1>8. Busy(u) /\ MetNobody(u) /\ Tx0(u) \in Tx /\ u # t
  BY <1>2, <1>5, <1>6, Uncommitted DEF Busy, MetNobody, Live
<1>9. TypeOK /\ TypeOK'
  BY DEF EventInv
<1>10. /\ result'[Tx0(t)].val = Nil
       /\ \A x \in Tx : x # Tx0(t) => result'[x] = result[x]
  <2>1. result'[Tx0(t)] = [event |-> choice, val |-> Nil]
    BY <1>1, <1>2, <1>9 DEF TypeOK
  <2>2. result'[Tx0(t)].val = Nil
    BY <2>1
  <2>3. \A x \in Tx : x # Tx0(t) => result'[x] = result[x]
    BY <1>1, <1>9 DEF TypeOK
  <2> QED BY <2>2, <2>3
<1>11. matched' = matched \cup {<<Tx0(t), Tx0(u), c>>}
  BY <1>1, <1>6
<1>12. \E k \in DOMAIN request[t].events :
         request[t].events[k].kind = "send" /\ request[t].events[k].on = c
  BY <1>2
<1> QED BY <1>1, <1>2, <1>3, <1>7, <1>8, <1>9, <1>10, <1>11, <1>12, AbstractMeet

LEMMA AbstractRecv ==
  ASSUME EventInv, EventInv', NEW t \in Threads, NEW c \in Channels, DoRecv(t, c),
         Live(Head(outQ[c]))
  PROVE  \E s \in Threads : Abstract!Meet(s, t, c)
<1>0. PICK item : item = Head(outQ[c])
  OBVIOUS
<1>1. /\ pc[Main(t)] = "choice" /\ Event(<<t, choice>>).kind = "recv"
      /\ Event(<<t, choice>>).on = c
      /\ ops' = ops /\ request' = request /\ result' = result
      /\ matched' = matched \cup {<<item.tx, Tx0(t), c>>}
  BY <1>0 DEF DoRecv, Runs, Fails
<1>2. /\ choice \in DOMAIN request[t].events /\ Tx0(t) \in Tx /\ Busy(t) /\ ~ Waits(t)
      /\ request[t].events[choice].kind = "recv" /\ request[t].events[choice].on = c
      /\ \A e \in Entities : e[1] = t => ~ Given(e)
  BY <1>1, CommitsChoice DEF Busy
<1>3. MetNobody(t)
  BY <1>1, <1>2, Unmet DEF Busy, MetNobody
<1>4. PICK ev : ev = request[t].events[choice]
  OBVIOUS
<1>5. QHead(ev) = item /\ Live(item) /\ ev.kind # "wait"
  BY <1>0, <1>2, <1>4 DEF QHead
<1>6. PICK u \in Threads : Waits(u) /\ item.tx = Tx0(u) /\ Partner(ev, request[u])
  BY <1>1, <1>4, <1>5, HeadPartner
<1>7. \E k \in DOMAIN request[u].events :
        request[u].events[k].kind = "send" /\ request[u].events[k].on = c
  BY <1>2, <1>4, <1>6 DEF Partner
<1>8. Busy(u) /\ MetNobody(u) /\ Tx0(u) \in Tx /\ u # t
  BY <1>2, <1>5, <1>6, Uncommitted DEF Busy, MetNobody, Live
<1>9. TypeOK /\ TypeOK'
  BY DEF EventInv
<1>10. matched' = matched \cup {<<Tx0(u), Tx0(t), c>>}
  BY <1>1, <1>6
<1>11. \E k \in DOMAIN request[t].events :
         request[t].events[k].kind = "recv" /\ request[t].events[k].on = c
  BY <1>2
<1>12. result'[Tx0(u)] = Nil
  BY <1>1, <1>8 DEF Busy
<1> QED BY <1>1, <1>2, <1>3, <1>7, <1>8, <1>9, <1>10, <1>11, <1>12, AbstractMeet

\* What an entity that has been given its rendezvous returns with.
LEMMA GivenAnswers ==
  ASSUME EventInv, NEW e \in Entities, Given(e), NEW t \in Threads, t = e[1]
  PROVE  /\ Busy(t) /\ Tx0(t) \in Tx /\ Waits(t) /\ ~ Idles(t)
         /\ Event(e).kind = "recv" => \E m \in matched : m[2] = Tx0(t) /\ m[1] = val[e]
         /\ Event(e).kind # "recv" => \A m \in matched : m[2] # Tx0(t)
         /\ Event(e).kind = "wait" => MetNobody(t)
<1>1. /\ Busy(t) /\ Tx0(t) \in Tx /\ Waits(t) /\ ~ Idles(t)
      /\ Event(e).kind = "recv" => \E c \in Channels : <<val[e], Tx0(t), c>> \in matched
      /\ Event(e).kind = "send" => \E m \in matched : m[1] = Tx0(t)
      /\ ops[t] > 0 /\ OpsOk(t)
      /\ \E i \in DOMAIN request[t].events : Event(e) = request[t].events[i]
  BY GivenFacts DEF Busy
<1>2. Event(e).kind \in {"send", "recv", "wait"}
  BY <1>1, RequestFacts DEF EventInv
<1>3. Event(e).kind = "recv" => \E m \in matched : m[2] = Tx0(t) /\ m[1] = val[e]
  <2> SUFFICES ASSUME Event(e).kind = "recv"
               PROVE  \E m \in matched : m[2] = Tx0(t) /\ m[1] = val[e]
    OBVIOUS
  <2>1. PICK c \in Channels : <<val[e], Tx0(t), c>> \in matched
    BY <1>1
  <2>2. PICK m : m = <<val[e], Tx0(t), c>>
    OBVIOUS
  <2> QED BY <2>1, <2>2
<1>4. Event(e).kind = "wait" => MetNobody(t)
  <2> SUFFICES ASSUME Event(e).kind = "wait" PROVE MetNobody(t)
    OBVIOUS
  <2>1. \A f \in Entities : f[1] = t /\ Given(f) => Event(f).kind = "wait"
    <3>1. \A f \in Entities : f[1] = t /\ Given(f) => f = e
      BY GivenFacts
    <3> QED BY <3>1
  <2>2. pc[Main(t)] # "reply"
    BY <1>1 DEF Waits
  <2>3. ops[t] > 0 /\ result[Tx0(t)] = Nil
    BY <1>1 DEF Busy
  <2> QED BY <2>1, <2>2, <2>3, Unmet DEF MetNobody
<1>5. Event(e).kind = "send" => \A m \in matched : m[2] # Tx0(t)
  <2> SUFFICES ASSUME Event(e).kind = "send", NEW m \in matched, m[2] = Tx0(t) PROVE FALSE
    OBVIOUS
  <2>1. PICK n \in matched : n[1] = Tx0(t)
    BY <1>1
  <2>2. m = n /\ m[1] # m[2]
    BY <2>1 DEF EventInv, MatchInv
  <2> QED BY <2>1, <2>2
<1>6. Event(e).kind = "wait" => \A m \in matched : m[2] # Tx0(t)
  BY <1>4 DEF MetNobody
<1> QED BY <1>1, <1>2, <1>3, <1>4, <1>5, <1>6

\* A passive thread returns; a helper does so later.
LEMMA PassiveReturns ==
  ASSUME EventInv, EventInv', NEW e \in Entities, Given(e), NEW v \in Tx \cup {Nil},
         Event(e).kind = "recv" => v = val[e],
         Event(e).kind # "recv" => v = Nil,
         result' = Outcome(e, v), ops' = ops, request' = request, matched' = matched
  PROVE  [Abstract!Next]_(Abstract!vars)
<1>1. PICK t \in Threads : t = e[1]
  BY EntityFacts
<1>2. /\ Busy(t) /\ Tx0(t) \in Tx /\ ~ Idles(t)
      /\ Event(e).kind = "recv" => \E m \in matched : m[2] = Tx0(t) /\ m[1] = val[e]
      /\ Event(e).kind # "recv" => \A m \in matched : m[2] # Tx0(t)
  BY <1>1, GivenAnswers
<1>3. CASE e[2] # 0
  <2>1. result' = result
    BY <1>3 DEF Outcome
  <2> QED BY <2>1, AbstractStutter
<1>4. CASE e[2] = 0
  <2>1. PICK a : a = [event |-> 1, val |-> v]
    OBVIOUS
  <2>2. result' = [result EXCEPT ![Tx0(t)] = a]
    BY <1>1, <1>4, <2>1 DEF Outcome
  <2>3. 1 \in 0 .. Fan
    <3>1. OpsOk(t) /\ ops[t] > 0
      BY <1>2 DEF EventInv, ThreadsInv, ThreadOk, Busy
    <3>2. Len(request[t].events) \in 1 .. Fan
      BY <3>1, RequestFacts DEF EventInv
    <3> QED BY <3>2, EntityFacts
  <2>4. result'[Tx0(t)] # Nil /\ result'[Tx0(t)].val = v
    <3>1. a # Nil /\ a.val = v
      BY <2>1, <2>3, RequestsAssumption DEF Tx
    <3> QED BY <1>2, <2>2, <3>1 DEF EventInv, TypeOK
  <2>5. Answers(Tx0(t))
    BY <1>2, <2>4 DEF Answers
  <2>6. Abstract!Return
    BY <1>2, <2>2, <2>5, OneReturns
  <2> QED BY <2>6 DEF Abstract!Next
<1> QED BY <1>3, <1>4

\* A sender answers the receiver that resumed it; if it is a thread, both return.
LEMMA AbstractSent ==
  ASSUME EventInv, EventInv', NEW e \in Entities, Sent(e)
  PROVE  Abstract!Return
<1>1. /\ sched.cur = e /\ sched.atomic = 1 /\ pc[e] = "sent"
      /\ ops' = ops /\ request' = request /\ matched' = matched
      /\ result' = [Outcome(e, Nil) EXCEPT
                      ![Tx0(val[e][1])] = [event |-> choice, val |-> Tx0(e[1])]]
  BY DEF Sent, Runs
<1>2. TypeOK /\ TypeOK'
  BY DEF EventInv
<1>3. PICK u \in Threads : val[e] = Main(u) /\ pc[Main(u)] = "reply"
  BY <1>1 DEF EventInv, PhaseInv
<1>4. /\ Busy(u) /\ Tx0(u) \in Tx /\ ~ Waits(u) /\ ~ Idles(u) /\ choice \in 1 .. Fan
      /\ val[e][1] = u
  BY <1>3, CommitsChoice, EntityFacts DEF Busy
<1>5. PICK t \in Threads : t = e[1]
  BY EntityFacts
<1>6. Given(e) /\ Event(e).kind = "send"
  <2>1. Given(e)
    BY <1>1 DEF Given, Exec
  <2> QED BY <1>1, <1>5, <2>1, GivenFacts DEF KindOf
<1>7. /\ Busy(t) /\ Tx0(t) \in Tx /\ t # u
      /\ \A m \in matched : m[2] # Tx0(t)
  BY <1>4, <1>5, <1>6, GivenAnswers
<1>8. \E m \in matched : m[1] = Tx0(t) /\ m[2] = Tx0(u)
  <2>1. ReplyOk(u)
    BY <1>3 DEF EventInv, CommitInv
  <2>2. PICK c \in Channels : <<Tx0(t), Tx0(u), c>> \in matched
    BY <1>1, <1>5, <2>1 DEF ReplyOk
  <2>3. PICK m : m = <<Tx0(t), Tx0(u), c>>
    OBVIOUS
  <2> QED BY <2>2, <2>3
<1>9. Tx0(t) # Tx0(u)
  BY <1>7, TxFacts
<1>10. PICK a : a = [event |-> choice, val |-> Tx0(t)]
  OBVIOUS
<1>11. a # Nil /\ a.val = Tx0(t)
  <2>1. choice \in 0 .. Fan
    BY <1>4, EntityFacts
  <2> QED BY <1>7, <1>10, <2>1, RequestsAssumption DEF Tx
<1>12. CASE e[2] # 0
  <2>1. result' = [result EXCEPT ![Tx0(u)] = a]
    BY <1>1, <1>4, <1>5, <1>10, <1>12 DEF Outcome
  <2>2. Answers(Tx0(u))
    <3>1. result'[Tx0(u)] = a
      BY <1>2, <1>4, <2>1 DEF TypeOK
    <3> QED BY <1>8, <1>11, <3>1 DEF Answers
  <2> QED BY <1>1, <1>4, <2>1, <2>2, OneReturns
<1>13. CASE e[2] = 0
  <2>1. PICK b : b = [event |-> 1, val |-> Nil]
    OBVIOUS
  <2>2. b # Nil /\ b.val = Nil
    <3>1. 1 \in 0 .. Fan
      BY <1>4, EntityFacts
    <3> QED BY <2>1, <3>1, RequestsAssumption
  <2>3. result' = [[result EXCEPT ![Tx0(t)] = b] EXCEPT ![Tx0(u)] = a]
    BY <1>1, <1>4, <1>5, <1>10, <1>13, <2>1 DEF Outcome
  <2>4. /\ result'[Tx0(u)] = a /\ result'[Tx0(t)] = b
        /\ \A x \in Tx : x \notin {Tx0(t), Tx0(u)} => result'[x] = result[x]
    BY <1>2, <1>4, <1>7, <1>9, <2>3 DEF TypeOK
  <2>5. Answers(Tx0(u))
    BY <1>8, <1>11, <2>4 DEF Answers
  <2>6. Answers(Tx0(t))
    BY <1>7, <2>2, <2>4 DEF Answers
  <2>7. ops' = ops /\ request' = request /\ matched' = matched
    BY <1>1
  <2> QED BY <1>2, <1>4, <1>7, <1>8, <2>4, <2>5, <2>6, <2>7, AbstractReturn
<1> QED BY <1>12, <1>13

\* A helper returns for its thread: with its own message, if it is a receiver.
LEMMA AbstractHelper ==
  ASSUME EventInv, EventInv', NEW e \in Entities, HelperReturns(e)
  PROVE  Abstract!Return
<1>1. /\ pc[e] = "return" /\ ops' = ops /\ request' = request /\ matched' = matched
      /\ result' = [result EXCEPT ![Tx0(e[1])] = [event |-> e[2], val |-> HelperVal(e)]]
  BY DEF HelperReturns, Runs
<1>2. Given(e)
  BY <1>1 DEF Given
<1>3. PICK t \in Threads : t = e[1]
  BY EntityFacts
<1>4. /\ Tx0(t) \in Tx /\ ~ Idles(t)
      /\ Event(e).kind = "recv" => \E m \in matched : m[2] = Tx0(t) /\ m[1] = val[e]
      /\ Event(e).kind # "recv" => \A m \in matched : m[2] # Tx0(t)
  BY <1>2, <1>3, GivenAnswers
<1>5. PICK a : a = [event |-> e[2], val |-> HelperVal(e)]
  OBVIOUS
<1>6. HelperVal(e) \in Tx \cup {Nil}
  <2>1. CASE Event(e).kind = "recv"
    <3>1. \A m \in matched : m[1] \in Tx
      BY DEF EventInv, TypeOK
    <3> QED BY <1>4, <2>1, <3>1 DEF HelperVal
  <2>2. CASE Event(e).kind # "recv"
    BY <2>2 DEF HelperVal
  <2> QED BY <2>1, <2>2
<1>7. a # Nil /\ a.val = HelperVal(e)
  BY <1>5, <1>6, EntityFacts, RequestsAssumption DEF Tx
<1>8. result' = [result EXCEPT ![Tx0(t)] = a]
  BY <1>1, <1>3, <1>5
<1>9. result'[Tx0(t)] = a
  BY <1>4, <1>8 DEF EventInv, TypeOK
<1>10. Answers(Tx0(t))
  <2>1. CASE Event(e).kind = "recv"
    BY <1>4, <1>7, <1>9, <2>1 DEF Answers, HelperVal
  <2>2. CASE Event(e).kind # "recv"
    BY <1>4, <1>7, <1>9, <2>2 DEF Answers, HelperVal
  <2> QED BY <2>1, <2>2
<1> QED BY <1>1, <1>4, <1>8, <1>10, OneReturns

LEMMA AbstractInit ==
  ASSUME Init
  PROVE  Abstract!Init
BY DEF Init, Abstract!Init

LEMMA AbstractNext ==
  ASSUME EventInv, EventInv', [Next]_vars
  PROVE  [Abstract!Next]_(Abstract!vars)
<1>1. CASE ops' = ops /\ request' = request /\ matched' = matched /\ result' = result
  BY <1>1, AbstractStutter
<1>2. CASE Abstract!Return
  BY <1>2 DEF Abstract!Next
<1>3. CASE Preempt \/ UNCHANGED vars
  BY <1>1, <1>3 DEF Preempt, vars
<1>4. ASSUME NEW t \in Threads, ThreadStep(t) PROVE [Abstract!Next]_(Abstract!vars)
  <2>1. ASSUME NEW r \in Requests, Evaluate(t, r) PROVE [Abstract!Next]_(Abstract!vars)
    <3>1. Abstract!Offer(t)
      BY <2>1, AbstractOffer
    <3> QED BY <3>1 DEF Abstract!Next
  <2>2. CASE SyncEnabled(t) \/ Block(t) \/ Exit(t) \/ Exited(t)
    BY <1>1, <2>2 DEF SyncEnabled, Block, Exit, Exited
  <2>3. CASE PollFails(t)
    <3>1. /\ pc[Main(t)] = "sync" /\ ops' = ops /\ request' = request /\ matched' = matched
          /\ result' = [result EXCEPT ![Tx0(t)] = [event |-> 0, val |-> Nil]]
      BY <2>3 DEF PollFails, Runs
    <3>2. ~ Idles(t) /\ ~ Waits(t) /\ pc[Main(t)] # "reply"
      BY <3>1 DEF Idles, Waits
    <3>3. MetNobody(t)
      <4>1. \A e \in Entities : e[1] = t => ~ Given(e)
        BY <3>2, NotWaiting
      <4>2. ops[t] > 0 /\ result[Tx0(t)] = Nil
        BY <3>2, InOperation
      <4> QED BY <3>2, <4>1, <4>2, Unmet DEF MetNobody
    <3>4. 0 \in 0 .. Fan
      BY EntityFacts
    <3> QED BY <1>2, <3>1, <3>2, <3>3, <3>4, ReturnsAlone
  <2>4. CASE DoWait(t)
    <3>1. /\ pc[Main(t)] = "choice" /\ ops' = ops /\ request' = request /\ matched' = matched
          /\ result' = [result EXCEPT ![Tx0(t)] = [event |-> choice, val |-> Nil]]
      BY <2>4 DEF DoWait, Runs, Return
    <3>2. /\ ~ Idles(t) /\ choice \in 1 .. Fan /\ ops[t] > 0 /\ result[Tx0(t)] = Nil
          /\ \A e \in Entities : e[1] = t => ~ Given(e)
      BY <3>1, CommitsChoice
    <3>3. MetNobody(t)
      BY <3>1, <3>2, Unmet DEF MetNobody
    <3>4. choice \in 0 .. Fan
      BY <3>2, EntityFacts
    <3> QED BY <1>2, <3>1, <3>2, <3>3, <3>4, ReturnsAlone
  <2>5. ASSUME NEW c \in Channels, DoSend(t, c) PROVE [Abstract!Next]_(Abstract!vars)
    <3>1. PICK item : item = Head(inQ[c])
      OBVIOUS
    <3>2. CASE Fails(item)
      <4>1. Fail
        BY <2>5, <3>1, <3>2 DEF DoSend
      <4> QED BY <1>1, <4>1 DEF Fail
    <3>3. CASE ~ Fails(item)
      <4>1. \E r \in Threads : Abstract!Meet(t, r, c)
        BY <2>5, <3>1, <3>3, AbstractSend DEF Fails
      <4> QED BY <4>1 DEF Abstract!Next
    <3> QED BY <3>2, <3>3
  <2>6. ASSUME NEW c \in Channels, DoRecv(t, c) PROVE [Abstract!Next]_(Abstract!vars)
    <3>1. PICK item : item = Head(outQ[c])
      OBVIOUS
    <3>2. CASE Fails(item)
      <4>1. Fail
        BY <2>6, <3>1, <3>2 DEF DoRecv
      <4> QED BY <1>1, <4>1 DEF Fail
    <3>3. CASE ~ Fails(item)
      <4>1. \E s \in Threads : Abstract!Meet(s, t, c)
        BY <2>6, <3>1, <3>3, AbstractRecv DEF Fails
      <4> QED BY <4>1 DEF Abstract!Next
    <3> QED BY <3>2, <3>3
  <2> QED BY <1>4, <2>1, <2>2, <2>3, <2>4, <2>5, <2>6 DEF ThreadStep
<1>5. ASSUME NEW e \in Entities, EntityStep(e) PROVE [Abstract!Next]_(Abstract!vars)
  <2>1. CASE CleanUp(e)
    BY <1>1, <2>1 DEF CleanUp
  <2>2. CASE Received(e)
    <3>1. /\ sched.cur = e /\ sched.atomic = 1 /\ pc[e] = "received" /\ ops' = ops
          /\ request' = request /\ matched' = matched /\ result' = Outcome(e, val[e])
      BY <2>2 DEF Received, Runs
    <3>2. Given(e) /\ e[1] \in Threads
      BY <3>1, EntityFacts DEF Given, Exec
    <3>3. Event(e).kind = "recv"
      BY <3>1, <3>2, GivenFacts DEF KindOf
    <3>4. val[e] \in Tx \cup {Nil}
      <4>1. PICK m \in matched : m[1] = val[e]
        BY <3>2, <3>3, GivenAnswers
      <4> QED BY <4>1 DEF EventInv, TypeOK
    <3> QED BY <3>1, <3>2, <3>3, <3>4, PassiveReturns
  <2>3. CASE Sent(e)
    BY <1>2, <2>3, AbstractSent
  <2>4. CASE HelperReturns(e)
    BY <1>2, <2>4, AbstractHelper
  <2> QED BY <1>5, <2>1, <2>2, <2>3, <2>4 DEF EntityStep
<1>6. CASE AgendaStep
  <2>1. CASE SetCVar
    BY <1>1, <2>1 DEF SetCVar, Fail
  <2>2. CASE Wake
    BY <1>1, <2>2 DEF Wake
  <2>3. CASE MakeReady
    <3>1. /\ agenda # <<>> /\ Head(agenda).do = "ready" /\ ops' = ops /\ request' = request
          /\ matched' = matched /\ result' = Outcome(Head(agenda).item.thr, Nil)
      BY <2>3 DEF MakeReady
    <3>2. agenda \in Seq(Tasks)
      BY DEF EventInv, TypeOK
    <3>3. PICK e \in Entities : e = Head(agenda).item.thr
      <4>1. Head(agenda) \in Tasks
        BY <3>1, <3>2
      <4> QED BY <3>1, <4>1 DEF Tasks, Items
    <3>4. Readied(e)
      <4>1. 1 \in DOMAIN agenda /\ agenda[1] = Head(agenda)
        BY <3>1, <3>2
      <4> QED BY <3>1, <3>3, <4>1 DEF Readied
    <3>5. Given(e) /\ e[1] \in Threads
      BY <3>4, EntityFacts DEF Given
    <3>6. Event(e).kind = "wait"
      <4>1. pc[e] = "wait"
        BY <3>4, <3>5, GivenFacts
      <4> QED BY <3>5, <4>1, GivenFacts DEF KindOf
    <3>7. result' = Outcome(e, Nil)
      BY <3>1, <3>3
    <3> QED BY <3>1, <3>5, <3>6, <3>7, PassiveReturns
  <2> QED BY <1>6, <2>1, <2>2, <2>3 DEF AgendaStep
<1> QED BY <1>3, <1>4, <1>5, <1>6 DEF Next, Step

\* What polling, blocking, helpers and clean-up do to the queues, the transaction ids and
\* the threads is synchronous rendezvous: two operations that offer to meet meet, each
\* meets at most one other, and the receiver returns with the sender's message, once.
THEOREM EventsImplementRendezvous == Spec => ImplementsRendezvous
<1>1. Init => Abstract!Init
  BY AbstractInit
<1>2. EventInv /\ EventInv' /\ [Next]_vars => [Abstract!Next]_(Abstract!vars)
  BY AbstractNext
<1> QED BY <1>1, <1>2, InvAlways, PTL DEF Spec, ImplementsRendezvous, Abstract!Spec
=============================================================================
