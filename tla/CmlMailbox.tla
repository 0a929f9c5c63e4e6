------------------------------ MODULE CmlMailbox ------------------------------
(***************************************************************************)
(* Mailboxes of Concurrent ML: asynchronous channels.                      *)
(*                                                                         *)
(* A mailbox is EMPTY, with a queue of blocked receivers, or NONEMPTY,     *)
(* with a queue of messages.  A send gives its message and the critical    *)
(* section to the first live receiver; without one it queues the message,  *)
(* and gives up the processor if there were messages already.  Receivers   *)
(* block in recv, or in a choice of several mailboxes with a helper thread *)
(* for each, as in CmlEvent.                                               *)
(***************************************************************************)
EXTENDS CmlScheduler, Subsequences

CONSTANTS
  Threads, Boxes,
  Requests,  \* the operations each thread performs
  MaxOps,    \* bound: operations of a thread
  Fan,       \* bound: mailboxes in one choice
  Nil

Modes == {"send", "recv", "poll", "sync"}

ASSUME RequestsAssumption ==
  /\ NoThread \notin Threads \X (0..Fan) /\ Nil \notin Threads \X Nat
  /\ Nil \notin [box : Boxes, val : (Threads \X Nat) \cup {Nil}]
  /\ MaxOps \in Nat /\ Fan \in Nat /\ Threads # {} /\ IsFiniteSet(Threads)
  /\ \A t \in Threads : \A r \in Requests[t] :
       /\ r.mode \in Modes /\ r.boxes \in Seq(Boxes) /\ Len(r.boxes) \in 1..Fan
       /\ r.mode # "sync" => Len(r.boxes) = 1

Tx       == Threads \X (1..MaxOps)    \* the operation, its transaction id and its message
Entities == Threads \X (0..Fan)       \* <<t, 0>> is t, <<t, i>> its i-th helper
Main(t)  == <<t, 0>>
Items    == [tx : Tx, thr : Entities]

VARIABLES
  sched,      \* the scheduler
  state,      \* of each mailbox: its constructor and its queue
  cancelled,  \* the transaction ids in state CANCEL
  ops, request, pc,
  val,        \* the message an entity has been given
  result      \* history: the mailbox and the message each operation returned with

vars == <<sched, state, cancelled, ops, request, pc, val, result>>

EMPTY(q)    == [is |-> "EMPTY", q |-> q]
NONEMPTY(q) == [is |-> "NONEMPTY", q |-> q]

TypeOK ==
  /\ sched \in SchedulerStates(Entities) /\ sched.atomic \in 0..1
  /\ state = [m \in Boxes |-> state[m]]
  /\ \A m \in Boxes : IF state[m].is = "EMPTY" THEN state[m] \in [is : {"EMPTY"}, q : Seq(Items)]
                                               ELSE state[m] \in [is : {"NONEMPTY"}, q : Seq(Tx)]
  /\ cancelled \subseteq Tx
  /\ ops \in [Threads -> 0..MaxOps]
  /\ DOMAIN request = Threads /\ \A t \in Threads : ops[t] > 0 => request[t] \in Requests[t]
  /\ pc \in [Entities -> {"run", "sync", "recv", "helped", "none", "return"}]
  /\ \A e \in Entities : e[2] = 0 => pc[e] \notin {"none", "return"}
  /\ val \in [Entities -> Tx \cup {Nil}]
  /\ result \in [Tx -> {Nil} \cup [box : Boxes, val : Tx \cup {Nil}]]

Tx0(t)     == <<t, ops[t]>>
Box(e)     == request[e[1]].boxes[IF e[2] = 0 THEN 1 ELSE e[2]]
Live(item) == item.tx \notin cancelled

Init ==
  /\ \E order \in [1..Cardinality(Threads) -> Threads] :
       /\ \A t \in Threads : \E i \in DOMAIN order : order[i] = t
       /\ sched = Started(Main(order[1]),
                          [i \in 1..(Cardinality(Threads) - 1) |-> Main(order[i + 1])])
  /\ state = [m \in Boxes |-> EMPTY(<<>>)] /\ cancelled = {}
  /\ ops = [t \in Threads |-> 0] /\ request = [t \in Threads |-> Nil]
  /\ pc = [e \in Entities |-> IF e[2] = 0 THEN "run" ELSE "none"]
  /\ val = [e \in Entities |-> Nil] /\ result = [x \in Tx |-> Nil]

Runs(e, point, depth) == sched.cur = e /\ pc[e] = point /\ sched.atomic = depth

\* User code evaluates its next operation.
Evaluate(t, r) ==
  /\ Runs(Main(t), "run", 0) /\ ops[t] < MaxOps
  /\ ops' = [ops EXCEPT ![t] = @ + 1] /\ request' = [request EXCEPT ![t] = r]
  /\ pc' = [pc EXCEPT ![Main(t)] = "sync"]
  /\ UNCHANGED <<sched, state, cancelled, val, result>>

Return(t, m, msg) ==
  /\ pc' = [pc EXCEPT ![Main(t)] = "run"]
  /\ result' = [result EXCEPT ![Tx0(t)] = [box |-> m, val |-> msg]]

Enque(q, msg)      == Append(q, msg)

WrongCleanAndDeque(q) == q
CleanAndDeque(q)      == Among(q, {item \in Items : Live(item)})

(***************************************************************************)
(* Sending                                                                 *)
(***************************************************************************)
Sends(t) ==
  /\ Runs(Main(t), "sync", 0) /\ request[t].mode = "send"
  /\ Return(t, Box(Main(t)), Nil)
  /\ UNCHANGED <<ops, request>>

SendToReceiver(t) ==
  LET m == Box(Main(t))
      q == CleanAndDeque(state[m].q) IN
  /\ Sends(t) /\ state[m].is = "EMPTY" /\ q # <<>>
  /\ state' = [state EXCEPT ![m] = EMPTY(Tail(q))]
  /\ cancelled' = cancelled \cup {Head(q).tx}
  /\ val' = [val EXCEPT ![Head(q).thr] = Tx0(t)]
  /\ sched' = readyAndSwitch(atomicBegin(sched), Head(q).thr)

SendFirst(t) ==
  LET m == Box(Main(t)) IN
  /\ Sends(t) /\ state[m].is = "EMPTY" /\ CleanAndDeque(state[m].q) = <<>>
  /\ state' = [state EXCEPT ![m] = NONEMPTY(<<Tx0(t)>>)]
  /\ UNCHANGED <<sched, cancelled, val>>

SendNext(t) ==
  LET m == Box(Main(t)) IN
  /\ Sends(t) /\ state[m].is = "NONEMPTY"
  /\ state' = [state EXCEPT ![m] = NONEMPTY(Enque(@.q, Tx0(t)))]
  /\ sched' = atomicReadyAndSwitchToNext(atomicBegin(sched))
  /\ UNCHANGED <<cancelled, val>>

(***************************************************************************)
(* Receiving                                                               *)
(***************************************************************************)
WrongAfterGetMsg(q) == NONEMPTY(Tail(q))
AfterGetMsg(q)      == IF Tail(q) = <<>> THEN EMPTY(<<>>) ELSE NONEMPTY(Tail(q))

Receives(t) == Runs(Main(t), "sync", 0) /\ request[t].mode # "send"

BoxesOf(t) == {request[t].boxes[i] : i \in DOMAIN request[t].boxes}
Ready(t)   == {m \in BoxesOf(t) : state[m].is = "NONEMPTY"}

\* Some mailbox of the request has a message: getMsg from one of them.
GetMsg(t) ==
  /\ Receives(t)
  /\ \E m \in Ready(t) : /\ Return(t, m, Head(state[m].q))
                         /\ state' = [state EXCEPT ![m] = AfterGetMsg(@.q)]
  /\ UNCHANGED <<sched, cancelled, ops, request, val>>

PollFails(t) ==
  /\ Receives(t) /\ request[t].mode = "poll" /\ Ready(t) = {}
  /\ Return(t, Box(Main(t)), Nil)
  /\ UNCHANGED <<sched, state, cancelled, ops, request, val>>

Waiter(t, i) == IF Len(request[t].boxes) > 1 THEN <<t, i>> ELSE Main(t)
Item(t, i)   == [tx |-> Tx0(t), thr |-> Waiter(t, i)]

\* The items t leaves in one mailbox, those of the events last polled first.
NewItems(t, m) ==
  LET n     == Len(request[t].boxes)
      index == Among([k \in 1..n |-> n + 1 - k], {i \in 1..n : request[t].boxes[i] = m})
  IN  [k \in DOMAIN index |-> Item(t, index[k])]

Block(t) ==
  /\ Receives(t) /\ request[t].mode \in {"recv", "sync"} /\ Ready(t) = {}
  /\ state' = [m \in Boxes |->
       IF m \in BoxesOf(t) THEN EMPTY(state[m].q \o NewItems(t, m)) ELSE state[m]]
  /\ pc' = [e \in Entities |->
       IF \E i \in DOMAIN request[t].boxes : e = Waiter(t, i) THEN "recv"
       ELSE IF e = Main(t) THEN "helped" ELSE pc[e]]
  /\ sched' = atomicSwitchToNext(
       [atomicBegin(sched) EXCEPT !.marked = @ \cup
          {Waiter(t, i) : i \in DOMAIN request[t].boxes}])
  /\ UNCHANGED <<cancelled, ops, request, val, result>>

Given(e) == [result EXCEPT ![Tx0(e[1])] = [box |-> Box(e), val |-> val[e]]]

\* A receiver that has been given a message leaves the critical section.
Resume(e) ==
  /\ Runs(e, "recv", 1)
  /\ sched' = atomicEnd(sched)
  /\ \/ /\ e[2] = 0
        /\ pc' = [pc EXCEPT ![e] = "run"]
        /\ result' = Given(e) /\ val' = [val EXCEPT ![e] = Nil]
     \/ /\ e[2] # 0
        /\ pc' = [pc EXCEPT ![e] = "return"]
        /\ UNCHANGED <<result, val>>
  /\ UNCHANGED <<state, cancelled, ops, request>>

\* A helper passes the message to the thread it helps, which runs at once.
HelperReturns(e) ==
  /\ Runs(e, "return", 0)
  /\ sched' = switch(sched, Main(e[1]))
  /\ pc' = [pc EXCEPT ![e] = "none", ![Main(e[1])] = "run"]
  /\ result' = Given(e) /\ val' = [val EXCEPT ![e] = Nil]
  /\ UNCHANGED <<state, cancelled, ops, request>>

Preempt ==
  /\ sched.cur # NoThread /\ sched.atomic = 0
  /\ sched' = alrmHandler(sched)
  /\ UNCHANGED <<state, cancelled, ops, request, pc, val, result>>

Step ==
  \/ \E t \in Threads : \/ \E r \in Requests[t] : Evaluate(t, r)
                        \/ SendToReceiver(t) \/ SendFirst(t) \/ SendNext(t)
                        \/ GetMsg(t) \/ PollFails(t) \/ Block(t)
  \/ \E e \in Entities : Resume(e) \/ HelperReturns(e)

Next == Step \/ Preempt

Spec == Init /\ [][Next]_vars

(***************************************************************************)
(* Properties                                                              *)
(***************************************************************************)
Scheduled(e) == Places(sched, e)

Pending(t) ==
  /\ Tx0(t) \notin cancelled
  /\ \A i \in DOMAIN request[t].boxes :
       LET m == request[t].boxes[i] IN
       state[m].is = "EMPTY" /\ \E k \in DOMAIN state[m].q : state[m].q[k] = Item(t, i)

\* Between critical sections every thread is in exactly one place: on the processor
\* or in one ready queue, once; or blocked with a live item in every mailbox of its
\* request, all of them without messages; or waiting for its one helper that has
\* the message.  Items that died when another mailbox of the choice won stay queued
\* until a send cleans them out (cleanAndDeque), and resume nobody.
NobodyIsLost ==
  sched.atomic = 0 =>
    \A t \in Threads :
      CASE pc[Main(t)] \in {"run", "sync"} -> Scheduled(Main(t)) = 1
        [] pc[Main(t)] = "recv" -> Scheduled(Main(t)) = 0 /\ Pending(t)
        [] pc[Main(t)] = "helped" ->
             /\ Scheduled(Main(t)) = 0
             /\ \/ Pending(t) /\ \A i \in 1..Fan : Scheduled(<<t, i>>) = 0
                \/ /\ Tx0(t) \in cancelled
                   /\ \E i \in 1..Fan :
                        /\ pc[<<t, i>>] = "return" /\ Scheduled(<<t, i>>) = 1
                        /\ \A j \in (1..Fan) \ {i} : Scheduled(<<t, j>>) = 0

\* "The queue of the NONEMPTY constructor should never be empty": getMsg would
\* raise Fail in a critical section, and a send would not look for receivers.
QueueNeverEmpty ==
  \A m \in Boxes : state[m].is = "NONEMPTY" => state[m].q # <<>>

\* What holds between critical sections of the scheduler, the queues and the mailboxes.
SchedulingOk == TypeOK /\ NobodyIsLost /\ QueueNeverEmpty

\* An operation has completed when it has returned, or when one of its entities has
\* been given a message that it will return.
GivenTo(t) == {e \in Entities : e[1] = t /\ val[e] # Nil}

Completed(x) ==
  IF result[x] # Nil THEN result[x]
  ELSE IF x[2] = ops[x[1]] /\ GivenTo(x[1]) # {}
  THEN LET e == CHOOSE e \in GivenTo(x[1]) : TRUE IN [box |-> Box(e), val |-> val[e]]
  ELSE Nil

Messages(m) == IF state[m].is = "NONEMPTY" THEN state[m].q ELSE <<>>

\* Receiver queues, helpers, transaction ids and hand-overs implement one queue of
\* messages per mailbox: nothing is lost, duplicated or overtaken, a receive gets one
\* message of one of its mailboxes, and a hand-over passes by no queued message.
Fifo == INSTANCE CmlFifo WITH
  Ops     <- Tx,
  content <- [m \in Boxes |-> Messages(m)],
  outcome <- [x \in Tx |-> Completed(x)]

ImplementsFifo == Fifo!FifoSpec
=============================================================================
