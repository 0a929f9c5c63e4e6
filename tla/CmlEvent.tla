------------------------------ MODULE CmlEvent ------------------------------
(***************************************************************************)
(* Synchronization in Concurrent ML: channels, choice, negative            *)
(* acknowledgements and the death of threads.                              *)
(*                                                                         *)
(* A synchronization polls its base events in a critical section.  If some *)
(* are enabled it commits to one; if none is, it leaves an item in the     *)
(* queue of each, all sharing one transaction id, and a later partner      *)
(* commits it: the partner takes one item, cancels the transaction id, and *)
(* the items left in the other queues are dead.  With several base events  *)
(* each item belongs to a helper thread of its own, which does the passive *)
(* half of the rendezvous and passes the result to the thread it helps.    *)
(*                                                                         *)
(* A step is one stretch of code between two points where another thread   *)
(* can come in or the code may fail.  sched.atomic > 0 means the stretches *)
(* are in a critical section: sched.cur may then be handed over (a         *)
(* rendezvous), but no preemption happens.                                 *)
(***************************************************************************)
EXTENDS CmlScheduler, Subsequences

CONSTANTS
  Threads,   \* the threads the program spawns
  Channels,
  Requests,  \* the operations the threads perform
  MaxOps,    \* bound: operations of a thread
  Ending,    \* the threads whose program comes to an end
  Fan,       \* bound: base events of one operation
  Nil

(***************************************************************************)
(* A base event is to send or to receive on a channel, or to wait for a    *)
(* condition variable: the n-th negative acknowledgement of the current    *)
(* operation of a thread, or its death (n = 0).  "within" names the        *)
(* withNack groups the base event lies in.                                 *)
(***************************************************************************)
BaseEvents ==
  [kind : {"send", "recv"}, on : Channels, within : SUBSET {1, 2}]
    \cup [kind : {"wait"}, on : Threads \X (0..2), within : SUBSET {1, 2}]

\* A request is a plain call ("call"), a call of the polling variant ("poll"),
\* or sync of a choice ("sync") of base events, in the order in which they are
\* polled, and the withNack groups whose nacks it creates.
ASSUME RequestsAssumption ==
  /\ NoThread \notin Threads \X (0..Fan) /\ Nil \notin Threads \X Nat
  /\ \A v \in (Threads \X (1..MaxOps)) \cup {Nil} :
       Nil # [val |-> v] /\ \A i \in 0..Fan : Nil # [event |-> i, val |-> v]
  /\ MaxOps \in Nat /\ Fan \in Nat /\ Threads # {} /\ IsFiniteSet(Threads)
  /\ \A r \in Requests :
       /\ r \in [mode : {"call", "poll", "sync"}, events : Seq(BaseEvents), nacks : SUBSET {1, 2}]
       /\ Len(r.events) \in 1..Fan
       /\ r.mode # "sync" => r.nacks = {} /\ Len(r.events) = 1
                                          /\ r.events[1].kind # "wait"

Tx       == Threads \X (1..MaxOps)          \* one transaction id for each operation
Entities == Threads \X (0..Fan)             \* <<t, 0>> is t, <<t, i>> its i-th helper
CVars    == Threads \X (0..MaxOps) \X (0..2) \* <<t, 0, 0>> is the death of t

Main(t) == <<t, 0>>
Items   == [tx : Tx, thr : Entities]

VARIABLES
  sched,         \* the scheduler
  inQ, outQ,     \* channel -> blocked receivers, blocked senders
  cvars,         \* the condition variables
  cancelled,     \* the transaction ids in state CANCEL
  ops, request,  \* how many operations each thread began; the current one
  pc, val,       \* what an entity does when it runs next; the value prepared for it
  choice,        \* index of the base event the current thread is committing to
  agenda,        \* what atomicCVarSet and chkCVars have left to do
  failed,        \* an internal exception has been raised
  matched,       \* history: the rendezvous committed
  result         \* history: what each operation returned

vars == <<sched, inQ, outQ, cvars, cancelled, ops, request, pc, val, choice,
          agenda, failed, matched, result>>

\* Program points.  Of a thread: "run" is user code, "sync" the start of an
\* operation, "choice" the commitment to an enabled event, "reply" the wait for
\* the message of the sender it resumed, "helped" the wait for a helper, "exiting".
\* Of whoever has an item queued: "send", "recv", "wait"; once resumed, "sent" and
\* "received" while it cleans up, and for a helper "return" when it has a result.
Points == {"run", "sync", "choice", "reply", "helped", "exiting", "dead", "none",
           "send", "recv", "wait", "sent", "received", "return"}

Tx0(t)     == <<t, ops[t]>>
Event(e)   == request[e[1]].events[IF e[2] = 0 THEN 1 ELSE e[2]]
Nacks(t)   == {<<t, ops[t], n>> : n \in request[t].nacks}
Live(item)      == item.tx \notin cancelled

NotCreated == [state |-> "none", waiting |-> <<>>]
Unset      == [state |-> "unset", waiting |-> <<>>]
IsSet      == [state |-> "set", waiting |-> <<>>]

\* The tasks of the agenda: to set a condition variable, to wake a waiter, and to
\* make a woken waiter ready after its own clean-up.
Tasks == [do : {"set"}, cv : CVars] \cup [do : {"wake", "ready"}, item : Items]

\* The queues hold items, the scheduler and the queues of the program only the
\* threads of the program and their helpers, and the program points are those of
\* a thread or of a helper.
TypeOK ==
  /\ sched \in SchedulerStates(Entities) /\ sched.atomic \in 0..1
  /\ inQ \in [Channels -> Seq(Items)] /\ outQ \in [Channels -> Seq(Items)]
  /\ cvars \in [CVars -> [state : {"none", "unset", "set"}, waiting : Seq(Items)]]
  /\ cancelled \subseteq Tx
  /\ ops \in [Threads -> 0..MaxOps] /\ DOMAIN request = Threads
  /\ \A t \in Threads : ops[t] > 0 =>
       request[t].nacks \subseteq {1, 2} /\ Len(request[t].events) \in 1..Fan
  /\ pc \in [Entities -> Points]
  /\ \A e \in Entities : e[2] = 0 => pc[e] \notin {"none", "return"}
  /\ val \in [Entities -> Entities \cup Tx \cup {Nil}]
  /\ choice \in 0..Fan
  /\ agenda \in Seq(Tasks)
  /\ failed \in BOOLEAN
  /\ matched \subseteq Tx \X Tx \X Channels
  /\ result \in [Tx -> {Nil} \cup [event : 0..Fan, val : Tx \cup {Nil}]]

Init ==
  /\ \E order \in [1..Cardinality(Threads) -> Threads] :
       /\ \A t \in Threads : \E i \in DOMAIN order : order[i] = t
       /\ sched = Started(Main(order[1]),
                          [i \in 1..(Cardinality(Threads) - 1) |-> Main(order[i + 1])])
  /\ inQ = [c \in Channels |-> <<>>] /\ outQ = [c \in Channels |-> <<>>]
  /\ cvars = [v \in CVars |-> IF v[2] = 0 /\ v[3] = 0 THEN Unset ELSE NotCreated]
  /\ cancelled = {}
  /\ ops = [t \in Threads |-> 0] /\ request = [t \in Threads |-> Nil]
  /\ pc = [e \in Entities |-> IF e[2] = 0 THEN "run" ELSE "none"]
  /\ val = [e \in Entities |-> Nil]
  /\ choice = 0 /\ agenda = <<>> /\ failed = FALSE
  /\ matched = {} /\ result = [x \in Tx |-> Nil]

(***************************************************************************)
(* Starting an operation                                                   *)
(***************************************************************************)
\* e has the processor, in a critical section or not.
Runs(e, point, depth) ==
  /\ ~failed /\ sched.cur = e /\ pc[e] = point /\ sched.atomic = depth

\* The condition variable a "wait" event refers to: a nack of the operation its
\* thread is performing, or the thread's death.
CVarOf(on) == IF on[2] = 0 THEN <<on[1], 0, 0>> ELSE <<on[1], ops[on[1]], on[2]>>

\* What is left of a request when its guards have been evaluated.
Forced(r) ==
  LET forced(ev) == IF ev.kind = "wait" THEN [ev EXCEPT !.on = CVarOf(ev.on)] ELSE ev
  IN  [r EXCEPT !.events = [i \in DOMAIN r.events |-> forced(r.events[i])]]

\* User code evaluates the guards of an operation (force): it creates the nack
\* events of the operation, and can only mention nacks that exist.
Evaluate(t, r) ==
  /\ Runs(Main(t), "run", 0) /\ ops[t] < MaxOps
  /\ \A i \in DOMAIN r.events :
       r.events[i].kind = "wait" =>
         /\ r.events[i].on[1] # t
         /\ cvars[CVarOf(r.events[i].on)].state # "none"
  /\ ops' = [ops EXCEPT ![t] = @ + 1]
  /\ request' = [request EXCEPT ![t] = Forced(r)]
  /\ cvars' = [v \in CVars |->
       IF v[1] = t /\ v[2] = ops[t] + 1 /\ v[3] \in r.nacks THEN Unset ELSE cvars[v]]
  /\ pc' = [pc EXCEPT ![Main(t)] = "sync"]
  /\ UNCHANGED <<sched, inQ, outQ, cancelled, val, choice, agenda, failed,
                 matched, result>>

Clean(q)      == Among(q, {item \in Items : Live(item)})

Polled(t, kind, q) ==
  [c \in Channels |->
     IF \E i \in DOMAIN request[t].events :
          request[t].events[i].kind = kind /\ request[t].events[i].on = c
     THEN Clean(q[c]) ELSE q[c]]

\* cleanAndChk: an item is left when the dead ones are gone.
WrongHasPartner(q) == q # <<>> /\ Live(Head(q))
HasPartner(q)      == Clean(q) # <<>>

Enabled(ev) ==
  CASE ev.kind = "send" -> HasPartner(inQ[ev.on])
    [] ev.kind = "recv" -> HasPartner(outQ[ev.on])
    [] ev.kind = "wait" -> cvars[ev.on].state = "set"

EnabledEvents(t) == {i \in DOMAIN request[t].events : Enabled(request[t].events[i])}

\* chkCVars: the nacks of the groups that do not contain the event committed to.
WrongLostGroups(t, i) == request[t].nacks
LostGroups(t, i)      == request[t].nacks \ request[t].events[i].within

NackTasks(t, i) ==
  LET lost == LostGroups(t, i)
      task(n) == [do |-> "set", cv |-> <<t, ops[t], n>>]
  IN  (IF 2 \in lost THEN <<task(2)>> ELSE <<>>)
        \o (IF 1 \in lost THEN <<task(1)>> ELSE <<>>)

\* Some base events are enabled: commit to one, and set the nacks of the others.
SyncEnabled(t) ==
  /\ Runs(Main(t), "sync", 0)
  /\ \E i \in EnabledEvents(t) : choice' = i /\ agenda' = NackTasks(t, i)
  /\ sched' = atomicBegin(sched)
  /\ inQ' = Polled(t, "send", inQ) /\ outQ' = Polled(t, "recv", outQ)
  /\ pc' = [pc EXCEPT ![Main(t)] = "choice"]
  /\ UNCHANGED <<cvars, cancelled, ops, request, val, failed, matched, result>>

\* None is, and the variant polls: it returns at once.
PollFails(t) ==
  /\ Runs(Main(t), "sync", 0) /\ request[t].mode = "poll" /\ EnabledEvents(t) = {}
  /\ inQ' = Polled(t, "send", inQ) /\ outQ' = Polled(t, "recv", outQ)
  /\ pc' = [pc EXCEPT ![Main(t)] = "run"]
  /\ result' = [result EXCEPT ![Tx0(t)] = [event |-> 0, val |-> Nil]]
  /\ UNCHANGED <<sched, cvars, cancelled, ops, request, val, choice, agenda,
                 failed, matched>>

(***************************************************************************)
(* Blocking                                                                *)
(***************************************************************************)
\* With one base event the thread itself is queued, with several -- and always
\* under syncOnGrp -- a helper for each.
HasHelpers(t) == Len(request[t].events) > 1 \/ request[t].nacks # {}

Waiter(t, i) == IF HasHelpers(t) THEN <<t, i>> ELSE Main(t)
Item(t, i)   == [tx |-> Tx0(t), thr |-> Waiter(t, i)]

\* The items t leaves in one queue.  syncOnBEvts logs the block functions last
\* polled first; a channel's queue grows at its end, a variable's list at its front.
LastFirst(n)  == [k \in 1..n |-> n + 1 - k]
FirstFirst(n) == [k \in 1..n |-> k]

NewItems(t, kind, on, order) ==
  LET index == Among(order, {i \in DOMAIN request[t].events :
                               request[t].events[i].kind = kind /\ request[t].events[i].on = on})
  IN  [k \in DOMAIN index |-> Item(t, index[k])]

\* enqueAndClean; only the plain call of send leaves dead items where they are.
Enqueued(t, kind, q, keep) ==
  [c \in Channels |->
     LET new == NewItems(t, kind, c, LastFirst(Len(request[t].events)))
     IN  IF new = <<>> THEN q[c]
         ELSE IF keep THEN q[c] \o new ELSE Clean(q[c] \o new)]

\* None is enabled: queue an item for each and give the processor away.
Block(t) ==
  /\ Runs(Main(t), "sync", 0) /\ request[t].mode # "poll" /\ EnabledEvents(t) = {}
  /\ inQ'  = Enqueued(t, "recv", Polled(t, "send", inQ), FALSE)
  /\ outQ' = Enqueued(t, "send", Polled(t, "recv", outQ), request[t].mode = "call")
  /\ cvars' = [v \in CVars |->
       [cvars[v] EXCEPT !.waiting = NewItems(t, "wait", v, FirstFirst(Len(request[t].events))) \o @]]
  /\ pc' = [e \in Entities |->
       IF \E i \in DOMAIN request[t].events : e = Waiter(t, i) THEN
         request[t].events[IF e[2] = 0 THEN 1 ELSE e[2]].kind
       ELSE IF e = Main(t) THEN "helped" ELSE pc[e]]
  /\ sched' = atomicSwitchToNext(
       [atomicBegin(sched) EXCEPT !.marked = @ \cup
          {Waiter(t, i) : i \in DOMAIN request[t].events}])
  /\ UNCHANGED <<cancelled, ops, request, val, choice, agenda, failed, matched, result>>

(***************************************************************************)
(* Committing to an enabled event (its doitFn)                             *)
(***************************************************************************)
Return(t, i, v) == result' = [result EXCEPT ![Tx0(t)] = [event |-> i, val |-> v]]

\* TransID.force raises Fail on a transaction id that is cancelled.
Fails(item) == ~Live(item)

Fail == /\ failed' = TRUE
        /\ UNCHANGED <<sched, inQ, outQ, cvars, cancelled, ops, request, pc, val,
                       choice, agenda, matched, result>>

\* send, sendEvt and sendPoll with a receiver in the queue: it gets the message
\* and the critical section, the sender is ready.
DoSend(t, c) ==
  LET item == Head(inQ[c]) IN
  /\ Runs(Main(t), "choice", 1) /\ agenda = <<>>
  /\ Event(<<t, choice>>).kind = "send" /\ Event(<<t, choice>>).on = c
  /\ IF Fails(item) THEN Fail ELSE
     /\ inQ' = [inQ EXCEPT ![c] = Tail(@)]
     /\ cancelled' = cancelled \cup {item.tx}
     /\ val' = [val EXCEPT ![item.thr] = Tx0(t)]
     /\ pc' = [pc EXCEPT ![Main(t)] = "run"]
     /\ choice' = 0
     /\ sched' = readyAndSwitch(sched, item.thr)
     /\ matched' = matched \cup {<<Tx0(t), item.tx, c>>}
     /\ Return(t, choice, Nil)
     /\ UNCHANGED <<outQ, cvars, ops, request, agenda, failed>>

\* recv, recvEvt and recvPoll with a sender in the queue: it is resumed with the
\* receiver, and answers with the message.
DoRecv(t, c) ==
  LET item == Head(outQ[c]) IN
  /\ Runs(Main(t), "choice", 1) /\ agenda = <<>>
  /\ Event(<<t, choice>>).kind = "recv" /\ Event(<<t, choice>>).on = c
  /\ IF Fails(item) THEN Fail ELSE
     /\ outQ' = [outQ EXCEPT ![c] = Tail(@)]
     /\ cancelled' = cancelled \cup {item.tx}
     /\ val' = [val EXCEPT ![item.thr] = Main(t)]
     /\ pc' = [pc EXCEPT ![Main(t)] = "reply"]
     /\ sched' = switch(sched, item.thr)
     /\ matched' = matched \cup {<<item.tx, Tx0(t), c>>}
     /\ UNCHANGED <<inQ, cvars, ops, request, choice, agenda, failed, result>>

\* A condition variable that is set (cvarGetEvt).
DoWait(t) ==
  /\ Runs(Main(t), "choice", 1) /\ agenda = <<>>
  /\ Event(<<t, choice>>).kind = "wait"
  /\ sched' = atomicEnd(sched)
  /\ pc' = [pc EXCEPT ![Main(t)] = "run"]
  /\ choice' = 0
  /\ Return(t, choice, Nil)
  /\ UNCHANGED <<inQ, outQ, cvars, cancelled, ops, request, val, agenda, failed, matched>>

(***************************************************************************)
(* The passive side: the continuations of the block functions              *)
(***************************************************************************)
\* What an entity does when its operation is over: a helper has a result to pass
\* on, a thread goes on with user code.
Finished(e) == IF e[2] = 0 THEN "run" ELSE "return"

Outcome(e, v) ==
  IF e[2] = 0
  THEN [result EXCEPT ![Tx0(e[1])] = [event |-> 1, val |-> v]]
  ELSE result

\* cleanUp: cancel the transaction id (again: its partner has forced it) and set the
\* nacks of the other groups.  A plain call has nothing to clean up.
CleanUp(e) ==
  /\ \E point \in {"send", "recv"} :
       /\ Runs(e, point, 1)
       /\ pc' = [pc EXCEPT ![e] = IF point = "send" THEN "sent" ELSE "received"]
  /\ cancelled' = IF request[e[1]].mode = "call" THEN cancelled
                  ELSE cancelled \cup {Tx0(e[1])}
  /\ agenda' = IF e[2] = 0 THEN <<>> ELSE NackTasks(e[1], e[2])
  /\ UNCHANGED <<sched, inQ, outQ, cvars, ops, request, val, choice, failed,
                 matched, result>>

\* A receiver has its message and leaves the critical section.
Received(e) ==
  /\ Runs(e, "received", 1) /\ agenda = <<>>
  /\ sched' = atomicEnd(sched)
  /\ pc' = [pc EXCEPT ![e] = Finished(e)]
  /\ result' = Outcome(e, val[e])
  /\ UNCHANGED <<inQ, outQ, cvars, cancelled, ops, request, val, choice, agenda,
                 failed, matched>>

\* A sender passes its message and the processor to the receiver it was given.
Sent(e) ==
  LET rt == val[e] IN
  /\ Runs(e, "sent", 1) /\ agenda = <<>>
  /\ sched' = atomicReadyAndSwitch(sched, rt)
  /\ pc' = [pc EXCEPT ![e] = Finished(e), ![rt] = "run"]
  /\ result' = [Outcome(e, Nil) EXCEPT
                  ![Tx0(rt[1])] = [event |-> choice, val |-> Tx0(e[1])]]
  /\ choice' = 0
  /\ UNCHANGED <<inQ, outQ, cvars, cancelled, ops, request, val, agenda, failed, matched>>

\* What a helper returns: the message its event received, if it is a receive.
WrongHelperVal(e) == IF Event(e).kind = "recv" THEN val[Main(e[1])] ELSE Nil
HelperVal(e)      == IF Event(e).kind = "recv" THEN val[e] ELSE Nil

\* A helper passes the result to the thread it helps, which runs at once.
HelperReturns(e) ==
  /\ Runs(e, "return", 0)
  /\ sched' = switch(sched, Main(e[1]))
  /\ pc' = [pc EXCEPT ![e] = "none", ![Main(e[1])] = "run"]
  /\ result' = [result EXCEPT ![Tx0(e[1])] = [event |-> e[2], val |-> HelperVal(e)]]
  /\ UNCHANGED <<inQ, outQ, cvars, cancelled, ops, request, val, choice, agenda,
                 failed, matched>>

(***************************************************************************)
(* Setting condition variables (atomicCVarSet, chkCVars)                   *)
(***************************************************************************)
Wakes(v)      == [i \in DOMAIN cvars[v].waiting |->
                    [do |-> "wake", item |-> cvars[v].waiting[i]]]

\* atomicCVarSet raises Fail on a variable that is set already.
SetCVar ==
  LET v == Head(agenda).cv IN
  /\ ~failed /\ agenda # <<>> /\ Head(agenda).do = "set"
  /\ IF cvars[v].state = "set" THEN Fail ELSE
     /\ cvars' = [cvars EXCEPT ![v] = IsSet]
     /\ agenda' = Wakes(v) \o Tail(agenda)
     /\ UNCHANGED <<sched, inQ, outQ, cancelled, ops, request, pc, val, choice,
                    failed, matched, result>>

\* A waiter whose transaction id is alive is cancelled and cleaned up after, which
\* may set other variables, before it is made ready.
WrongWakeTasks(item) ==
  IF item.thr[2] = 0 THEN <<>> ELSE NackTasks(item.thr[1], item.thr[2])
WakeTasks(item) ==
  (IF item.thr[2] = 0 THEN <<>> ELSE NackTasks(item.thr[1], item.thr[2]))
    \o <<[do |-> "ready", item |-> item]>>

Wake ==
  LET item == Head(agenda).item IN
  /\ ~failed /\ agenda # <<>> /\ Head(agenda).do = "wake"
  /\ IF Live(item)
     THEN /\ cancelled' = cancelled \cup {item.tx}
          /\ agenda' = WakeTasks(item) \o Tail(agenda)
     ELSE cancelled' = cancelled /\ agenda' = Tail(agenda)
  /\ UNCHANGED <<sched, inQ, outQ, cvars, ops, request, pc, val, choice, failed,
                 matched, result>>

MakeReady ==
  LET item == Head(agenda).item IN
  /\ ~failed /\ agenda # <<>> /\ Head(agenda).do = "ready"
  /\ agenda' = Tail(agenda)
  /\ sched' = ready(sched, item.thr)
  /\ pc' = [pc EXCEPT ![item.thr] = Finished(item.thr)]
  /\ result' = Outcome(item.thr, Nil)
  /\ UNCHANGED <<inQ, outQ, cvars, cancelled, ops, request, val, choice, failed, matched>>

(***************************************************************************)
(* The end of a thread, the timer                                          *)
(***************************************************************************)
\* generalExit: the death of the thread is announced in the critical section in
\* which it gives the processor away.
Exit(t) ==
  /\ t \in Ending
  /\ Runs(Main(t), "run", 0)
  /\ sched' = atomicBegin(sched)
  /\ pc' = [pc EXCEPT ![Main(t)] = "exiting"]
  /\ agenda' = <<[do |-> "set", cv |-> <<t, 0, 0>>]>>
  /\ UNCHANGED <<inQ, outQ, cvars, cancelled, ops, request, val, choice, failed,
                 matched, result>>

Exited(t) ==
  /\ Runs(Main(t), "exiting", 1) /\ agenda = <<>>
  /\ sched' = atomicSwitchToNext(sched)
  /\ pc' = [pc EXCEPT ![Main(t)] = "dead"]
  /\ UNCHANGED <<inQ, outQ, cvars, cancelled, ops, request, val, choice, agenda,
                 failed, matched, result>>

\* The timer signal is handled as soon as no critical section is running.
Preempt ==
  /\ ~failed /\ sched.cur # NoThread /\ sched.atomic = 0
  /\ sched' = alrmHandler(sched)
  /\ UNCHANGED <<inQ, outQ, cvars, cancelled, ops, request, pc, val, choice,
                 agenda, failed, matched, result>>

ThreadStep(t) ==
  \/ \E r \in Requests : Evaluate(t, r)
  \/ SyncEnabled(t) \/ PollFails(t) \/ Block(t)
  \/ \E c \in Channels : DoSend(t, c) \/ DoRecv(t, c)
  \/ DoWait(t)
  \/ Exit(t) \/ Exited(t)

EntityStep(e) == CleanUp(e) \/ Received(e) \/ Sent(e) \/ HelperReturns(e)

AgendaStep == SetCVar \/ Wake \/ MakeReady

Step ==
  \/ \E t \in Threads : ThreadStep(t)
  \/ \E e \in Entities : EntityStep(e)
  \/ AgendaStep

Next == Step \/ Preempt

Spec == Init /\ [][Next]_vars

\* Programs get on with their operations in the quanta they are given, and the timer
\* ends every quantum.
FairSpec == Spec /\ SF_vars(Step) /\ WF_vars(Preempt)

(***************************************************************************)
(* Properties                                                              *)
(***************************************************************************)
Scheduled(e) == Places(sched, e)

QueueOf(ev) == CASE ev.kind = "send" -> outQ[ev.on]
                 [] ev.kind = "recv" -> inQ[ev.on]
                 [] ev.kind = "wait" -> cvars[ev.on].waiting

IsQueued(t, i) ==
  \E k \in DOMAIN QueueOf(request[t].events[i]) :
    QueueOf(request[t].events[i])[k] = Item(t, i)

\* The operation of t is queued for each of its events, and alive.
Pending(t) == /\ Live([tx |-> Tx0(t)])
              /\ \A i \in DOMAIN request[t].events : IsQueued(t, i)

\* Between critical sections every thread is in exactly one place: on the processor
\* or in one ready queue, once; or blocked with a live item in the queue of every
\* event of its choice; or waiting for its one helper that has the result.  A
\* thread dropped by a rendezvous, resumed twice, or left behind by the
\* cancellation of its transaction id would be in none or in two.
NobodyIsLost ==
  ~failed /\ sched.atomic = 0 =>
    \A t \in Threads :
      CASE pc[Main(t)] \in {"run", "sync"} -> Scheduled(Main(t)) = 1
        [] pc[Main(t)] \in {"send", "recv", "wait"} ->
             Scheduled(Main(t)) = 0 /\ Pending(t)
        [] pc[Main(t)] = "helped" ->
             /\ Scheduled(Main(t)) = 0
             /\ \/ /\ Pending(t)
                   /\ \A i \in 1..Fan : Scheduled(<<t, i>>) = 0
                \/ /\ ~Live([tx |-> Tx0(t)])
                   /\ \E i \in 1..Fan :
                        /\ pc[<<t, i>>] = "return" /\ Scheduled(<<t, i>>) = 1
                        /\ \A j \in (1..Fan) \ {i} : Scheduled(<<t, j>>) = 0
        [] pc[Main(t)] = "dead" -> Scheduled(Main(t)) = 0
        [] OTHER -> FALSE

\* Between critical sections no two operations that could meet are both asleep:
\* a live sender and a live receiver in the queues of a channel can only be two
\* events of one choice, and nobody alive waits for a variable that is set.
NoPartnersAsleep ==
  ~failed /\ sched.atomic = 0 =>
    /\ \A c \in Channels : \A i \in DOMAIN inQ[c], j \in DOMAIN outQ[c] :
         Live(inQ[c][i]) /\ Live(outQ[c][j]) => inQ[c][i].tx = outQ[c][j].tx
    /\ \A v \in CVars : cvars[v].state = "set" =>
         \A t \in Threads : ops[t] > 0 /\ Live([tx |-> Tx0(t)]) /\ result[Tx0(t)] = Nil
                              /\ pc[Main(t)] # "sync" =>
           \A i \in DOMAIN request[t].events :
             ~(request[t].events[i].kind = "wait" /\ request[t].events[i].on = v)

\* TransID.force finds the transaction id alive, and no condition variable is set
\* twice: neither of the exceptions that would say otherwise is raised.
NeverFails == ~failed

\* The requests for which it is not: a choice polls its partner, sets the nacks of the
\* groups it loses, and then forces the transaction id of the partner.  The program is
\* free of that race if no operation that waits for one of these nacks, or for one
\* that waking it sets in turn (the nacks numbered in G), could be the partner.
Partner(ev, q) ==
  \E k \in DOMAIN q.events :
    {ev.kind, q.events[k].kind} = {"send", "recv"} /\ ev.on = q.events[k].on

Closed(G, ev, R) ==
  \A q \in R : \A j \in DOMAIN q.events :
    q.events[j].kind = "wait" /\ q.events[j].on[2] \in G =>
      q.nacks \ q.events[j].within \subseteq G /\ ~Partner(ev, q)

RaceFree(R) ==
  \A r \in R : \A i \in DOMAIN r.events : r.events[i].kind # "wait" =>
    \E G \in SUBSET {1, 2} :
      r.nacks \ r.events[i].within \subseteq G /\ Closed(G, r.events[i], R)

\* What the scheduler and the queues owe to threads and partners.
SchedulingOk == TypeOK /\ NeverFails /\ NobodyIsLost /\ NoPartnersAsleep

\* The event the operation of t has committed to: the one it returned with, or the
\* one whose helper has the result; 0 if there is none.
CommittedTo(t) ==
  IF result[Tx0(t)] # Nil THEN result[Tx0(t)].event
  ELSE LET h == {i \in 1..Fan : pc[<<t, i>>] = "return"}
       IN  IF h = {} THEN 0 ELSE CHOOSE i \in h : TRUE

\* Between critical sections the negative acknowledgement of a withNack group is
\* set exactly when the operation has committed to an event outside the group.
NackIffLost ==
  ~failed /\ sched.atomic = 0 =>
    \A t \in Threads : ops[t] > 0 =>
      \A v \in Nacks(t) :
        (cvars[v].state = "set") <=>
          /\ CommittedTo(t) # 0
          /\ v[3] \notin request[t].events[CommittedTo(t)].within

\* Both parties of a rendezvous return from their operations and run again, even if
\* no thread ever gives the processor away by itself: the timer, the secondary queue
\* and the helpers see to it.
PartiesReturn ==
  \A x \in Tx :
    (\E m \in matched : x \in {m[1], m[2]})
      ~> \/ ops[x[1]] > x[2] \/ pc[Main(x[1])] = "dead"
         \/ result[x] # Nil /\ sched.cur = Main(x[1]) /\ pc[Main(x[1])] = "run"

\* The abstract view: offers, rendezvous and answers.
Abstract == INSTANCE CmlRendezvous WITH
  offer  <- [t \in Threads |->
               IF ops[t] = 0 THEN {}
               ELSE {[kind |-> request[t].events[i].kind, on |-> request[t].events[i].on] :
                       i \in DOMAIN request[t].events}],
  began  <- ops,
  answer <- [x \in Tx |->
               IF result[x] = Nil THEN Nil ELSE [val |-> result[x].val]]

\* Concurrent ML's channels implement synchronous rendezvous: see CmlRendezvous.
ImplementsRendezvous == Abstract!Spec
=============================================================================
