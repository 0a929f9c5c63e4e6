------------------------------ MODULE CmlSyncVar ------------------------------
(***************************************************************************)
(* Synchronizing variables of Concurrent ML: i-variables (put, get) and    *)
(* m-variables (put, take, get, swap), both on one kind of cell.           *)
(*                                                                         *)
(* A reader of an empty cell leaves an item in the cell's readQ.  A put    *)
(* into an empty cell hands the value and the critical section to the      *)
(* first reader that is alive; the reader does its swap and relays the     *)
(* value to the next one, and so on until the queue is empty, in one       *)
(* critical section passed from thread to thread.  A choice of several     *)
(* reads has a helper thread for each, as in CmlEvent, whose transaction   *)
(* ids, scheduler and helpers this module shares; negative                 *)
(* acknowledgements and channels are left to CmlEvent.                     *)
(***************************************************************************)
EXTENDS CmlScheduler, Subsequences

CONSTANTS
  Threads, Cells,
  Requests,  \* the operations each thread performs
  MaxOps,    \* bound: operations of a thread
  Fan,       \* bound: base events of one operation
  Nil

\* A request puts into a cell ("put"), reads it by a plain call ("call") or by the
\* polling variant ("poll"), or synchronizes on a choice of reads ("sync"), given in
\* the order in which they are polled.  A read gets the value, takes it, or swaps it
\* for another.
Reads == [kind : {"get", "take", "swap"}, on : Cells]

RequestsAssumption ==
  /\ NoThread \notin Threads \X (0..Fan) /\ Nil \notin Threads \X Nat
  /\ MaxOps \in Nat /\ Fan \in Nat /\ Threads # {} /\ IsFiniteSet(Threads)
  /\ \A t \in Threads : \A r \in Requests[t] :
       /\ r.mode \in {"put", "call", "poll", "sync"}
       /\ r.events \in Seq(Reads) /\ Len(r.events) \in 1..Fan
       /\ r.mode # "sync" => Len(r.events) = 1

\* Only one thread of the program takes from or swaps each cell by an operation that
\* may wait: of two that wait for one cell, both get the value that is put into it.
WaitsToTake(r, c) ==
  r.mode \in {"call", "sync"} /\ \E i \in DOMAIN r.events :
                                  r.events[i].kind # "get" /\ r.events[i].on = c

OneTakerAssumption ==
  \A c \in Cells : \A t, u \in Threads :
    (\E r \in Requests[t] : WaitsToTake(r, c)) /\ (\E r \in Requests[u] : WaitsToTake(r, c))
    => t = u

Tx       == Threads \X (1..MaxOps)    \* the operation, its transaction id and its value
Entities == Threads \X (0..Fan)       \* <<t, 0>> is t, <<t, i>> its i-th helper
Main(t)  == <<t, 0>>
Items    == [tx : Tx, thr : Entities]

VARIABLES
  sched,      \* the scheduler
  value,      \* what a cell holds
  readQ,      \* its blocked readers
  cancelled,  \* the transaction ids in state CANCEL
  ops, request, pc,
  val,        \* the value an entity has been given
  result,     \* history: what each operation returned; event 0 if it raised Put or
              \* its poll failed
  installed,  \* history: the operations that left their value in a cell
  removed     \* history: who took which value out of a cell

vars == <<sched, value, readQ, cancelled, ops, request, pc, val, result,
          installed, removed>>

Points == {"run", "sync", "read", "helped", "none", "return"}

\* The scheduler and the queues hold entities of the program, and the cells values
\* that were put or swapped into them.
TypeOK ==
  /\ sched \in SchedulerStates(Entities) /\ sched.atomic \in 0..1
  /\ value \in [Cells -> Tx \cup {Nil}] /\ readQ \in [Cells -> Seq(Items)]
  /\ cancelled \subseteq Tx
  /\ ops \in [Threads -> 0..MaxOps]
  /\ DOMAIN request = Threads /\ \A t \in Threads : ops[t] > 0 => request[t] \in Requests[t]
  /\ pc \in [Entities -> Points]
  /\ \A e \in Entities : e[2] = 0 => pc[e] \notin {"none", "return"}
  /\ val \in [Entities -> Tx \cup {Nil}]
  /\ result \in [Tx -> {Nil} \cup [event : 0..Fan, val : Tx \cup {Nil}]]
  /\ installed \subseteq Tx /\ removed \subseteq [by : Tx, val : Tx]

Tx0(t)     == <<t, ops[t]>>
Event(e)   == request[e[1]].events[IF e[2] = 0 THEN 1 ELSE e[2]]
Live(item) == item.tx \notin cancelled

Init ==
  /\ \E order \in [1..Cardinality(Threads) -> Threads] :
       /\ \A t \in Threads : \E i \in DOMAIN order : order[i] = t
       /\ sched = Started(Main(order[1]),
                          [i \in 1..(Cardinality(Threads) - 1) |-> Main(order[i + 1])])
  /\ value = [c \in Cells |-> Nil] /\ readQ = [c \in Cells |-> <<>>]
  /\ cancelled = {}
  /\ ops = [t \in Threads |-> 0] /\ request = [t \in Threads |-> Nil]
  /\ pc = [e \in Entities |-> IF e[2] = 0 THEN "run" ELSE "none"]
  /\ val = [e \in Entities |-> Nil]
  /\ result = [x \in Tx |-> Nil] /\ installed = {} /\ removed = {}

Runs(e, point, depth) == sched.cur = e /\ pc[e] = point /\ sched.atomic = depth

\* User code evaluates its next operation.
Evaluate(t, r) ==
  /\ Runs(Main(t), "run", 0) /\ ops[t] < MaxOps
  /\ ops' = [ops EXCEPT ![t] = @ + 1] /\ request' = [request EXCEPT ![t] = r]
  /\ pc' = [pc EXCEPT ![Main(t)] = "sync"]
  /\ UNCHANGED <<sched, value, readQ, cancelled, val, result, installed,
                 removed>>

Return(t, i, v) == result' = [result EXCEPT ![Tx0(t)] = [event |-> i, val |-> v]]

(***************************************************************************)
(* Handing a value to the readers                                          *)
(***************************************************************************)
Swapped(ev, x) ==
  CASE ev.kind = "get"  -> value[ev.on]
    [] ev.kind = "take" -> Nil
    [] ev.kind = "swap" -> x

Swap(ev, x, v) ==
  /\ value' = [value EXCEPT ![ev.on] = Swapped(ev, x)]
  /\ installed' = IF ev.kind = "swap" THEN installed \cup {x} ELSE installed
  /\ removed' = IF ev.kind = "get" THEN removed ELSE removed \cup {[by |-> x, val |-> v]}

Clean(q, dead) == Among(q, {item \in Items : item.tx \notin dead})

\* relayMsg, and the end of gPut: the first live reader gets the value and the
\* critical section, or the critical section ends.
HandOver(c, v, s, dead) ==
  LET q == Clean(readQ[c], dead) IN
  IF q = <<>>
  THEN /\ sched' = atomicEnd(s) /\ cancelled' = dead /\ val' = val
       /\ readQ' = [readQ EXCEPT ![c] = <<>>]
  ELSE /\ sched' = readyAndSwitch(s, Head(q).thr)
       /\ cancelled' = dead \cup {Head(q).tx}
       /\ val' = [val EXCEPT ![Head(q).thr] = v]
       /\ readQ' = [readQ EXCEPT ![c] = Tail(q)]

\* gPut: it raises Put if the cell is full.
PutHands(c, v) == HandOver(c, v, atomicBegin(sched), cancelled)

Put(t) ==
  LET c == Event(Main(t)).on IN
  /\ Runs(Main(t), "sync", 0) /\ request[t].mode = "put"
  /\ pc' = [pc EXCEPT ![Main(t)] = "run"]
  /\ UNCHANGED <<ops, request, removed>>
  /\ \/ /\ value[c] = Nil
        /\ value' = [value EXCEPT ![c] = Tx0(t)]
        /\ installed' = installed \cup {Tx0(t)}
        /\ PutHands(c, Tx0(t))
        /\ Return(t, 1, Nil)
     \/ /\ value[c] # Nil
        /\ Return(t, 0, Nil)
        /\ UNCHANGED <<sched, value, readQ, cancelled, val, installed>>

(***************************************************************************)
(* Reading                                                                 *)
(***************************************************************************)
EnabledEvents(t) == {i \in DOMAIN request[t].events : value[request[t].events[i].on] # Nil}

\* Some cell of the choice is full: commit to one.
ReadNow(t) ==
  /\ Runs(Main(t), "sync", 0) /\ request[t].mode # "put"
  /\ \E i \in EnabledEvents(t) :
       LET ev == request[t].events[i] IN
       Swap(ev, Tx0(t), value[ev.on]) /\ Return(t, i, value[ev.on])
  /\ pc' = [pc EXCEPT ![Main(t)] = "run"]
  /\ UNCHANGED <<sched, readQ, cancelled, ops, request, val>>

PollFails(t) ==
  /\ Runs(Main(t), "sync", 0) /\ request[t].mode = "poll" /\ EnabledEvents(t) = {}
  /\ pc' = [pc EXCEPT ![Main(t)] = "run"]
  /\ Return(t, 0, Nil)
  /\ UNCHANGED <<sched, value, readQ, cancelled, ops, request, val, installed,
                 removed>>

Waiter(t, i) == IF Len(request[t].events) > 1 THEN <<t, i>> ELSE Main(t)
Item(t, i)   == [tx |-> Tx0(t), thr |-> Waiter(t, i)]

\* The items t leaves in one queue, those of the events last polled first.
NewItems(t, c) ==
  LET n     == Len(request[t].events)
      index == Among([k \in 1..n |-> n + 1 - k], {i \in 1..n : request[t].events[i].on = c})
  IN  [k \in DOMAIN index |-> Item(t, index[k])]

Block(t) ==
  /\ Runs(Main(t), "sync", 0) /\ request[t].mode \in {"call", "sync"}
  /\ EnabledEvents(t) = {}
  /\ readQ' = [c \in Cells |->
       IF NewItems(t, c) = <<>> THEN readQ[c]
       ELSE Clean(readQ[c] \o NewItems(t, c), cancelled)]
  /\ pc' = [e \in Entities |->
       IF \E i \in DOMAIN request[t].events : e = Waiter(t, i) THEN "read"
       ELSE IF e = Main(t) THEN "helped" ELSE pc[e]]
  /\ sched' = atomicSwitchToNext(
       [atomicBegin(sched) EXCEPT !.marked = @ \cup
          {Waiter(t, i) : i \in DOMAIN request[t].events}])
  /\ UNCHANGED <<value, cancelled, ops, request, val, result, installed, removed>>

\* A reader that has been given the value cleans up, does its swap and relays.
WrongRelay(e, dead) == /\ sched' = atomicEnd(sched) /\ cancelled' = dead
                       /\ UNCHANGED <<readQ, val>>
Relay(e, dead)      == HandOver(Event(e).on, val[e], sched, dead)

Resume(e) ==
  /\ Runs(e, "read", 1)
  /\ Swap(Event(e), Tx0(e[1]), val[e])
  /\ Relay(e, IF request[e[1]].mode = "call" THEN cancelled
              ELSE cancelled \cup {Tx0(e[1])})
  /\ pc' = [pc EXCEPT ![e] = IF e[2] = 0 THEN "run" ELSE "return"]
  /\ result' = IF e[2] # 0 THEN result
               ELSE [result EXCEPT ![Tx0(e[1])] = [event |-> 1, val |-> val[e]]]
  /\ UNCHANGED <<ops, request>>

\* A helper passes the value to the thread it helps, which runs at once.
HelperReturns(e) ==
  /\ Runs(e, "return", 0)
  /\ sched' = switch(sched, Main(e[1]))
  /\ pc' = [pc EXCEPT ![e] = "none", ![Main(e[1])] = "run"]
  /\ result' = [result EXCEPT ![Tx0(e[1])] = [event |-> e[2], val |-> val[e]]]
  /\ UNCHANGED <<value, readQ, cancelled, ops, request, val, installed, removed>>

Preempt ==
  /\ sched.cur # NoThread /\ sched.atomic = 0
  /\ sched' = alrmHandler(sched)
  /\ UNCHANGED <<value, readQ, cancelled, ops, request, pc, val, result, installed,
                 removed>>

Step ==
  \/ \E t \in Threads : \/ \E r \in Requests[t] : Evaluate(t, r)
                        \/ Put(t) \/ ReadNow(t) \/ PollFails(t) \/ Block(t)
  \/ \E e \in Entities : Resume(e) \/ HelperReturns(e)

Next == Step \/ Preempt

Spec == Init /\ [][Next]_vars

(***************************************************************************)
(* Properties                                                              *)
(***************************************************************************)
Scheduled(e) == Places(sched, e)

Pending(t) ==
  /\ Tx0(t) \notin cancelled
  /\ \A i \in DOMAIN request[t].events :
       \E k \in DOMAIN readQ[request[t].events[i].on] :
         readQ[request[t].events[i].on][k] = Item(t, i)

\* Between critical sections every thread is in exactly one place: on the processor
\* or in one ready queue, once; or blocked with a live item in the queue of every
\* cell of its choice; or waiting for its one helper that has the value.  The chain
\* of relays (relayMsg) resumes each reader once, also one with several items in one
\* queue.
NobodyIsLost ==
  sched.atomic = 0 =>
    \A t \in Threads :
      CASE pc[Main(t)] \in {"run", "sync"} -> Scheduled(Main(t)) = 1
        [] pc[Main(t)] = "read" -> Scheduled(Main(t)) = 0 /\ Pending(t)
        [] pc[Main(t)] = "helped" ->
             /\ Scheduled(Main(t)) = 0
             /\ \/ Pending(t) /\ \A i \in 1..Fan : Scheduled(<<t, i>>) = 0
                \/ /\ Tx0(t) \in cancelled
                   /\ \E i \in 1..Fan :
                        /\ pc[<<t, i>>] = "return" /\ Scheduled(<<t, i>>) = 1
                        /\ \A j \in (1..Fan) \ {i} : Scheduled(<<t, j>>) = 0

\* Between critical sections nobody alive waits for a cell that is full: whoever
\* fills a cell, put or swap, the chain of relays reaches every reader.
NoReaderAsleep ==
  sched.atomic = 0 =>
    \A c \in Cells : value[c] # Nil => \A k \in DOMAIN readQ[c] : ~Live(readQ[c][k])

\* What holds between critical sections of the scheduler and the queues.
SchedulingOk == TypeOK /\ NobodyIsLost /\ NoReaderAsleep

\* A value that was put or swapped into a cell is in one cell, or has been taken or
\* swapped out by one operation, never both, twice or neither: a step of the chain
\* of relays that takes (doSwap) is the only one that does.
ValuesConserved ==
  \A x \in installed :
    Cardinality({c \in Cells : value[c] = x})
      + Cardinality({r \in removed : r.val = x}) = 1
=============================================================================
