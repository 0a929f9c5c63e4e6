---------------------------- MODULE CmlScheduler ----------------------------
(***************************************************************************)
(* The scheduler of Concurrent ML: two ready queues, the current thread,   *)
(* the mark ("done_comm") a thread gets when it switches away, and the     *)
(* depth of the critical section it runs in.  One record holds this state; *)
(* an operator maps the state before a call to the state after it, so that *)
(* an action of a module that uses the scheduler can make several calls.   *)
(*                                                                         *)
(* A switch at depth n resumes its target at depth n - 1: a thread that is *)
(* switched to from inside a nested critical section inherits the outer    *)
(* one, which is how a rendezvous is handed from party to party without a  *)
(* preemption in between.                                                  *)
(***************************************************************************)
EXTENDS Naturals, Sequences, FiniteSets

CONSTANT NoThread   \* nobody: the pause hook has the processor

SchedulerStates(T) ==
  [cur : T \cup {NoThread}, rdyQ1 : Seq(T), rdyQ2 : Seq(T),
   marked : SUBSET T, atomic : Nat]

\* RunCML.doit spawned the threads of q, and t runs outside critical sections.
Started(t, q) ==
  [cur |-> t, rdyQ1 |-> q, rdyQ2 |-> <<>>, marked |-> {}, atomic |-> 0]

atomicBegin(s) == [s EXCEPT !.atomic = @ + 1]
atomicEnd(s)   == [s EXCEPT !.atomic = @ - 1]

ready(s, t) == [s EXCEPT !.rdyQ1 = Append(@, t)]

promote(s) ==
  IF s.rdyQ2 = <<>> THEN s
  ELSE [s EXCEPT !.rdyQ1 = Append(@, Head(s.rdyQ2)), !.rdyQ2 = Tail(@)]

\* Scheduler.next: the thread it returns, and the queues it leaves.
next(s) ==
  IF s.rdyQ1 # <<>> THEN Head(s.rdyQ1)
  ELSE IF s.rdyQ2 # <<>> THEN Head(s.rdyQ2) ELSE NoThread

dequeued(s) ==
  IF s.rdyQ1 # <<>> THEN [s EXCEPT !.rdyQ1 = Tail(@)]
  ELSE IF s.rdyQ2 # <<>> THEN [s EXCEPT !.rdyQ2 = Tail(@)] ELSE s

atomicSwitch(s, t) ==
  [s EXCEPT !.marked = @ \cup {s.cur}, !.cur = t, !.atomic = @ - 1]

atomicSwitchToNext(s) == atomicSwitch(dequeued(s), next(s))

switch(s, t)      == atomicSwitch(atomicBegin(s), t)
switchToNext(s)   == atomicSwitchToNext(atomicBegin(s))

atomicReadyAndSwitch(s, t)      == atomicSwitch(ready(s, s.cur), t)
readyAndSwitch(s, t)            == atomicReadyAndSwitch(atomicBegin(s), t)

atomicReadyAndSwitchToNext(s) == atomicSwitchToNext(ready(s, s.cur))

WrongPreempt(s) == [s EXCEPT !.rdyQ1 = <<s.cur>> \o @]

\* What happens to the current thread at the end of its quantum: if it has
\* communicated since the last time, it keeps its rank and takes a thread of the
\* secondary queue along.
preempt(s) ==
  IF s.cur \in s.marked
  THEN ready(promote([s EXCEPT !.marked = @ \ {s.cur}]), s.cur)
  ELSE [s EXCEPT !.rdyQ2 = Append(@, s.cur)]

\* The handler of the timer signal; it runs at depth 1 and leaves at depth 0.
alrmHandler(s) == [dequeued(preempt(s)) EXCEPT !.cur = next(preempt(s))]

-----------------------------------------------------------------------------
\* For properties: the number of places a thread has, on the processor and in the
\* ready queues.
Times(t, q) == Cardinality({i \in DOMAIN q : q[i] = t})

Places(s, t) ==
  (IF s.cur = t THEN 1 ELSE 0) + Times(t, s.rdyQ1) + Times(t, s.rdyQ2)
=============================================================================
