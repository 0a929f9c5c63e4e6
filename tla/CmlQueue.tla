------------------------------ MODULE CmlQueue ------------------------------
(***************************************************************************)
(* The queues of Concurrent ML (ImpQueue, and FunQueue, which is the same  *)
(* without the assignments): two lists, the back one in reverse order, and *)
(* operations that drop dead items in passing.  Items die while they are   *)
(* queued, when the transaction they belong to commits elsewhere.          *)
(***************************************************************************)
EXTENDS SequencesExt, Subsequences

CONSTANTS Items, None,
          MaxLen   \* bound: items in a queue

VARIABLES
  front, back,   \* the two lists, each from its head
  dead,          \* the items whose transaction is in state CANCEL
  answer         \* history: the last operation and what it returned

vars == <<front, back, dead, answer>>

Init == front = <<>> /\ back = <<>> /\ dead = {} /\ answer = <<"new", None>>

cons(x, l) == <<x>> \o l

filter(l) == Among(l, Items \ dead)

filterPrefix(l) ==
  LET live == {i \in DOMAIN l : l[i] \notin dead}
  IN  IF live = {} THEN <<>>
      ELSE SubSeq(l, CHOOSE i \in live : \A j \in live : i <= j, Len(l))

WrongFilterRev(l) == filter(l)
filterRev(l)      == Reverse(filter(l))

Assign(op, f, b, a) ==
  front' = f /\ back' = b /\ answer' = <<op, a>> /\ UNCHANGED dead

HasRoom == Len(front) + Len(back) < MaxLen

enque(x) == HasRoom /\ Assign("enque", front, cons(x, back), None)

deque ==
  \/ front # <<>> /\ Assign("deque", Tail(front), back, Head(front))
  \/ /\ front = <<>> /\ back # <<>>
     /\ Assign("deque", Tail(Reverse(back)), <<>>, Head(Reverse(back)))
  \/ front = <<>> /\ back = <<>> /\ Assign("deque", <<>>, <<>>, None)

peek ==
  \/ front # <<>> /\ Assign("peek", front, back, Head(front))
  \/ /\ front = <<>> /\ back # <<>>
     /\ Assign("peek", Reverse(back), <<>>, Head(Reverse(back)))
  \/ front = <<>> /\ back = <<>> /\ Assign("peek", <<>>, <<>>, None)

cleanPrefix ==
  LET f == filterPrefix(front) IN
  \/ f = <<>> /\ Assign("cleanPrefix", filterPrefix(Reverse(back)), <<>>, None)
  \/ f # <<>> /\ Assign("cleanPrefix", f, back, None)

\* clean, when the back list is b.
Cleaned(op, b) ==
  LET f == filter(front) IN
  \/ f = <<>> /\ Assign(op, filterRev(b), <<>>, None)
  \/ f # <<>> /\ Assign(op, f, filter(b), None)

clean == Cleaned("clean", back)

enqueAndClean(x) == HasRoom /\ Cleaned("enqueAndClean", cons(x, back))

cleanAndDeque ==
  LET f == filter(front)
      r == filterRev(back) IN
  \/ f = <<>> /\ r = <<>> /\ Assign("cleanAndDeque", <<>>, <<>>, None)
  \/ f = <<>> /\ r # <<>> /\ Assign("cleanAndDeque", Tail(r), <<>>, Head(r))
  \/ Len(f) = 1 /\ Assign("cleanAndDeque", r, <<>>, Head(f))
  \/ Len(f) > 1 /\ Assign("cleanAndDeque", Tail(f), filter(back), Head(f))

reset == Assign("reset", <<>>, <<>>, None)

\* TransID.force of the transaction of x, by whoever commits it.
Cancel(x) == dead' = dead \cup {x} /\ UNCHANGED <<front, back, answer>>

Next ==
  \/ \E x \in Items : enque(x) \/ enqueAndClean(x) \/ Cancel(x)
  \/ deque \/ peek \/ cleanPrefix \/ clean \/ cleanAndDeque \/ reset

Spec == Init /\ [][Next]_vars

(***************************************************************************)
(* Properties                                                              *)
(***************************************************************************)
\* The two lists implement one sequence: every operation answers, and leaves, what
\* it would with the front list followed by the reverse of the back list, however
\* the earlier operations have divided the items between the lists.
Queue == INSTANCE CmlSequence WITH content <- front \o Reverse(back)

ImplementsSequence == Queue!AbstractSpec
=============================================================================
