---------------------------- MODULE CmlRendezvous ----------------------------
(***************************************************************************)
(* What synchronization in Concurrent ML promises, without queues, helpers *)
(* or transaction ids.  A thread offers a set of base events.  Two threads *)
(* whose offers match on a channel may meet: each offer meets at most one  *)
(* other.  An operation that has met returns, once, and a receiver with    *)
(* the message of the sender it met; one that has not met returns only if  *)
(* it polls or waits for a condition variable, and without a message.      *)
(***************************************************************************)
EXTENDS Naturals

CONSTANTS Threads, Channels, Tx, Nil

VARIABLES
  offer,    \* what each thread offers
  began,    \* how many operations it began
  matched,  \* the rendezvous so far: sender, receiver, channel
  answer    \* what each operation returned

vars == <<offer, began, matched, answer>>

Init ==
  /\ offer = [t \in Threads |-> {}] /\ began = [t \in Threads |-> 0]
  /\ matched = {} /\ answer = [x \in Tx |-> Nil]

Now(t)  == <<t, began[t]>>
Idle(t) == began[t] = 0 \/ answer[Now(t)] # Nil
Met(x)  == \E m \in matched : x \in {m[1], m[2]}

\* t has returned from its last operation and begins another.
Offer(t) ==
  /\ Idle(t)
  /\ began' = [began EXCEPT ![t] = @ + 1]
  /\ \A u \in Threads \ {t} : offer'[u] = offer[u]
  /\ UNCHANGED <<matched, answer>>

\* The value x may return with, given the rendezvous in ms.
MayAnswer(x, a, ms) ==
  \/ a.val = Nil /\ \A m \in ms : m[2] # x
  \/ \E m \in ms : m[2] = x /\ a.val = m[1]

\* The operations in xs return.
Answers(xs, ms) ==
  /\ \A x \in xs : answer[x] = Nil /\ answer'[x] # Nil /\ MayAnswer(x, answer'[x], ms)
  /\ answer' = [x \in Tx |-> IF x \in xs THEN answer'[x] ELSE answer[x]]

\* s and r meet on c; s may return at once.
Meet(s, r, c) ==
  /\ s # r /\ ~Idle(s) /\ ~Idle(r) /\ ~Met(Now(s)) /\ ~Met(Now(r))
  /\ [kind |-> "send", on |-> c] \in offer[s]
  /\ [kind |-> "recv", on |-> c] \in offer[r]
  /\ matched' = matched \cup {<<Now(s), Now(r), c>>}
  /\ \E xs \in SUBSET {Now(s)} : Answers(xs, matched')
  /\ UNCHANGED <<offer, began>>

\* One operation returns, or the two of a rendezvous.
Return ==
  /\ \E x, y \in {Now(t) : t \in {u \in Threads : ~Idle(u)}} :
       /\ x # y => \E m \in matched : m[1] = x /\ m[2] = y
       /\ Answers({x, y}, matched)
  /\ UNCHANGED <<offer, began, matched>>

Next ==
  \/ \E t \in Threads : Offer(t)
  \/ \E s, r \in Threads, c \in Channels : Meet(s, r, c)
  \/ Return

Spec == Init /\ [][Next]_vars
=============================================================================
