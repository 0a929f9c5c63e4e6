------------------------------- MODULE CmlFifo -------------------------------
(***************************************************************************)
(* What mailboxes promise: each is a queue; a send appends one message and *)
(* never waits; a receive takes the oldest message of one of its           *)
(* mailboxes, or is given the message of a send that finds the mailbox     *)
(* empty; an operation has one outcome, for good.                          *)
(***************************************************************************)
EXTENDS Sequences

CONSTANTS Ops, Boxes, Nil
VARIABLES
  content,   \* the messages of a mailbox, each named after the send it came from
  outcome    \* Nil, or the mailbox and the message an operation completed with

fifoVars == <<content, outcome>>

FifoInit == content = [m \in Boxes |-> <<>>] /\ outcome = [x \in Ops |-> Nil]

Undecided(x)    == outcome[x] = Nil
Outcome(m, msg) == [box |-> m, val |-> msg]

Queue(x, m) ==
  /\ Undecided(x)
  /\ content' = [content EXCEPT ![m] = Append(@, x)]
  /\ outcome' = [outcome EXCEPT ![x] = Outcome(m, Nil)]

Pass(x, y, m) ==
  /\ Undecided(x) /\ Undecided(y) /\ x # y /\ content[m] = <<>>
  /\ outcome' = [outcome EXCEPT ![x] = Outcome(m, Nil), ![y] = Outcome(m, x)]
  /\ UNCHANGED content

Take(y, m) ==
  /\ Undecided(y) /\ content[m] # <<>>
  /\ content' = [content EXCEPT ![m] = Tail(@)]
  /\ outcome' = [outcome EXCEPT ![y] = Outcome(m, Head(content[m]))]

\* A polling receive finds nothing.
FindNothing(y, m) ==
  /\ Undecided(y) /\ content[m] = <<>>
  /\ outcome' = [outcome EXCEPT ![y] = Outcome(m, Nil)]
  /\ UNCHANGED content

\* Every step gives an operation its outcome.
Settles(x) == outcome[x] = Nil /\ outcome'[x] # Nil

FifoNext ==
  \E x \in Ops :
    /\ Settles(x)
    /\ \E m \in Boxes :
         \/ Queue(x, m) \/ Take(x, m) \/ FindNothing(x, m)
         \/ \E y \in Ops : Settles(y) /\ Pass(x, y, m)

FifoSpec == FifoInit /\ [][FifoNext]_fifoVars
=============================================================================
