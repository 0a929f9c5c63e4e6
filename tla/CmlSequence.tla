----------------------------- MODULE CmlSequence -----------------------------
(***************************************************************************)
(* What the queues of Concurrent ML promise: a sequence of items, some of  *)
(* which are dead, and the last operation with its answer.  This is how    *)
(* the other modules see ready queues, channels, cells and mailboxes.      *)
(***************************************************************************)
EXTENDS Subsequences

CONSTANTS Items, None
VARIABLES content, dead, answer

abstractVars == <<content, dead, answer>>

Alive(q) == Among(q, Items \ dead)

\* q without its dead prefix
Trimmed(q) ==
  CHOOSE r \in {SubSeq(q, k, Len(q)) : k \in 1..(Len(q) + 1)} :
    /\ r = <<>> \/ Head(r) \notin dead
    /\ \A i \in 1..(Len(q) - Len(r)) : q[i] \in dead

First(q) == IF q = <<>> THEN None ELSE Head(q)
Rest(q)  == IF q = <<>> THEN <<>> ELSE Tail(q)

AbstractInit == content = <<>> /\ dead = {} /\ answer = <<"new", None>>

Becomes(op, q, a) == content' = q /\ answer' = <<op, a>>

Operation ==
  \/ \E x \in Items : \/ Becomes("enque", Append(content, x), None)
                      \/ Becomes("enqueAndClean", Alive(Append(content, x)), None)
  \/ Becomes("deque", Rest(content), First(content))
  \/ Becomes("cleanAndDeque", Rest(Alive(content)), First(Alive(content)))
  \/ Becomes("peek", content, First(content))
  \/ Becomes("clean", Alive(content), None)
  \/ Becomes("cleanPrefix", Trimmed(content), None)
  \/ Becomes("reset", <<>>, None)

AbstractNext ==
  \/ Operation /\ UNCHANGED dead
  \/ UNCHANGED <<content, answer>> /\ dead \subseteq dead'

AbstractSpec == AbstractInit /\ [][AbstractNext]_abstractVars
=============================================================================
