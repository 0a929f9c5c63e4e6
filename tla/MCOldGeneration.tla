-------------------------- MODULE MCOldGeneration ---------------------------
(* HeapResize and DfsMark for TLC: small memories for heaps of a few pages, and *)
(* what is called for the whole heap.                                           *)
EXTENDS HeapResize

CONSTANTS a, b, c, d, e, Objects, Null, Away, CounterLimit, TableMin  \* of DfsMark

\* The two parts share no variable, so that
\* nothing is lost if one of them rests in an initial state while the other moves: the
\* states are the sum of the two, not the product.
VARIABLES part, info, passes, perfectHash, field, marked, counter, weaks, pass, root, pc, cur,
          prev, index, size, total, sizes, table, cards, origin

markVars == <<info, passes, perfectHash, field, marked, counter, weaks, pass, root, pc, cur,
              prev, index, size, total, sizes, table, cards, origin>>

HeapRatios == [live |-> 300, grow |-> 300, copy |-> 200, markCompact |-> 125]

\* One machine with mremap and a limit on the heap, one that may page the heap, and one
\* whose limit is less than what is live at the start.
Machines ==
  {[ram |-> 80, fixedHeap |-> 0, maxHeap |-> 0, mayPageHeap |-> TRUE, remap |-> FALSE],
   [ram |-> 80, fixedHeap |-> 0, maxHeap |-> 64, mayPageHeap |-> FALSE, remap |-> TRUE],
   [ram |-> 80, fixedHeap |-> 0, maxHeap |-> 4, mayPageHeap |-> FALSE, remap |-> TRUE]}

\* The graphs and the calls of MCDfsMark, and DfsMark with them.
Heap == INSTANCE MCDfsMark WITH Calls <- {}
Mark == INSTANCE MCDfsMark WITH Calls <- Heap!AnyCall

ASSUME MarkConstants == Mark!ConstantsOk

NoGraph == CHOOSE h \in Heap!Acyclic : TRUE

MCInit ==
  /\ part \in {"calls", "sizes"}
  /\ Init /\ (part = "calls" => phase = "died")
  /\ Mark!Init
  /\ part = "sizes" => info = NoGraph.info /\ field = NoGraph.field /\ ~perfectHash

Call == part = "calls" /\ Mark!Next /\ UNCHANGED <<part, vars>>
Resize == part = "sizes" /\ Step /\ UNCHANGED <<part, markVars>>

MCNext == Call \/ (part = "sizes" /\ Next /\ UNCHANGED <<part, markVars>>)
MCSpec == /\ MCInit /\ [][MCNext]_<<part, vars, markVars>>
          /\ WF_<<part, vars, markVars>>(Call)
          /\ WF_<<part, vars, markVars>>(Resize)

\* DfsMark's CallCorrect: a pass over the heap puts the pointers back, marks exactly what
\* is reachable and counts it; SharingCorrect: hash-consing changes no value, is complete
\* and marks the cards of what it stores; the mark stack in the objects is that of a
\* depth-first traversal; the calls of dfsMark end.
CallCorrect == Mark!CallCorrect
SharingCorrect == Mark!SharingCorrect
ImplementsDepthFirst == Mark!ImplementsDepthFirst
MarkingEnds == part = "calls" => Mark!Terminates
=============================================================================
