----------------------------- MODULE DepthFirst -----------------------------
(***************************************************************************)
(* What dfsMark promises: a traversal of the object graph that keeps its   *)
(* path on a stack, leaves an object only when everything the object       *)
(* points to has been seen, and never changes the graph.                   *)
(***************************************************************************)
EXTENDS Naturals, Sequences

CONSTANT Objects     \* the objects of the heap

VARIABLES graph,     \* what each object points to, a sequence for each
          seen,      \* the objects the traversal has met
          path       \* the objects it is inside of, innermost last

vars == <<graph, seen, path>>

Children(o) == {graph[o][i] : i \in DOMAIN graph[o]} \cap Objects

\* A traversal starts with the objects unseen and nowhere.
Init == seen = {} /\ path = <<>>

\* A new object is met: a root, or a child of the object the path ends in.
Visit(o) ==
  /\ o \notin seen
  /\ path # <<>> => o \in Children(path[Len(path)])
  /\ seen' = seen \cup {o}
  /\ \/ path' = Append(path, o)
     \/ path' = path /\ Children(o) = {}
  /\ UNCHANGED graph

\* The object the path ends in is left, all it points to seen.
Leave ==
  /\ path # <<>>
  /\ Children(path[Len(path)]) \subseteq seen
  /\ path' = SubSeq(path, 1, Len(path) - 1)
  /\ UNCHANGED <<graph, seen>>

\* Between two passes everything is unseen again.
Reset == path = <<>> /\ seen' = {} /\ UNCHANGED <<graph, path>>

Next == Leave \/ Reset \/ \E o \in Objects : Visit(o)

Spec == Init /\ [][Next]_vars
=============================================================================
