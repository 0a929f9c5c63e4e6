----------------------------- MODULE MCDfsMark ------------------------------
(* Instances of DfsMark for TLC: the heaps and the calls. *)
EXTENDS DfsMark, TLC

CONSTANTS a, b, c, d, e

object(tag, identity, data, bytes, old) ==
  [tag |-> tag, identity |-> identity, data |-> data, size |-> bytes, old |-> old]

pass_(mode, share, link, roots) ==
  [mode |-> mode, share |-> share, link |-> link, roots |-> roots]

\* GC_sizeAll, with the links of the mark phase in the first pass.
MarkUnmark == <<pass_("MARK", FALSE, TRUE, <<a, Away, b>>),
                pass_("UNMARK", FALSE, FALSE, <<a, Away, b>>)>>

\* GC_share of a.
ShareA == <<pass_("MARK", FALSE, FALSE, <<a>>), pass_("UNMARK", TRUE, FALSE, <<a>>)>>

Unused == d :> object("normal", TRUE, "D", 8, FALSE) @@ e :> object("normal", TRUE, "E", 8, FALSE)

\* Every graph of an object and a sequence of two pointers and one of one pointer.
AnyGraph ==
  {[info |-> (a :> object(s, TRUE, "A", 1, FALSE) @@ b :> object("sequence", TRUE, "B", 2, FALSE)
              @@ c :> object(w, FALSE, "C", 4, FALSE) @@ Unused),
    field |-> (a :> f @@ b :> g @@ c :> h @@ d :> <<Away>> @@ e :> <<Away>>)] :
   s \in {"normal", "stack"}, w \in {"normal", "weak"},
   f \in [1 .. 2 -> {a, b, c, Away}], g \in [1 .. 2 -> {a, b, c, Away}],
   h \in [1 .. 1 -> {a, b, Away}]}

\* Graphs without cycles: each object points to later ones only.
Acyclic ==
  {[info |-> (a :> object("normal", FALSE, "A", 1, oldA)
              @@ b :> object(tag, FALSE, "B", 1, FALSE)
              @@ c :> object(tag, idc, "B", 1, oldC)
              @@ d :> object("normal", FALSE, "D", 1, FALSE)
              @@ e :> object("normal", FALSE, "D", 1, TRUE)),
    field |-> (a :> f @@ b :> g @@ c :> h @@ d :> <<Away>> @@ e :> <<Away>>)] :
   oldA \in BOOLEAN, oldC \in BOOLEAN, idc \in BOOLEAN, tag \in {"normal", "sequence"},
   f \in [1 .. 2 -> {b, c}], g \in [1 .. 2 -> {c, d, e}], h \in [1 .. 2 -> {d, e}]}

\* A vector without identity that reaches itself through an array.
Cyclic ==
  {[info |-> (a :> object("sequence", TRUE, "array", 1, FALSE) @@
              b :> object("normal", FALSE, "T", 1, FALSE) @@
              c :> object("sequence", TRUE, "array", 1, FALSE) @@
              d :> object("normal", FALSE, "T", 1, FALSE) @@
              e :> object("normal", TRUE, "E", 8, FALSE)),
    field |-> (a :> <<b>> @@ b :> <<c>> @@ c :> <<p, q>> @@ d :> <<r>> @@ e :> <<Away>>)] :
   p \in {b, d}, q \in {b, d}, r \in {a, c}}

Asked(heap, calls, perfect) ==
  [info |-> heap.info, field |-> heap.field, passes |-> calls, perfectHash |-> perfect]

\* Marking and unmarking of any graph; sharing of those without cycles, with a hash that
\* tells all contents apart and one that tells none.
AnyCall ==
  {Asked(h, MarkUnmark, TRUE) : h \in AnyGraph}
  \cup {Asked(h, ShareA, perfect) : h \in Acyclic, perfect \in BOOLEAN}

ShareCycles == {Asked(h, ShareA, TRUE) : h \in Cyclic}
=============================================================================
