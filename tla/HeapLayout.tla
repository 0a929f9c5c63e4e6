----------------------------- MODULE HeapLayout -----------------------------
(***************************************************************************)
(* A heap word by word, as the collectors see it: an object is metadata    *)
(* (a header; a counter, a length and a header for a sequence) and a body, *)
(* and an object pointer is the address of the first word of a body.       *)
(* A header names the tag, the raw words and the pointers of the object    *)
(* (per element for a sequence), and carries the mark. (runtime/gc/object.h,*)
(* sequence.h, stack.h, weak.h; object.c, object-size.c, foreach.c.)       *)
(***************************************************************************)
EXTENDS Integers, Sequences, FiniteSets

\* The words. A counter word is Raw(0), which is how a sequence is told from the rest.
Raw(v) == [w |-> "raw", v |-> v]
Ptr(a) == [w |-> "ptr", to |-> a]
Header(tag, raw, ptrs) ==
  [w |-> "header", tag |-> tag, raw |-> raw, ptrs |-> ptrs, mark |-> FALSE]

NormalMeta == 1
SequenceMeta == 3    \* counter, length, header
StackStruct == 2     \* reserved, used; the frames follow

WeakHeader == Header("weak", 1, 1)            \* link, objptr
WeakGoneHeader == Header("weak", 2, 0)        \* GC_WEAK_GONE_HEADER
Word8VectorHeader == Header("sequence", 1, 0) \* GC_WORD8_VECTOR_HEADER
Bogus == [w |-> "bogus"]                      \* BOGUS_OBJPTR

IsHeader(word) == word.w = "header"

\* advanceToObjectData: the object whose metadata begins at front.
AdvanceToObjectData(m, front) ==
  IF m[front] = Raw(0) THEN front + SequenceMeta ELSE front + NormalMeta

MetaOf(h) == IF h.tag = "sequence" THEN SequenceMeta ELSE NormalMeta

\* sizeofObject less the metadata, of the object at p with header h.
BodySize(m, p, h) ==
  CASE h.tag = "sequence" -> m[p - 2].v * (h.raw + h.ptrs)
    [] h.tag = "stack" -> StackStruct + m[p].v
    [] OTHER -> h.raw + h.ptrs

\* foreachObjptrInObject: where the object keeps its pointers. A stack keeps them in
\* the part of its frames that is used.
Objptrs(m, p, h, skipWeaks) ==
  CASE h.tag = "sequence" ->
         {p + e * (h.raw + h.ptrs) + i :
            e \in 0 .. m[p - 2].v - 1, i \in h.raw .. h.raw + h.ptrs - 1}
    [] h.tag = "stack" -> p + StackStruct .. p + StackStruct + m[p + 1].v - 1
    [] h.tag = "weak" /\ skipWeaks -> {}
    [] OTHER -> p + h.raw .. p + h.raw + h.ptrs - 1

\* The objects laid out in first .. last, by the addresses of their bodies.
ObjectsIn(m, first, last) ==
  LET From[f \in Int] ==
        IF f > last THEN {}
        ELSE LET p == AdvanceToObjectData(m, f)
             IN {p} \cup From[p + BodySize(m, p, m[p - 1])]
  IN From[first]

Targets(m, cells) == {m[c].to : c \in {d \in cells : m[d].w = "ptr"}}

\* What the cells reach among the objects, weak pointers not followed.
Reachable(m, cells, objects) ==
  LET Reach[n \in Nat] ==
        LET S == IF n = 0 THEN {} ELSE Reach[n - 1]
        IN IF n = 0 THEN Targets(m, cells) \cap objects
           ELSE S \cup UNION {Targets(m, Objptrs(m, p, m[p - 1], TRUE)) \cap objects : p \in S}
  IN Reach[Cardinality(objects)]
=============================================================================
