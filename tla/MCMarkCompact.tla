--------------------------- MODULE MCMarkCompact ----------------------------
(* Instances of MarkCompact for TLC: small heaps laid out word by word.       *)
EXTENDS MarkCompact

\* An object to lay out: its pointers name objects by their position, 0 is no pointer.
normal(ptrs) == [tag |-> "normal", ptrs |-> ptrs, spare |-> 0]
sequence(ptrs) == [tag |-> "sequence", ptrs |-> ptrs, spare |-> 0]
weak(ptr) == [tag |-> "weak", ptrs |-> <<ptr>>, spare |-> 0]
stack(ptrs, spare) == [tag |-> "stack", ptrs |-> ptrs, spare |-> spare]

Meta(o) ==
  CASE o.tag = "normal" -> <<Header("normal", 0, Len(o.ptrs))>>
    [] o.tag = "sequence" -> <<Raw(0), Raw(Len(o.ptrs)), Header("sequence", 0, 1)>>
    [] o.tag = "weak" -> <<WeakHeader>>
    [] o.tag = "stack" -> <<Header("stack", 0, 0)>>

Struct(o) ==
  CASE o.tag = "weak" -> <<Raw(7)>>
    [] o.tag = "stack" -> <<Raw(Len(o.ptrs) + o.spare), Raw(Len(o.ptrs))>>
    [] OTHER -> <<>>

TotalSize(o) == Len(Meta(o)) + Len(Struct(o)) + Len(o.ptrs) + o.spare

Address(objs, i) == FoldLeft(LAMBDA sum, o : sum + TotalSize(o), 1, SubSeq(objs, 1, i - 1))
                    + Len(Meta(objs[i]))

Word(objs, i) == IF i = 0 THEN Raw(5) ELSE Ptr(Address(objs, i))

Words(objs) ==
  FoldLeft(LAMBDA words, o :
             words \o Meta(o) \o Struct(o) \o [i \in DOMAIN o.ptrs |-> Word(objs, o.ptrs[i])]
             \o [i \in 1 .. o.spare |-> Raw(9)],
           <<>>, objs)

\* The heap of these objects, with the globals pointing to those named.
Heap(objs, globals, current) ==
  LET words == Words(objs)
  IN [mem |-> [a \in 1 .. Len(words) \cup Globals |->
                 IF a \in Globals THEN Word(objs, globals[-a]) ELSE words[a]],
      end |-> Len(words), currentStack |-> IF current = 0 THEN 0 ELSE Address(objs, current)]

TwoGlobals == {-1, -2}

\* A stack that is not the current one gives back half of what it does not use.
Shrink(used, reserved, current) == IF current THEN reserved ELSE used + (reserved - used) \div 2

EmptyHeap == Heap(<<>>, <<0, 0>>, 0)

\* The empty heap; a sequence, a small object, a weak one and a stack, in two orders.
Heaps ==
  LET N == 0 .. 4
  IN {EmptyHeap} \cup
     {Heap(<<sequence(<<i, j>>), normal(<<k>>), weak(l), stack(<<m>>, 2)>>, <<g, h>>, c) :
        i \in N, j \in {0, 2}, k \in N, l \in {1, 2}, m \in {0, 2, 3}, g \in {1, 3, 4},
        h \in {0, 2}, c \in {0, 4}}
     \cup
     {Heap(<<stack(<<i>>, 3), weak(j), normal(<<k>>), sequence(<<l, m>>)>>, <<g, h>>, 0) :
        i \in N, j \in {3, 4}, k \in {1, 2, 4}, l \in {1, 3}, m \in N, g \in {1, 4}, h \in {2, 4}}
=============================================================================
