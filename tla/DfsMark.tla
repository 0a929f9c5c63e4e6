------------------------------ MODULE DfsMark -------------------------------
(***************************************************************************)
(* The depth-first marking of the runtime (runtime/gc/dfs-mark.c) and the  *)
(* hash-consing done on the way (hash-cons.c), as MLton.size, MLton.share  *)
(* and the mark phase of the mark-compact collector use them (size.c,      *)
(* mark-compact.c).                                                        *)
(*                                                                         *)
(* The mark stack is kept inside the objects: while a child is marked, the *)
(* pointer to it holds the parent's parent, and its position is saved in   *)
(* the parent (header counter, sequence counter or markTop/markIndex).     *)
(* An object's pointers are a sequence; a sequence object has one pointer  *)
(* in each element, and a stack's frames are laid end to end.              *)
(***************************************************************************)
EXTENDS Integers, Sequences, FiniteSets

CONSTANTS Objects,       \* the objects in the heap
          Null, Away,    \* NULL, and a word that is no pointer into the heap
          Calls,         \* records [info, field, passes, perfectHash]: a heap, and what
                         \* is asked of it
          CounterLimit,  \* 2^COUNTER_BITS: what fits the counter of a header
          TableMin       \* size of a new hash table

ConstantsOk ==
  /\ Null # Away /\ {Null, Away} \cap Objects = {}
  /\ TableMin \in Nat \ {0} /\ CounterLimit \in Nat \ {0}

VARIABLES info,      \* tag, identity, data (header and bytes), size, generation
          passes,    \* the calls of dfsMark, pass by pass
          perfectHash,         \* whether different contents hash differently
          field,     \* the pointers of each object
          marked,    \* the objects whose mark bit is set
          counter,   \* the position saved in each object
          weaks,     \* s->weaks, the linked weak objects, last linked first
          pass, root,          \* the call under way
          pc, cur, prev, index,
          size, total,         \* bytes under this root, and in this pass
          sizes,     \* what each finished pass has counted
          table,     \* s->objectHashTable: [elements, max, mayInsert]
          cards,     \* the old objects a marked card covers
          origin     \* history: the pointers when the first pass began

heapVars  == <<field, marked, counter, weaks, cards>>
callVars  == <<pass, root, total, sizes>>
localVars == <<pc, cur, prev, index, size>>
asked == <<info, passes, perfectHash, origin>>
vars == <<asked, heapVars, callVars, localVars, table>>

Mode  == passes[pass].mode
Share == passes[pass].share
Link  == passes[pass].link
Roots == passes[pass].roots

\* isPointerMarkedByMode, over the objects of the heap.
IsMarkedByMode(o) == (o \in marked) = (Mode = "MARK")

NewTable == [elements |-> {}, max |-> TableMin, mayInsert |-> TRUE]

Init ==
  /\ \E call \in Calls :
       /\ info = call.info /\ field = call.field /\ origin = call.field
       /\ passes = call.passes /\ perfectHash = call.perfectHash
  /\ marked = {}
  /\ counter = [o \in Objects |-> 0]
  /\ weaks = <<>> /\ cards = {}
  /\ pass = 1 /\ root = 1 /\ total = 0 /\ sizes = <<>>
  /\ pc = "call" /\ cur = Null /\ prev = Null /\ index = 1 /\ size = 0
  /\ table = NewTable

(***************************************************************************)
(* Hash-consing.                                                           *)
(***************************************************************************)

\* What hashConsPointer hashes and insertHashTableElem compares: the header, with
\* the position saved in it, and the words of the object as they are now.
Image(o) == <<info[o].data, IF info[o].tag = "normal" THEN counter[o] ELSE 0, field[o]>>

Hash(image) == IF perfectHash THEN image ELSE <<>>

Matches(o) ==
  {e \in table.elements : /\ e.hash = Hash(Image(o))
                          /\ e.object = o \/ Image(e.object) = Image(o)}

\* growHashTableMaybe: above half full it doubles, or finds no memory and stops.
Grown(t) ==
  IF ~t.mayInsert \/ Cardinality(t.elements) * 2 <= t.max
  THEN {t}
  ELSE {[t EXCEPT !.max = 2 * @], [t EXCEPT !.mayInsert = FALSE]}

Inserted(o) ==
  IF table.mayInsert
  THEN [table EXCEPT !.elements = @ \cup {[hash |-> Hash(Image(o)), object |-> o]}]
  ELSE table

\* A faulty variant of HashConsPointer: identity is not looked at.
WrongHashConsPointer(o, r) ==
  \/ /\ r \in {e.object : e \in Matches(o)}
     /\ table' \in Grown(table)
  \/ /\ Matches(o) = {} /\ r = o
     /\ table' \in Grown(Inserted(o))

\* hashConsPointer(o) returns r.
HashConsPointer(o, r) ==
  IF info[o].identity
  THEN r = o /\ UNCHANGED table
  ELSE \/ /\ r \in {e.object : e \in Matches(o)}
          /\ table' \in Grown(table)
       \/ /\ Matches(o) = {} /\ r = o
          /\ table' \in Grown(Inserted(o))

\* markIntergenerationalObjptr: a pointer to p has been stored in o.
CardsAfter(o, p) ==
  IF info[o].old /\ p \in Objects /\ ~info[p].old THEN cards \cup {o} ELSE cards

\* shareObjptr, of the pointer at hand.
ShareObjptr ==
  \E r \in Objects :
    /\ HashConsPointer(field[cur][index], r)
    /\ field' = [field EXCEPT ![cur][index] = r]
    /\ cards' = CardsAfter(cur, r)

(***************************************************************************)
(* Calls.                                                                  *)
(***************************************************************************)

\* dfsMark returns at once: not in the heap, or marked already.
SkipRoot ==
  /\ pc = "call" /\ pass <= Len(passes) /\ root <= Len(Roots)
  /\ Roots[root] \notin Objects \/ IsMarkedByMode(Roots[root])
  /\ root' = root + 1
  /\ UNCHANGED <<asked, heapVars, localVars, table, pass, total, sizes>>

EnterRoot ==
  /\ pc = "call" /\ pass <= Len(passes) /\ root <= Len(Roots)
  /\ Roots[root] \in Objects /\ ~IsMarkedByMode(Roots[root])
  /\ cur' = Roots[root] /\ prev' = Null /\ size' = 0 /\ pc' = "mark"
  /\ UNCHANGED <<asked, heapVars, callVars, index, table>>

\* All roots of the pass are done: GC_size, GC_share, GC_sizeAll go on to the next.
EndPass ==
  /\ pc = "call" /\ pass <= Len(passes) /\ root > Len(Roots)
  /\ pass' = pass + 1 /\ root' = 1
  /\ sizes' = Append(sizes, total) /\ total' = 0
  /\ table' = NewTable
  /\ UNCHANGED <<asked, heapVars, localVars>>

(***************************************************************************)
(* The loop of dfsMark.                                                    *)
(***************************************************************************)

\* mark: the mark is stored before the object's pointers are looked at.
Toggled == IF cur \in marked THEN marked \ {cur} ELSE marked \cup {cur}

Mark ==
  /\ pc = "mark" /\ info[cur].tag # "weak"
  /\ marked' = Toggled
  /\ size' = size + info[cur].size
  /\ index' = 1 /\ pc' = "scan"
  /\ UNCHANGED <<asked, callVars, field, counter, weaks, cards, cur, prev, table>>

\* A faulty variant of MarkWeak: a weak object is linked whatever it points to.
WrongMarkWeak ==
  /\ pc = "mark" /\ info[cur].tag = "weak"
  /\ marked' = Toggled
  /\ weaks' = IF Link THEN <<cur>> \o weaks ELSE weaks
  /\ pc' = "ret"
  /\ UNCHANGED <<asked, callVars, field, counter, cards, cur, prev, index, size, table>>

\* A weak object is linked when it still points into the heap; its pointer is not
\* followed, its bytes are not counted.
MarkWeak ==
  /\ pc = "mark" /\ info[cur].tag = "weak"
  /\ marked' = Toggled
  /\ weaks' = IF Link /\ field[cur][1] \in Objects THEN <<cur>> \o weaks ELSE weaks
  /\ pc' = "ret"
  /\ UNCHANGED <<asked, callVars, field, counter, cards, cur, prev, index, size, table>>

Scanning == pc = "scan" /\ index <= Len(field[cur])

\* A word that is no pointer into the heap is passed over.
Skip ==
  /\ Scanning /\ field[cur][index] \notin Objects
  /\ index' = index + 1
  /\ UNCHANGED <<asked, heapVars, callVars, pc, cur, prev, size, table>>

\* The object pointed to is marked already: it may still be on the mark stack.
Seen ==
  /\ Scanning /\ field[cur][index] \in Objects /\ IsMarkedByMode(field[cur][index])
  /\ index' = index + 1
  /\ IF Share
     THEN ShareObjptr
     ELSE UNCHANGED <<field, cards, table>>
  /\ UNCHANGED <<asked, callVars, marked, counter, weaks, pc, cur, prev, size>>

\* objptrIndex << COUNTER_SHIFT, or-ed into the header of a normal object: what does
\* not fit the counter is lost, but for the bit above it, which is the mark.
Saved(o) == IF info[o].tag = "normal" THEN (index - 1) % CounterLimit ELSE index - 1

SpillsIntoMark(o) == info[o].tag = "normal" /\ ((index - 1) \div CounterLimit) % 2 = 1

\* markNext: the position is saved, the pointer reversed.
Descend ==
  /\ Scanning /\ field[cur][index] \in Objects /\ ~IsMarkedByMode(field[cur][index])
  /\ counter' = [counter EXCEPT ![cur] = Saved(cur)]
  /\ marked' = IF SpillsIntoMark(cur) THEN marked \cup {cur} ELSE marked
  /\ field' = [field EXCEPT ![cur][index] = prev]
  /\ prev' = cur /\ cur' = field[cur][index]
  /\ pc' = "mark"
  /\ UNCHANGED <<asked, callVars, weaks, cards, index, size, table>>

\* markInNormal, markInSequence, markInFrame: the pointers of cur in their order.
Scan == Skip \/ Seen \/ Descend

\* The last pointer is done, or the bottom of a stack reached, whose position stays.
Done ==
  /\ pc = "scan" /\ index > Len(field[cur])
  /\ pc' = IF Share /\ info[cur].tag # "stack" THEN "cons" ELSE "ret"
  /\ counter' = IF info[cur].tag = "stack" THEN counter ELSE [counter EXCEPT ![cur] = 0]
  /\ UNCHANGED <<asked, callVars, field, marked, weaks, cards, cur, prev, index,
                 size, table>>

\* normalDone, sequenceDone: the parent is given the object the table holds instead.
Cons ==
  /\ pc = "cons"
  /\ \E r \in Objects : HashConsPointer(cur, r) /\ cur' = r
  /\ pc' = "ret"
  /\ UNCHANGED <<asked, callVars, heapVars, prev, index, size>>

\* A faulty variant of Return: the pointer is overwritten before prev is read from it.
WrongReturn ==
  /\ pc = "ret" /\ prev # Null
  /\ LET i == counter[prev] + 1
     IN /\ field' = [field EXCEPT ![prev][i] = cur]
        /\ prev' = field'[prev][i]
        /\ index' = i + 1
  /\ cards' = IF Share THEN CardsAfter(prev, cur) ELSE cards
  /\ cur' = prev
  /\ pc' = "scan"
  /\ UNCHANGED <<asked, callVars, marked, counter, weaks, size, table>>

\* ret: the pointer in the parent is put right and the parent goes on.
Return ==
  /\ pc = "ret" /\ prev # Null
  /\ LET i == counter[prev] + 1
     IN /\ field' = [field EXCEPT ![prev][i] = cur]
        /\ prev' = field[prev][i]
        /\ index' = i + 1
  /\ cards' = IF Share THEN CardsAfter(prev, cur) ELSE cards
  /\ cur' = prev
  /\ pc' = "scan"
  /\ UNCHANGED <<asked, callVars, marked, counter, weaks, size, table>>

\* ret with an empty mark stack: dfsMark returns.
ReturnRoot ==
  /\ pc = "ret" /\ prev = Null
  /\ total' = total + size
  /\ root' = root + 1
  /\ pc' = "call" /\ cur' = Null
  /\ UNCHANGED <<asked, heapVars, pass, sizes, prev, index, size, table>>

Next == \/ SkipRoot \/ EnterRoot \/ EndPass
        \/ Mark \/ MarkWeak \/ Scan \/ Done \/ Cons \/ Return \/ ReturnRoot

\* Sequential code: it runs to its end.
Spec == Init /\ [][Next]_vars /\ WF_vars(Next)
-----------------------------------------------------------------------------
(***************************************************************************)
(* Properties.                                                             *)
(***************************************************************************)

\* "prev is the mark stack" (dfs-mark.c:109): an object being marked, or none.
PrevIsMarkStack == prev \in Objects \cup {Null}

\* Every variable has its type: the position saved in an object is one of its own,
\* prev heads the mark stack, cur is the object at hand.
TypeOK ==
  /\ DOMAIN field = Objects
  /\ \A o \in Objects : \A i \in DOMAIN field[o] : field[o][i] \in Objects \cup {Null, Away}
  /\ marked \subseteq Objects /\ cards \subseteq Objects
  /\ \A o \in Objects : counter[o] \in 0 .. Len(field[o])
  /\ pc \in {"call", "mark", "scan", "cons", "ret"}
  /\ cur \in Objects \cup {Null} /\ PrevIsMarkStack
  /\ pc # "call" => cur \in Objects
  /\ pass \in 1 .. Len(passes) + 1 /\ table.max \in Nat

Followed == {o \in Objects : info[o].tag # "weak"}

\* The objects reachable from the set S along the pointers f, weak objects included
\* and what only they point to left out.
ReachableFrom(S, f) ==
  LET Further(R) == R \cup (UNION {{f[o][i] : i \in DOMAIN f[o]} : o \in R \cap Followed} \cap Objects)
      Reach[n \in Nat] == IF n = 0 THEN S ELSE UNION {Further(R) : R \in {Reach[n - 1]}}
  IN Reach[Cardinality(Objects)]

RootSet(roots) == {roots[i] : i \in DOMAIN roots} \cap Objects

PassDone == pc = "call" /\ pass <= Len(passes) /\ root > Len(Roots)

Sharing == \E i \in DOMAIN passes : passes[i].share

\* When no pass has hash-consed, every pointer is back in its place and no saved
\* position is left in a header or a sequence counter between two calls of dfsMark.
HeapRestored ==
  pc = "call" /\ ~Sharing =>
    /\ field = origin
    /\ \A o \in Objects : info[o].tag # "stack" => counter[o] = 0

\* A pass that marks marks exactly what the roots reach, one that unmarks leaves no
\* mark behind; s->weaks holds each linkable weak object reached, once.
MarksExact ==
  PassDone =>
    LET reached == ReachableFrom(RootSet(Roots), origin)
        linked == {weaks[i] : i \in DOMAIN weaks}
    IN /\ marked = IF Mode = "MARK" THEN reached ELSE {}
       /\ Mode = "MARK" /\ Link =>
            /\ linked = {o \in reached \ Followed : origin[o][1] \in Objects}
            /\ Cardinality(linked) = Len(weaks)

SizeOf(S) ==
  LET Sum[T \in SUBSET S] ==
        IF T = {} THEN 0
        ELSE LET o == CHOOSE o \in T : TRUE IN info[o].size + Sum[T \ {o}]
  IN Sum[S]

\* What a pass has counted is the size of the followed objects the roots reach.
SizeExact ==
  PassDone => total = SizeOf(ReachableFrom(RootSet(Roots), origin) \cap Followed)

\* A call leaves the heap as it found it, marks what it should, counts what it marks.
CallCorrect == TypeOK /\ HeapRestored /\ MarksExact /\ SizeExact

\* What o denoted before and what p denotes now are the same SML value: the same data
\* over the same values, and the very same object where an object has identity.
\* The greatest such relation, by steps from all pairs.
SameValue ==
  LET Pairs == Objects \X Objects
      Step(R) ==
        {q \in R :
           /\ info[q[1]].data = info[q[2]].data
           /\ info[q[1]].identity => q[1] = q[2]
           /\ Len(origin[q[1]]) = Len(field[q[2]])
           /\ \A i \in DOMAIN origin[q[1]] :
                LET x == origin[q[1]][i]
                    y == field[q[2]][i]
                IN IF x \in Objects /\ y \in Objects THEN <<x, y>> \in R ELSE x = y}
      Greatest[R \in SUBSET Pairs] ==
        LET next == Step(R) IN IF next = R THEN R ELSE Greatest[next]
  IN Greatest[Pairs]

\* Sharing never changes a value: after a pass every object denotes what it denoted.
ValuePreserved ==
  pc = "call" => LET same == SameValue IN \A o \in Objects : <<o, o>> \in same

\* "share x maximizes sharing in the heap for the object graph reachable from x"
\* (MLtonStructure.adoc:132): with memory for its table, a pass that shares leaves no
\* two equal objects without identity reachable. It holds of graphs without cycles.
MaximalSharing ==
  PassDone /\ Share /\ table.mayInsert =>
    LET reached == ReachableFrom(RootSet(Roots), field) \cap Followed
    IN \A o, p \in reached \ {r \in Objects : info[r].identity} :
         o # p => Image(o) # Image(p)

\* Sharing may make an old object point to a young one: its card is then marked, or
\* the next minor collection would miss the pointer.
NoCardMissing ==
  pc = "call" =>
    \A o \in Objects : \A i \in DOMAIN field[o] :
      /\ field[o][i] \in Objects
      /\ info[o].old /\ ~info[field[o][i]].old
      /\ field[o][i] # origin[o][i]
      => o \in cards

\* MLton.share shares all it can, changes no value, and leaves the card marks right.
SharingCorrect == ValuePreserved /\ MaximalSharing /\ NoCardMissing

\* dfsMark returns from every graph, cyclic ones too.
Terminates == <>(pass > Len(passes))

\* The mark stack threaded through the objects is the path of a depth-first traversal
\* of a graph that never changes.
Chain ==
  LET From[n \in Nat, o \in Objects \cup {Null}] ==
        IF n = 0 \/ o = Null THEN <<>>
        ELSE Append(From[n - 1, field[o][counter[o] + 1]], o)
  IN From[Cardinality(Objects), prev]

Path == IF pc \in {"scan", "cons"} THEN Append(Chain, cur) ELSE Chain

GraphBut(stack) ==
  [o \in Objects |->
     LET above == {i \in 1 .. Len(stack) - 1 : stack[i] = o}
     IN IF o \notin Followed THEN <<>>
        ELSE IF above = {} THEN field[o]
        ELSE [field[o] EXCEPT ![counter[o] + 1] = stack[(CHOOSE i \in above : TRUE) + 1]]]

Graph ==
  IF Sharing THEN [o \in Objects |-> <<>>]
  ELSE CHOOSE g \in {GraphBut(stack) : stack \in {IF pc = "call" THEN <<>> ELSE Append(Chain, cur)}} : TRUE

\* Unmarking meets the objects the pass before has marked.
SeenByMode ==
  IF pass > Len(passes) \/ Sharing THEN {}
  ELSE UNION {{o \in R : IsMarkedByMode(o)} : R \in {ReachableFrom(RootSet(Roots), origin)}}

Traversal == INSTANCE DepthFirst
  WITH graph <- Graph, seen <- SeenByMode, path <- IF Sharing THEN <<>> ELSE Path

\* dfsMark implements the traversal with an explicit stack, when it changes no pointer.
ImplementsDepthFirst == Traversal!Spec
=============================================================================
