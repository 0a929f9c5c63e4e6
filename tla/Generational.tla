---------------------------- MODULE Generational ----------------------------
(***************************************************************************)
(* The copying collections of a heap of two generations: the minor one of  *)
(* the nursery into the old generation, driven by the globals and by the   *)
(* marked cards, and the major one of the whole heap into the secondary    *)
(* heap (cheney-copy.c, forward.c, generational.c), with the mutator that  *)
(* allocates and stores between them.                                      *)
(* Sizes are in words; a card is CardSize words. When to collect which     *)
(* generation, and whether the nursery is worth collecting by itself, is   *)
(* decided by ratios in the code and left open here. Heaps do not grow.    *)
(***************************************************************************)
EXTENDS HeapLayout, SequencesExt

CONSTANTS Starts,          \* the addresses of the heap and the secondary heap
          Size,            \* the words of each
          CardSize,
          Globals,         \* the addresses of the global pointers
          StackCell,       \* the one of the current stack
          Statics,         \* objects outside the heap, by address
          Programs,        \* records [shapes, reserved]: what the mutator allocates, as
                           \* records [header, length, cell], and the words reserved for
                           \* its stack, 0 for no stack
          LargeSequence,   \* oldGenSequenceSize: from here on allocated in the old generation
          Requests,        \* the words of nursery a collection may be asked for
          MaxOps,          \* bound on the steps of the mutator
          ShrinkReserved(_, _, _)

VARIABLES program,                 \* the mutator
          mem, start, oldGenSize, nursery, frontier, canMinor,
          cardMap,                 \* the marked cards
          crossMap, crossMapValidSize,
          phase, request,          \* where performGC stands, what it was asked for
          minor, back, scan, weaks,
          cardIndex, objectStart,
          origin, ops              \* history: the heap when the collection began; a bound

heapVars == <<start, oldGenSize, nursery, frontier, canMinor>>
mapVars == <<cardMap, crossMap, crossMapValidSize>>
copyVars == <<minor, back, scan, weaks>>
walkVars == <<cardIndex, objectStart>>
vars == <<program, mem, heapVars, mapVars, phase, request, copyVars, walkVars, origin, ops>>

Free == [w |-> "free"]
CrossMapEmpty == -1

oldGenEnd == start + oldGenSize
limitPlusSlop == start + Size
Secondary == CHOOSE s \in Starts : s # start
HeapAt(s) == s .. s + Size - 1
CardOf(a) == (a - start) \div CardSize
Cards == 0 .. (Size - 1) \div CardSize

NextObject(front) ==
  LET p == AdvanceToObjectData(mem, front)
  IN p + BodySize(mem, p, mem[p - 1])

Place(m, a, words) ==
  [x \in DOMAIN m |-> IF x - a + 1 \in DOMAIN words THEN words[x - a + 1] ELSE m[x]]

NoRequest == [old |-> 0, nursery |-> 0, force |-> FALSE, shape |-> "none"]

Shapes == program.shapes
StackWords == <<Header("stack", 0, 0), Raw(program.reserved), Raw(0)>>

\* What GC_init and initWorld leave: the globals, and the current stack in the nursery.
Init ==
  /\ program \in Programs
  /\ start \in Starts /\ start < Secondary
  /\ mem = LET bare == [x \in UNION {HeapAt(s) : s \in Starts} \cup Globals
                               \cup UNION {{p - 1, p} : p \in Statics} |->
                          IF x + 1 \in Statics THEN Header("normal", 1, 0)
                          ELSE IF x \in Statics \cup Globals THEN Raw(5) ELSE Free]
           IN IF program.reserved = 0 THEN bare
              ELSE [Place(bare, start, StackWords) EXCEPT ![StackCell] = Ptr(start + NormalMeta)]
  /\ oldGenSize = 0 /\ nursery = start /\ canMinor = FALSE
  /\ frontier = IF program.reserved = 0 THEN start
                ELSE start + NormalMeta + StackStruct + program.reserved
  /\ cardMap = {} /\ crossMap = [c \in Cards |-> CrossMapEmpty] /\ crossMapValidSize = 0
  /\ phase = "mutator" /\ request = NoRequest
  /\ minor = FALSE /\ back = 0 /\ scan = 0 /\ weaks = {}
  /\ cardIndex = 0 /\ objectStart = 0
  /\ origin = <<>> /\ ops = 0

-----------------------------------------------------------------------------
(***************************************************************************)
(* The mutator. Its registers are the globals.                             *)
(***************************************************************************)

HasHeapBytesFree(old, young) ==
  /\ oldGenSize + old + (IF canMinor THEN 2 ELSE 1) * (limitPlusSlop - nursery) <= Size
  /\ young <= limitPlusSlop - frontier

BodyWords(shape, value) ==
  CASE shape.header.tag = "sequence" -> [i \in 1 .. shape.length * shape.header.ptrs |-> Bogus]
    [] shape.header = WeakHeader -> <<Raw(0), value>>
    [] OTHER -> [i \in 1 .. shape.header.ptrs |-> value]

Words(shape, value) ==
  (IF shape.header.tag = "sequence" THEN <<Raw(0), Raw(shape.length)>> ELSE <<>>)
  \o <<shape.header>> \o BodyWords(shape, value)

SizeOf(shape) == Len(Words(shape, Bogus))
Large(shape) == shape.header.tag = "sequence" /\ SizeOf(shape) >= LargeSequence

\* An object is allocated at a and kept in a global; its fields take the value of one.
Allocated(a, shape, value) ==
  [Place(mem, a, Words(shape, value)) EXCEPT ![shape.cell] = Ptr(a + MetaOf(shape.header))]

\* newObject, GC_sequenceAllocate of a small sequence, and what compiled code does inline.
Allocate(shape, value) ==
  /\ ~Large(shape) /\ SizeOf(shape) <= limitPlusSlop - frontier
  /\ shape.header = WeakHeader => value.w = "ptr"
  /\ mem' = Allocated(frontier, shape, value)
  /\ frontier' = frontier + SizeOf(shape)
  /\ UNCHANGED <<start, oldGenSize, nursery, canMinor, phase, request>>

AllocateInOldGen(shape) ==
  /\ mem' = Allocated(oldGenEnd, shape, Bogus)
  /\ oldGenSize' = oldGenSize + SizeOf(shape)
  /\ phase' = "mutator" /\ request' = NoRequest
  /\ UNCHANGED <<start, nursery, frontier, canMinor>>

\* GC_sequenceAllocate of a large sequence, when there is room at once.
AllocateLarge(shape) ==
  /\ Large(shape) /\ HasHeapBytesFree(SizeOf(shape), 0)
  /\ AllocateInOldGen(shape)

\* A faulty variant of Store: no card is marked.
WrongStore(cell, i, value) ==
  /\ mem[cell].w = "ptr" /\ mem[cell].to \notin Statics
  /\ LET p == mem[cell].to
     IN /\ mem[p - 1].tag = "sequence"
        /\ i < mem[p - 2].v
        /\ mem' = [mem EXCEPT ![p + i] = value]
        /\ UNCHANGED cardMap
  /\ UNCHANGED <<heapVars, crossMap, crossMapValidSize, phase, request>>

\* A faulty variant of Store: the card of the field is marked.
WrongStoreField(cell, i, value) ==
  /\ mem[cell].w = "ptr" /\ mem[cell].to \notin Statics
  /\ LET p == mem[cell].to
     IN /\ mem[p - 1].tag = "sequence"
        /\ i < mem[p - 2].v
        /\ mem' = [mem EXCEPT ![p + i] = value]
        /\ cardMap' = cardMap \cup {CardOf(p + i)}
  /\ UNCHANGED <<heapVars, crossMap, crossMapValidSize, phase, request>>

\* An update: the card of the object's first word is marked, wherever the field is.
Store(cell, i, value) ==
  /\ mem[cell].w = "ptr" /\ mem[cell].to \notin Statics
  /\ LET p == mem[cell].to
     IN /\ mem[p - 1].tag = "sequence"
        /\ i < mem[p - 2].v
        /\ mem' = [mem EXCEPT ![p + i] = value]
        /\ cardMap' = cardMap \cup {CardOf(p)}
  /\ UNCHANGED <<heapVars, crossMap, crossMapValidSize, phase, request>>

\* The current frame keeps a value: stacks are written without marking cards.
Push(value) ==
  /\ mem[StackCell].w = "ptr"
  /\ LET p == mem[StackCell].to
         used == mem[p + 1].v
     IN /\ used < mem[p].v
        /\ mem' = [mem EXCEPT ![p + 1] = Raw(used + 1), ![p + StackStruct + used] = value]
  /\ UNCHANGED <<heapVars, mapVars, phase, request>>

Registers == Globals \ {StackCell}
Values == {mem[g] : g \in Registers} \cup {Ptr(p) : p \in Statics}

MutatorStep ==
  /\ phase = "mutator" /\ ops < MaxOps /\ ops' = ops + 1
  /\ \/ \E shape \in Shapes, value \in Values : Allocate(shape, value) /\ UNCHANGED mapVars
     \/ \E shape \in Shapes : AllocateLarge(shape) /\ UNCHANGED mapVars
     \/ \E cell \in Registers, i \in 0 .. 1, value \in Values : Store(cell, i, value)
     \/ \E value \in Values : Push(value)
  /\ UNCHANGED <<program, copyVars, walkVars, origin>>

-----------------------------------------------------------------------------
(***************************************************************************)
(* Forwarding (forward.c), on a record of the memory, the end of the       *)
(* objects copied and the weak objects linked.                             *)
(***************************************************************************)

InNursery(a) == nursery <= a /\ a <= frontier
InHeap(a) == start <= a /\ a <= frontier

\* The stack at p gives back what sizeofStackShrinkReserved says it does not need.
Shrunk(m, p) ==
  IF m[p - 1].tag = "stack"
  THEN [m EXCEPT ![p] = Raw(ShrinkReserved(m[p + 1].v, m[p].v, m[StackCell] = Ptr(p)))]
  ELSE m

\* forwardObjptr: unless it was copied already, the object is copied to the back of the
\* queue, of a stack only the part in use; a weak object whose pointer this collection
\* decides about is linked; the header's place takes the address of the copy.
ForwardObjptr(st, cell) ==
  LET p == st.mem[cell].to
      old == st.mem[p - 1]
      m == Shrunk(st.mem, p)
      meta == MetaOf(old)
      size == meta + BodySize(m, p, old)
      used == IF old.tag = "stack" THEN meta + StackStruct + m[p + 1].v ELSE size
      new == st.back + meta
      linked == /\ old = WeakHeader /\ m[p + 1].w = "ptr"
                /\ minor => InNursery(m[p + 1].to)
  IN IF ~IsHeader(old) THEN [st EXCEPT !.mem[cell] = old]
     ELSE [mem |-> [Place(m, st.back, [i \in 1 .. used |-> m[p - meta + i - 1]])
                      EXCEPT ![p - 1] = Ptr(new), ![cell] = Ptr(new)],
           back |-> st.back + size,
           weaks |-> IF linked THEN st.weaks \cup {new} ELSE st.weaks]

\* forwardObjptrIfInNursery, forwardObjptrIfInHeap
ForwardIfIn(before, cell) ==
  CHOOSE after \in {IF /\ st.mem[cell].w = "ptr"
                       /\ IF minor THEN InNursery(st.mem[cell].to) ELSE InHeap(st.mem[cell].to)
                    THEN ForwardObjptr(st, cell) ELSE st : st \in {before}} : TRUE

Forward(cells) ==
  \E st \in {FoldLeft(ForwardIfIn, [mem |-> mem, back |-> back, weaks |-> weaks],
                      SetToSortSeq(cells, <))} :
    mem' = st.mem /\ back' = st.back /\ weaks' = st.weaks

-----------------------------------------------------------------------------
(***************************************************************************)
(* performGC.                                                              *)
(***************************************************************************)

\* Without a nursery of its own, what was allocated becomes old as it is.
PerformGC(r) ==
  /\ request' = r
  /\ origin' = [mem |-> mem, start |-> start]
  /\ IF canMinor /\ frontier > nursery
     THEN /\ phase' = "globals" /\ minor' = TRUE /\ back' = oldGenEnd /\ scan' = oldGenEnd
          /\ UNCHANGED oldGenSize
     ELSE /\ phase' = "decide" /\ oldGenSize' = oldGenSize + (frontier - nursery)
          /\ UNCHANGED <<minor, back, scan>>
  /\ UNCHANGED <<mem, start, nursery, frontier, canMinor, mapVars, weaks, walkVars>>

\* GC_collect, at a limit check or on request.
Collect(young, force) ==
  PerformGC([NoRequest EXCEPT !.nursery = young, !.force = force])

\* GC_sequenceAllocate of a large sequence, when there is no room.
CollectLarge(shape) ==
  /\ Large(shape) /\ ~HasHeapBytesFree(SizeOf(shape), 0)
  /\ PerformGC([NoRequest EXCEPT !.old = SizeOf(shape), !.shape = shape])

StartGC ==
  /\ phase = "mutator" /\ ops < MaxOps /\ ops' = ops + 1
  /\ \/ \E young \in Requests, force \in BOOLEAN : Collect(young, force)
     \/ \E shape \in Shapes : CollectLarge(shape)
  /\ UNCHANGED program

\* foreachGlobalObjptr
ForwardGlobals ==
  /\ phase = "globals"
  /\ Forward(Globals)
  /\ phase' = IF minor THEN "crossMap" ELSE "scan"
  /\ cardIndex' = IF crossMapValidSize = 0 THEN 0 ELSE (crossMapValidSize - 1) \div CardSize
  /\ objectStart' = start + crossMapValidSize
  /\ UNCHANGED <<heapVars, mapVars, request, minor, scan, origin, ops>>

cardStart == start + cardIndex * CardSize
cardEnd == cardStart + CardSize

BeginWalk == phase' = "cards" /\ cardIndex' = 0 /\ objectStart' = start

\* updateCrossMap, one object: the last boundary in a card is recorded when the walk
\* leaves the card.
UpdateCrossMap ==
  /\ phase = "crossMap" /\ objectStart < oldGenEnd
  /\ LET next == NextObject(objectStart)
     IN /\ objectStart' = next
        /\ IF next > cardEnd
           THEN /\ crossMap' = [crossMap EXCEPT ![cardIndex] = objectStart - cardStart]
                /\ cardIndex' = CardOf(next - 1)
           ELSE UNCHANGED <<crossMap, cardIndex>>
  /\ UNCHANGED <<mem, heapVars, cardMap, crossMapValidSize, phase, request, copyVars, origin, ops>>

\* Its end. The byte offset is cut to the width of an entry before it is scaled: the
\* end of a card becomes its beginning.
EndCrossMap ==
  /\ phase = "crossMap" /\ objectStart = oldGenEnd
  /\ IF crossMapValidSize = oldGenSize THEN UNCHANGED <<crossMap, crossMapValidSize>>
     ELSE /\ crossMap' = [crossMap EXCEPT ![cardIndex] = (oldGenEnd - cardStart) % CardSize]
          /\ crossMapValidSize' = oldGenSize
  /\ BeginWalk
  /\ UNCHANGED <<mem, heapVars, cardMap, request, copyVars, origin, ops>>

maxCardIndex == (oldGenSize + CardSize - 1) \div CardSize

\* The first object boundary at or after end, from the boundary first on.
FirstFrom(first, end) ==
  LET Walk[f \in first .. oldGenEnd] == IF f >= end THEN f ELSE Walk[NextObject(f)]
  IN Walk[first]

CellsIn(first, end) ==
  UNION {Objptrs(mem, p, mem[p - 1], FALSE) : p \in ObjectsIn(mem, first, end - 1)}

\* A faulty variant of MarkedCard: the walk goes on in the card where it looked for objects.
WrongMarkedCard ==
  /\ phase = "cards" /\ cardIndex < maxCardIndex /\ cardIndex \in cardMap
  /\ LET end == FirstFrom(objectStart, IF oldGenEnd < cardEnd THEN oldGenEnd ELSE cardEnd)
     IN /\ Forward(CellsIn(objectStart, end))
        /\ objectStart' = end
        /\ IF end = oldGenEnd THEN phase' = "scan" /\ UNCHANGED cardIndex
           ELSE cardIndex' = CardOf(objectStart) /\ UNCHANGED phase
  /\ UNCHANGED <<heapVars, mapVars, request, minor, scan, origin, ops>>

\* forwardInterGenerationalObjptrs, a marked card: the objects that begin before its end
\* are looked through, whole.
MarkedCard ==
  /\ phase = "cards" /\ cardIndex < maxCardIndex /\ cardIndex \in cardMap
  /\ LET end == FirstFrom(objectStart, IF oldGenEnd < cardEnd THEN oldGenEnd ELSE cardEnd)
     IN /\ Forward(CellsIn(objectStart, end))
        /\ objectStart' = end
        /\ IF end = oldGenEnd THEN phase' = "scan" /\ UNCHANGED cardIndex
           ELSE cardIndex' = CardOf(end) /\ UNCHANGED phase
  /\ UNCHANGED <<heapVars, mapVars, request, minor, scan, origin, ops>>

\* A card that is not marked: the cross map says where its last object begins.
UnmarkedCard ==
  /\ phase = "cards" /\ cardIndex < maxCardIndex /\ cardIndex \notin cardMap
  /\ objectStart' = IF crossMap[cardIndex] = CrossMapEmpty THEN objectStart
                    ELSE cardStart + crossMap[cardIndex]
  /\ cardIndex' = cardIndex + 1
  /\ UNCHANGED <<mem, heapVars, mapVars, phase, request, copyVars, origin, ops>>

EndCards ==
  /\ phase = "cards" /\ cardIndex = maxCardIndex
  /\ phase' = "scan"
  /\ UNCHANGED <<mem, heapVars, mapVars, request, copyVars, walkVars, origin, ops>>

\* foreachObjptrInRange over the copies, one object.
Scan ==
  /\ phase = "scan" /\ scan < back
  /\ LET p == AdvanceToObjectData(mem, scan)
     IN Forward(Objptrs(mem, p, mem[p - 1], TRUE))
  /\ scan' = NextObject(scan)
  /\ UNCHANGED <<heapVars, mapVars, phase, request, minor, walkVars, origin, ops>>

\* updateWeaksForCheneyCopy
UpdatedWeaks ==
  LET gone == {p \in weaks : IsHeader(mem[mem[p + 1].to - 1])}
  IN [x \in DOMAIN mem |->
        IF x + 1 \in gone THEN WeakGoneHeader
        ELSE IF x - 1 \in gone THEN Bogus
        ELSE IF x - 1 \in weaks THEN mem[mem[x].to - 1]
        ELSE mem[x]]

\* What lies outside the objects is never read again.
Cleared(m, cells) ==
  [x \in DOMAIN m |-> IF x \in cells THEN Free ELSE m[x]]

EndMinor ==
  /\ phase = "scan" /\ scan = back /\ minor
  /\ mem' = Cleared(UpdatedWeaks, back .. limitPlusSlop - 1)
  /\ weaks' = {}
  /\ oldGenSize' = back - start
  /\ phase' = "decide"
  /\ UNCHANGED <<start, nursery, frontier, canMinor, mapVars, request, minor, back, scan, walkVars, origin, ops>>

\* performGC: is there room enough without a major collection?
Decide ==
  /\ phase = "decide"
  /\ LET major == request.force \/ request.old + request.nursery > Size - oldGenSize
     IN IF major
        THEN /\ phase' = "globals" /\ minor' = FALSE
             /\ back' = Secondary /\ scan' = Secondary
        ELSE phase' = "resume" /\ UNCHANGED <<minor, back, scan>>
  /\ UNCHANGED <<mem, heapVars, mapVars, request, weaks, walkVars, origin, ops>>

\* The end of majorCheneyCopyGC: the heaps are swapped, the maps begin anew
\* (swapHeapsForCheneyCopy, setCardMapAndCrossMap).
EndMajor ==
  /\ phase = "scan" /\ scan = back /\ ~minor
  /\ mem' = Cleared(UpdatedWeaks, HeapAt(start))
  /\ weaks' = {}
  /\ start' = Secondary /\ oldGenSize' = back - Secondary
  /\ cardMap' = {} /\ crossMap' = [c \in Cards |-> CrossMapEmpty] /\ crossMapValidSize' = 0
  /\ phase' = "resume"
  /\ UNCHANGED <<nursery, frontier, canMinor, request, minor, back, scan, walkVars, origin, ops>>

\* setGCStateCurrentHeap, setGCStateCurrentThreadAndStack: the nursery begins where half
\* of what is free begins, if that is enough and thought worth it, and the card of the
\* current stack is marked, as it will be written without marking.
Resume ==
  /\ phase = "resume"
  /\ LET free == Size - (oldGenSize + request.old)
         half == free \div 2
         stack == IF mem[StackCell].w = "ptr" THEN {CardOf(mem[StackCell].to)} ELSE {}
     IN \/ /\ request.nursery <= half
           /\ canMinor' = TRUE /\ nursery' = limitPlusSlop - half
           /\ cardMap' = stack
           /\ phase' = IF request.old > 0 THEN "allocate" ELSE "mutator"
        \/ /\ request.nursery <= free
           /\ canMinor' = FALSE /\ nursery' = limitPlusSlop - free
           /\ cardMap' = cardMap \cup stack
           /\ phase' = IF request.old > 0 THEN "allocate" ELSE "mutator"
        \/ /\ request.nursery > free
           /\ phase' = "died" /\ UNCHANGED <<canMinor, nursery, cardMap>>
  /\ frontier' = nursery'
  /\ request' = IF phase' = "allocate" THEN request ELSE NoRequest
  /\ origin' = <<>> /\ minor' = FALSE /\ back' = 0 /\ scan' = 0
  /\ cardIndex' = 0 /\ objectStart' = 0
  /\ UNCHANGED <<mem, start, oldGenSize, crossMap, crossMapValidSize, weaks, ops>>

\* Back in GC_sequenceAllocate.
AllocateRequested ==
  /\ phase = "allocate"
  /\ AllocateInOldGen(request.shape)
  /\ UNCHANGED <<mapVars, copyVars, walkVars, origin, ops>>

CollectorStep ==
  /\ \/ ForwardGlobals \/ UpdateCrossMap \/ EndCrossMap \/ MarkedCard \/ UnmarkedCard \/ EndCards
     \/ Scan \/ EndMinor \/ Decide \/ EndMajor \/ Resume \/ AllocateRequested
  /\ UNCHANGED program

\* The program has come to its bound, or to its end.
Finished == (phase = "died" \/ (phase = "mutator" /\ ops = MaxOps)) /\ UNCHANGED vars

Next == MutatorStep \/ StartGC \/ CollectorStep \/ Finished

Spec == Init /\ [][Next]_vars
-----------------------------------------------------------------------------
(***************************************************************************)
(* Properties.                                                             *)
(***************************************************************************)

TypeOK ==
  /\ start \in Starts /\ canMinor \in BOOLEAN /\ minor \in BOOLEAN
  /\ oldGenSize \in 0 .. Size
  /\ nursery \in start .. start + Size \/ phase = "resume"
  /\ cardMap \subseteq Cards
  /\ crossMap \in [Cards -> CrossMapEmpty .. CardSize] /\ crossMapValidSize \in 0 .. Size
  /\ phase \in {"mutator", "globals", "crossMap", "cards", "scan", "decide", "resume",
                "allocate", "died"}

\* Two objects, before and now, that can be one: of one kind and length. A weak object
\* may have lost its target.
Matches(p, q) ==
  LET h == origin.mem[p - 1]
  IN /\ q - 1 \in DOMAIN mem
     /\ mem[q - 1] = h \/ (h = WeakHeader /\ mem[q - 1] = WeakGoneHeader)
     /\ h.tag = "sequence" => mem[q - 2] = origin.mem[p - 2]
     /\ h.tag = "stack" => mem[q + 1] = origin.mem[p + 1]

\* The words the mutator can reach, before and now, side by side.
SideBySide ==
  LET Fields(p, q) ==
        IF Matches(p, q)
        THEN {<<origin.mem[c], mem[q + (c - p)]>> : c \in Objptrs(origin.mem, p, origin.mem[p - 1], TRUE)}
        ELSE {}
      Grown(pairs) ==
        pairs \cup UNION {Fields(pair[1].to, pair[2].to) :
                         pair \in {q \in pairs : q[1].w = "ptr" /\ q[2].w = "ptr"}}
      Pairs[n \in Nat] ==
        IF n = 0 THEN {<<origin.mem[g], mem[g]>> : g \in Globals}
        ELSE UNION {Grown(pairs) : pairs \in {Pairs[n - 1]}}
  IN Pairs[Size \div 2]

\* A weak pointer stays as long as its target does; it may outlive it only in a
\* collection that does not decide about the target.  One to a static object is lost in
\* the major collection, which finds no forwarding pointer there: of it nothing is said.
WeakOK(p, q, pairs) ==
  LET target == origin.mem[p + 1]
      now == {pair \in pairs : pair[1] = target}
  IN IF target.to \in Statics
     THEN mem[q - 1] = WeakGoneHeader \/ mem[q + 1] = target
     ELSE IF now # {}
     THEN /\ mem[q - 1] = WeakHeader
          /\ \A pair \in now : mem[q + 1] = pair[2]
     ELSE \/ mem[q - 1] = WeakGoneHeader
          \/ /\ mem[q + 1] = target /\ start = origin.start
             /\ canMinor => target.to < nursery

SameGraph ==
  \A pairs \in {SideBySide} :
     /\ \A pair \in pairs :
          IF pair[1].w = "ptr" /\ pair[1].to \notin Statics
          THEN pair[2].w = "ptr" /\ Matches(pair[1].to, pair[2].to)
          ELSE pair[2] = pair[1]
     /\ \A a \in pairs, b \in pairs : a[1].w = "ptr" => (a[1] = b[1] <=> a[2] = b[2])
     /\ \A pair \in pairs :
          pair[1].w = "ptr" /\ origin.mem[pair[1].to - 1] = WeakHeader
            => WeakOK(pair[1].to, pair[2].to, pairs)

\* What the mutator can reach is after a collection what it was before: the same
\* objects, of the same contents, shared in the same way, and a weak pointer is lost
\* only with its target.
GraphPreserved == phase \in {"decide", "resume"} => SameGraph

OldObjects == ObjectsIn(mem, start, oldGenEnd - 1)
Young(word) == canMinor /\ word.w = "ptr" /\ nursery <= word.to /\ word.to <= frontier

\* Every pointer from an old object into the nursery is in an object whose first card
\* is marked, or in the current stack: the minor collection will find it.
YoungPointersMarked ==
  phase = "mutator" =>
    \A p \in OldObjects : \A c \in Objptrs(mem, p, mem[p - 1], TRUE) :
      Young(mem[c]) => CardOf(p) \in cardMap

\* No old weak object points into the nursery: the cards need not link any (the comment
\* at forward.c:240).
WeaksNeverYounger ==
  phase = "mutator" =>
    \A p \in OldObjects : mem[p - 1] = WeakHeader => ~Young(mem[p + 1])

\* The boundaries between objects of the old generation, and the card each is
\* remembered in: the beginning of a card counts with the card before.
Boundaries == {p - MetaOf(mem[p - 1]) : p \in OldObjects} \cup {oldGenEnd}
BoundaryCard(f) == IF f = start THEN 0 ELSE CardOf(f - 1)

\* isCrossMapOk: the slower way to compute a card's entry.
SlowCrossMap(card) ==
  LET here == {f \in Boundaries : BoundaryCard(f) = card}
  IN IF here = {} THEN CrossMapEmpty ELSE Max(here) - (start + card * CardSize)

\* As far as the code's own assertion looks, the cross map updated object by object is
\* the one computed from nothing.
CrossMapOk ==
  phase = "cards" =>
    \A card \in 0 .. BoundaryCard(oldGenEnd) - 1 : crossMap[card] = SlowCrossMap(card)

\* The walk over the cards stands at an object that begins no later than the card it
\* looks at, and before the end of the old generation (the assertions at forward.c:216
\* and forward.c:238).
WalkOk ==
  phase = "cards" /\ cardIndex < maxCardIndex =>
    /\ objectStart < cardEnd
    /\ objectStart \in Boundaries
    /\ cardIndex \in cardMap => objectStart < oldGenEnd

\* The copies never run into what is still to be copied, and fit (the assertion at
\* forward.c:110).
CopiesFit ==
  phase \in {"crossMap", "cards", "scan"} =>
    IF minor THEN back <= oldGenEnd + (frontier - nursery) /\ back <= nursery
    ELSE back <= Secondary + oldGenSize

\* What invariant.c, forward.c and generational.c assert of the old generation, its
\* cards and its cross map, between collections and in their walks.
InvariantForGC ==
  TypeOK /\ YoungPointersMarked /\ WeaksNeverYounger /\ CrossMapOk /\ WalkOk /\ CopiesFit

\* How far a collection has come: which part of it runs, and how much that has left.
Stage ==
  CASE phase = "globals" -> IF minor THEN 1 ELSE 6
    [] phase = "crossMap" -> 2
    [] phase = "cards" -> 3
    [] phase = "scan" -> IF minor THEN 4 ELSE 7
    [] phase = "decide" -> 5
    [] phase = "resume" -> 8
    [] phase = "allocate" -> 9
    [] phase \in {"mutator", "died"} -> 10

Left ==
  CASE phase = "crossMap" -> oldGenEnd - objectStart
    [] phase = "cards" -> maxCardIndex - cardIndex
    [] phase = "scan" -> -scan
    [] OTHER -> 0

\* Every step of a collection brings it nearer to its end, so that it ends, in the
\* mutator's next step or in the program's death: no walk ever turns back.
CollectionAdvances ==
  [][Stage < 10 => Stage' > Stage \/ (Stage' = Stage /\ Left' < Left)]_vars
=============================================================================
