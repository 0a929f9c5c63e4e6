----------------------------- MODULE MarkCompact ----------------------------
(***************************************************************************)
(* The mark-compact collection of the old generation (mark-compact.c),     *)
(* after Jonkers: every pointer to an object is threaded into a chain that *)
(* starts in the object's header and ends in the cell that keeps it; one   *)
(* pass over the heap updates the pointers forward, a second the pointers  *)
(* backward while it slides the objects down.                              *)
(* Marking is one step here: what dfsMark marks and links is DfsMark's     *)
(* matter.                                                                 *)
(***************************************************************************)
EXTENDS HeapLayout, SequencesExt

CONSTANTS Globals,         \* the addresses of the global pointers
          InitialHeaps,    \* records [mem, end, currentStack]
          ShrinkReserved(_, _, _)  \* sizeofStackShrinkReserved, of used, reserved, current

VARIABLES mem,             \* the heap's words and the global cells
          oldGenSize,      \* the last word of the old generation
          weaks,           \* s->weaks, the weak objects linked while marking
          phase, front, gap, endOfLastMarked,
          origin, live     \* history: the heap when the collection began, what it marked

passVars == <<phase, front, gap, endOfLastMarked>>
history == <<origin, live>>
vars == <<mem, oldGenSize, weaks, passVars, history>>

InHeap(word) == word.w = "ptr" /\ word.to \in 1 .. oldGenSize

Init ==
  /\ origin \in InitialHeaps
  /\ mem = origin.mem /\ oldGenSize = origin.end
  /\ weaks = {} /\ live = {}
  /\ phase = "mark" /\ front = 1 /\ gap = 0 /\ endOfLastMarked = 1

Objects0 == ObjectsIn(origin.mem, 1, origin.end)

\* foreachGlobalObjptr with dfsMark: the reachable objects are marked, the weak ones
\* that point into the heap linked.
MarkPhase ==
  /\ phase = "mark"
  /\ live' = Reachable(mem, Globals, Objects0)
  /\ mem' = [a \in DOMAIN mem |->
               IF a + 1 \in live' THEN [mem[a] EXCEPT !.mark = TRUE] ELSE mem[a]]
  /\ weaks' = {p \in live' : /\ mem[p - 1] = WeakHeader
                            /\ InHeap(mem[p + 1])}
  /\ phase' = "weaks"
  /\ UNCHANGED <<oldGenSize, front, gap, endOfLastMarked, origin>>

\* A faulty variant of UpdateWeaks: the weak object that is gone loses its mark.
WrongUpdateWeaks ==
  /\ phase = "weaks"
  /\ LET gone == {p \in weaks : ~mem[mem[p + 1].to - 1].mark}
     IN mem' = [a \in DOMAIN mem |->
                  IF a + 1 \in gone THEN WeakGoneHeader
                  ELSE IF a - 1 \in gone THEN Bogus ELSE mem[a]]
  /\ weaks' = {}
  /\ phase' = "globals"
  /\ UNCHANGED <<oldGenSize, front, gap, endOfLastMarked, history>>

\* updateWeaksForMarkCompact: a weak object whose target is unmarked is gone, and
\* stays marked itself.
UpdateWeaks ==
  /\ phase = "weaks"
  /\ LET gone == {p \in weaks : ~mem[mem[p + 1].to - 1].mark}
     IN mem' = [a \in DOMAIN mem |->
                  IF a + 1 \in gone THEN [WeakGoneHeader EXCEPT !.mark = TRUE]
                  ELSE IF a - 1 \in gone THEN Bogus ELSE mem[a]]
  /\ weaks' = {}
  /\ phase' = "globals"
  /\ UNCHANGED <<oldGenSize, front, gap, endOfLastMarked, history>>

\* threadInternalObjptr: the cell takes what the header held, the header points to it.
ThreadObjptr(m, cell) ==
  IF InHeap(m[cell])
  THEN LET headerp == m[cell].to - 1
       IN [m EXCEPT ![cell] = m[headerp], ![headerp] = Ptr(cell)]
  ELSE m

ThreadAll(m, cells) == FoldLeft(ThreadObjptr, m, SetToSortSeq(cells, <))

ThreadGlobals ==
  /\ phase = "globals"
  /\ mem' = ThreadAll(mem, Globals)
  /\ phase' = "forward"
  /\ UNCHANGED <<oldGenSize, weaks, front, gap, endOfLastMarked, history>>

(***************************************************************************)
(* The two passes over the objects.                                        *)
(***************************************************************************)

P == AdvanceToObjectData(mem, front)
HeaderAt == mem[P - 1]
AtObject == phase \in {"forward", "backward"} /\ front <= oldGenSize

\* A faulty variant of Unthread: the gap before the object is forgotten.
WrongUnthread ==
  /\ AtObject /\ ~IsHeader(HeaderAt)
  /\ LET cell == HeaderAt.to
     IN mem' = [mem EXCEPT ![P - 1] = mem[cell], ![cell] = Ptr(P)]
  /\ UNCHANGED <<oldGenSize, weaks, passVars, history>>

\* A faulty variant of Unthread: the cell is overwritten before it is read.
WrongUnthreadOrder ==
  /\ AtObject /\ ~IsHeader(HeaderAt)
  /\ LET cell == HeaderAt.to
     IN mem' = [mem EXCEPT ![P - 1] = Ptr(P - gap), ![cell] = Ptr(P - gap)]
  /\ UNCHANGED <<oldGenSize, weaks, passVars, history>>

\* The header's place holds a pointer: the last cell threaded gets the object's new
\* address, the header's place what the cell held.
Unthread ==
  /\ AtObject /\ ~IsHeader(HeaderAt)
  /\ LET cell == HeaderAt.to
     IN mem' = [mem EXCEPT ![P - 1] = mem[cell], ![cell] = Ptr(P - gap)]
  /\ UNCHANGED <<oldGenSize, weaks, passVars, history>>

\* An object that is not marked leaves a gap.
SkipUnmarked ==
  /\ AtObject /\ IsHeader(HeaderAt) /\ ~HeaderAt.mark
  /\ LET size == MetaOf(HeaderAt) + BodySize(mem, P, HeaderAt)
     IN gap' = gap + size /\ front' = front + size
  /\ UNCHANGED <<mem, oldGenSize, weaks, phase, endOfLastMarked, history>>

\* The bytes of the marked object that move, those after it the passes skip, and by how
\* much the space reserved for a stack shrinks.
Extent ==
  IF HeaderAt.tag = "stack"
  THEN LET reserved == mem[P].v
           used == mem[P + 1].v
           new == ShrinkReserved(used, reserved, origin.currentStack = P)
       IN [size |-> NormalMeta + StackStruct + used, skipFront |-> reserved - used,
           skipGap |-> reserved - new, reserved |-> new]
  ELSE [size |-> MetaOf(HeaderAt) + BodySize(mem, P, HeaderAt), skipFront |-> 0,
        skipGap |-> 0, reserved |-> 0]

\* The unmarked objects since the last marked one become one sequence, when there is
\* room for the smallest.
CompressGap(m) ==
  LET length == front - endOfLastMarked - SequenceMeta
  IN IF length >= 0
     THEN [m EXCEPT ![endOfLastMarked] = Raw(0), ![endOfLastMarked + 1] = Raw(length),
                    ![endOfLastMarked + 2] = Word8VectorHeader]
     ELSE m

\* Forward: a marked object, all earlier pointers to it updated, is threaded.
Thread ==
  /\ phase = "forward" /\ AtObject /\ IsHeader(HeaderAt) /\ HeaderAt.mark
  /\ mem' = ThreadAll(CompressGap(mem), Objptrs(mem, P, HeaderAt, FALSE))
  /\ gap' = gap + Extent.skipGap
  /\ front' = front + Extent.size + Extent.skipFront
  /\ endOfLastMarked' = front'
  /\ UNCHANGED <<oldGenSize, weaks, phase, history>>

\* Backward: a marked object, all later pointers to it updated, is unmarked and slides.
Slide ==
  /\ phase = "backward" /\ AtObject /\ IsHeader(HeaderAt) /\ HeaderAt.mark
  /\ LET unmarked == [mem EXCEPT ![P - 1].mark = FALSE]
         shrunk == IF HeaderAt.tag = "stack"
                   THEN [unmarked EXCEPT ![P] = Raw(Extent.reserved)] ELSE unmarked
     IN mem' = [a \in DOMAIN mem |->
                  IF a \in front - gap .. front - gap + Extent.size - 1
                  THEN shrunk[a + gap] ELSE shrunk[a]]
  /\ gap' = gap + Extent.skipGap
  /\ front' = front + Extent.size + Extent.skipFront
  /\ UNCHANGED <<oldGenSize, weaks, phase, endOfLastMarked, history>>

\* The forward pass has reached the end.
EndForward ==
  /\ phase = "forward" /\ front > oldGenSize
  /\ phase' = "backward" /\ front' = 1 /\ gap' = 0
  /\ UNCHANGED <<mem, oldGenSize, weaks, endOfLastMarked, history>>

EndBackward ==
  /\ phase = "backward" /\ front > oldGenSize
  /\ phase' = "done" /\ oldGenSize' = oldGenSize - gap
  /\ UNCHANGED <<mem, weaks, front, gap, endOfLastMarked, history>>

Next == \/ MarkPhase \/ UpdateWeaks \/ ThreadGlobals
        \/ Unthread \/ SkipUnmarked \/ Thread \/ Slide
        \/ EndForward \/ EndBackward

\* Sequential code: it runs to its end.
Spec == Init /\ [][Next]_vars /\ WF_vars(Next)
-----------------------------------------------------------------------------
(***************************************************************************)
(* Properties.                                                             *)
(***************************************************************************)

\* The passes stay in the heap and stop only where an object begins: where its header
\* belongs there is a header, or a pointer threaded there.
TypeOK ==
  /\ phase \in {"mark", "weaks", "globals", "forward", "backward", "done"}
  /\ DOMAIN mem = 1 .. origin.end \cup Globals
  /\ oldGenSize \in 0 .. origin.end
  /\ front \in 1 .. origin.end + 1 /\ gap \in 0 .. front - 1
  /\ AtObject => /\ P \in 1 .. origin.end + 1
                 /\ HeaderAt.w \in {"header", "ptr"}

Header0(p) == origin.mem[p - 1]

\* The space an object that lives takes after the collection.
NewSize(p) ==
  LET m == origin.mem
      h == Header0(p)
  IN MetaOf(h) +
     IF h.tag = "stack"
     THEN StackStruct + ShrinkReserved(m[p + 1].v, m[p].v, origin.currentStack = p)
     ELSE BodySize(m, p, h)

NewAddress(p) ==
  1 + MetaOf(Header0(p)) + MapThenSumSet(NewSize, {q \in live : q < p})

Gone(p) ==
  LET word == origin.mem[p + 1]
  IN Header0(p) = WeakHeader /\ word.w = "ptr" /\ word.to \in Objects0 /\ word.to \notin live

\* A word of a live object, or of a global, as the collection should leave it.
Moved(word) == IF word.w = "ptr" /\ word.to \in live THEN Ptr(NewAddress(word.to)) ELSE word

MovedBody(p) ==
  CASE Gone(p) -> <<origin.mem[p], Bogus>>
    [] Header0(p).tag = "stack" ->
         <<Raw(NewSize(p) - NormalMeta - StackStruct), origin.mem[p + 1]>> \o
         [i \in 1 .. origin.mem[p + 1].v |-> Moved(origin.mem[p + 1 + i])]
    [] OTHER -> [i \in 1 .. BodySize(origin.mem, p, Header0(p)) |-> Moved(origin.mem[p + i - 1])]

\* After the collection the live objects lie side by side in their old order, every
\* pointer to them follows them, a weak pointer to a dead object is gone, and no mark
\* is left.
Compacted ==
  phase = "done" =>
    /\ oldGenSize = MapThenSumSet(NewSize, live)
    /\ \A g \in Globals : mem[g] = Moved(origin.mem[g])
    /\ \A p \in live :
         LET new == NewAddress(p)
             body == MovedBody(p)
         IN /\ mem[new - 1] = IF Gone(p) THEN WeakGoneHeader ELSE Header0(p)
            /\ Header0(p).tag = "sequence" =>
                 mem[new - 3] = Raw(0) /\ mem[new - 2] = origin.mem[p - 2]
            /\ \A i \in DOMAIN body : mem[new + i - 1] = body[i]

\* Where the header of a live object belongs at this point of the collection.
Slid(p) == phase = "done" \/ (phase = "backward" /\ p < front)

HeaderPlace(p) == IF Slid(p) THEN NewAddress(p) - 1 ELSE p - 1

\* The cells threaded from the word of a header's place on, and what ends them.
ChainEnd(cell) ==
  LET Follow[n \in Nat, c \in DOMAIN mem] ==
        IF n = 0 \/ mem[c].w # "ptr" THEN mem[c] ELSE Follow[n - 1, mem[c].to]
  IN Follow[Cardinality(DOMAIN mem), cell]

\* No header is ever lost: the chain that starts where an object's header belongs ends
\* in the header, marked as long as the object has not been slid.
HeadersRecoverable ==
  \A p \in live :
    LET end == ChainEnd(HeaderPlace(p))
    IN /\ IsHeader(end)
       /\ end.tag = Header0(p).tag
       /\ phase # "mark" => end.mark = ~Slid(p)

\* The passes find what they need: whole objects, and a header at the end of each chain.
PassesFindHeaders == TypeOK /\ HeadersRecoverable

\* The collection ends.
Terminates == <>(phase = "done")
=============================================================================
