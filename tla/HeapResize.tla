----------------------------- MODULE HeapResize -----------------------------
(***************************************************************************)
(* The sizes of the heaps: majorGC, GC_pack and GC_unpack as they create,  *)
(* swap, grow, shrink and release the heap and the secondary heap while    *)
(* the operating system may refuse or move memory.                         *)
(*                                                                         *)
(* A heap is followed in memory by its card map and its cross map.  Its    *)
(* contents are the live data, of which the model keeps where they are:    *)
(* the first "kept" units in the heap, those from "copied" on in the heap  *)
(* being built, all of them in a file.  A step is one call to the          *)
(* operating system, or what happens between two.                          *)
(***************************************************************************)
EXTENDS Integers

CONSTANTS
  Page,         \* the units of a page
  CardPages,    \* the pages of heap whose cards take a page of a map
  Chunk,        \* COPY_CHUNK_SIZE
  SizeMax,      \* the largest size_t
  Factor,       \* where the bias of the search begins, and how many failures
  Rounds,       \*   double it
  Ratios,       \* [live, grow, copy, markCompact], in hundredths
  Settings,     \* [ram, fixedHeap, maxHeap, mayPageHeap, remap]
  InitialLive,
  Allocations,  \* what the mutator may have allocated since the last major collection
  Requests,     \* what it may ask for
  Addresses, NoAddress,
  MaxMajors     \* bound: major collections and resizings

ASSUME HeapAssumption ==
  /\ {Page, CardPages, Chunk, Factor, Rounds, InitialLive} \subseteq Nat \ {0}
  /\ SizeMax \in Nat /\ Allocations \subseteq Nat /\ Requests \subseteq Nat
  /\ \E biases \in SUBSET (1 .. Page) :
       /\ Factor \in biases /\ \A f \in biases : f < Page => 2 * f \in biases
  /\ {Ratios.live, Ratios.grow, Ratios.copy, Ratios.markCompact} \subseteq Nat
  /\ Ratios.live >= 100 /\ Ratios.copy >= 100 /\ Ratios.markCompact >= 100
  /\ \A c \in Settings : {c.ram, c.fixedHeap, c.maxHeap} \subseteq Nat
  /\ NoAddress \notin Addresses

VARIABLES
  controls,     \* one of Settings
  heap,         \* [start, size, withMaps]
  secondary,
  newHeap,      \* growHeap's
  oldGenSize, bytesLive,
  kept, copied, onDisk, base,  \* where the live data are, and what their pointers refer to
  phase, search, grow, request, majors

heapVars == <<heap, secondary, newHeap, oldGenSize, bytesLive>>
dataVars == <<kept, copied, onDisk, base>>
vars == <<controls, heapVars, dataVars, phase, search, grow, request, majors>>

Smaller(a, b) == IF a < b THEN a ELSE b
Larger(a, b)  == IF a < b THEN b ELSE a
Ceiling(n, d) == (n + d - 1) \div d

align(n)     == Page * Ceiling(n, Page)
alignDown(n) == n - (n % Page)

-----------------------------------------------------------------------------
(***************************************************************************)
(* Sizes.                                                                  *)
(***************************************************************************)

sizeofCardMapAndCrossMap(size) == 2 * Page * Ceiling(size, Page * CardPages)
WithMaps(size) == size + sizeofCardMapAndCrossMap(size)

\* A faulty variant of invertSizeofCardMapAndCrossMap: The loop looks at the size it has, not at the next one.
WrongInvert(withMaps) ==
  LET estimate == alignDown((CardPages * (withMaps - 3 * Page) - 2 * Page) \div (CardPages + 2))
      Fits(size) == WithMaps(size) <= withMaps
      Grown[size \in Nat] == IF Fits(size) THEN Grown[size + Page] ELSE size
  IN Grown[IF withMaps <= 3 * Page THEN 0 ELSE Larger(estimate, 0)]

\* A first estimate from below, then page after page as long as heap and maps fit.
invertSizeofCardMapAndCrossMap(withMaps) ==
  LET estimate == alignDown((CardPages * (withMaps - 3 * Page) - 2 * Page) \div (CardPages + 2))
      Fits(size) == WithMaps(size + Page) <= withMaps
      Grown[size \in Nat] == IF Fits(size) THEN Grown[size + Page] ELSE size
  IN Grown[IF withMaps <= 3 * Page THEN 0 ELSE Larger(estimate, 0)]

SystemLimit == alignDown(SizeMax)
Die == -1

\* By the ratio of RAM to live data, with maps: copying at the desired ratio, copying in
\* half of RAM, copying in what is left of RAM, compacting in RAM, paging. A heap that is
\* close to what copying wants keeps its size.
DesiredByRatio(live, current) ==
  LET ram == controls.ram
      RamHolds(ratio) == 100 * ram >= ratio * live
      Wanted(size, least) == IF least /\ 10 * size <= 11 * current THEN current ELSE align(size)
      preferred == (live * Ratios.live) \div 100
      remaining == ram - (live * Ratios.grow) \div 100
      required == (live * Ratios.markCompact) \div 100
  IN IF RamHolds(Ratios.live + Ratios.grow) THEN Wanted(preferred, current <= 2 * preferred)
     ELSE IF Ratios.grow >= Ratios.copy /\ RamHolds(2 * Ratios.copy) THEN alignDown(ram \div 2)
     ELSE IF RamHolds(Ratios.copy + Ratios.grow) THEN Wanted(remaining, current <= remaining)
     ELSE IF RamHolds(Ratios.markCompact) THEN ram
     ELSE Smaller(align(required), SystemLimit)

\* The user's limits come after the ratios.
Limited(size) ==
  CASE controls.fixedHeap > 0 ->
         IF size > controls.fixedHeap \div 2 THEN controls.fixedHeap ELSE controls.fixedHeap \div 2
    [] controls.fixedHeap = 0 /\ controls.maxHeap > 0 -> Smaller(size, controls.maxHeap)
    [] OTHER -> size

sizeofHeapDesired(live, current) ==
  LET liveWithMaps == WithMaps(align(live))
      size == Limited(DesiredByRatio(liveWithMaps, WithMaps(current)))
  IN IF align(live) > invertSizeofCardMapAndCrossMap(SystemLimit)
        \/ (controls.fixedHeap + controls.maxHeap > 0 /\ size < liveWithMaps)
     THEN Die ELSE invertSizeofCardMapAndCrossMap(size)

-----------------------------------------------------------------------------
(***************************************************************************)
(* Heaps, and the search for a size the operating system grants.           *)
(***************************************************************************)

NoHeap == [start |-> NoAddress, size |-> 0, withMaps |-> 0]
NewHeap(start, size) == [start |-> start, size |-> size, withMaps |-> WithMaps(size)]

ShrinkHeap(h, keep) ==
  IF keep = 0 THEN NoHeap
  ELSE IF align(keep) < h.size THEN NewHeap(h.start, align(keep)) ELSE h

FreeAddresses == Addresses \ {heap.start, secondary.start, newHeap.start}

\* The biased binary search of createHeap and remapHeap, from the size desired.
Search(desired, min) ==
  [low |-> align(min), high |-> align(Larger(desired, min)), try |-> align(Larger(desired, min)),
   factor |-> Factor, failures |-> 0, found |-> FALSE]

NextTry(s) == align((s.factor - 1) * (s.high \div s.factor) + s.low \div s.factor)

Searching == search.low <= search.high

\* A faulty variant of Refused: The size that was refused is tried again.
WrongRefused(biasGrows) ==
  LET lower == [search EXCEPT !.high = search.try, !.failures = (@ + 1) % Rounds]
  IN search' = [lower EXCEPT
       !.try = NextTry(lower),
       !.factor = IF biasGrows /\ lower.factor < Page /\ lower.failures = 0
                  THEN 2 * @ ELSE @]

\* A size is refused: the search goes on below it; createHeap doubles the bias now and then.
Refused(biasGrows) ==
  LET lower == [search EXCEPT !.high = search.try - Page, !.failures = (@ + 1) % Rounds]
  IN search' = [lower EXCEPT
       !.try = NextTry(lower),
       !.factor = IF biasGrows /\ lower.factor < Page /\ lower.failures = 0
                  THEN 2 * @ ELSE @]

\* remapHeap goes on above a size it was granted.
Granted ==
  LET higher == [search EXCEPT !.low = search.try + Page, !.found = TRUE]
  IN search' = [higher EXCEPT !.try = NextTry(higher)]

NoSearch == [low |-> 1, high |-> 0, try |-> 0, factor |-> Factor, failures |-> 0, found |-> FALSE]
NoGrow == [desired |-> 0, min |-> 0, useCurrent |-> FALSE, origStart |-> NoAddress, remaining |-> 0]
NoRequest == [bytes |-> 0, op |-> "none"]

\* initWorld makes a heap for what is live at the start.
Init ==
  /\ controls \in Settings
  /\ heap = NoHeap /\ secondary = NoHeap /\ newHeap = NoHeap
  /\ oldGenSize = 0 /\ bytesLive = InitialLive
  /\ kept = 0 /\ copied = 0 /\ onDisk = FALSE /\ base = NoAddress
  /\ IF sizeofHeapDesired(InitialLive, 0) = Die
     THEN phase = "died" /\ search = NoSearch
     ELSE phase = "init" /\ search = Search(sizeofHeapDesired(InitialLive, 0), InitialLive)
  /\ grow = NoGrow /\ request = NoRequest /\ majors = 0

\* A call of mmap or mremap fails.
RefuseCreate ==
  /\ phase \in {"init", "secondary", "new", "disk"} /\ Searching
  /\ Refused(TRUE)
  /\ UNCHANGED <<controls, heapVars, dataVars, phase, grow, request, majors>>

RefuseRemap ==
  /\ phase \in {"remap", "secondaryRemap"} /\ Searching
  /\ Refused(FALSE)
  /\ UNCHANGED <<controls, heapVars, dataVars, phase, grow, request, majors>>

\* initWorld does not look at what createHeap returns: without a heap it ends the program.
CreateInitial ==
  /\ phase = "init"
  /\ \/ /\ Searching
        /\ \E a \in FreeAddresses : heap' = NewHeap(a, search.try) /\ base' = a
        /\ oldGenSize' = bytesLive /\ kept' = bytesLive /\ copied' = bytesLive
        /\ phase' = "mutator"
     \/ /\ ~Searching /\ phase' = "died"
        /\ UNCHANGED <<heap, base, oldGenSize, kept, copied>>
  /\ search' = NoSearch
  /\ UNCHANGED <<controls, secondary, newHeap, bytesLive, onDisk, grow, request, majors>>

-----------------------------------------------------------------------------
(***************************************************************************)
(* majorGC.                                                                *)
(***************************************************************************)

\* createHeapSecondary is refused by the user's limits, or tries.
SecondaryAllowed(desired) ==
  LET both == (heap.withMaps + WithMaps(desired)) % (SizeMax + 1)
  IN /\ controls.fixedHeap > 0 => both <= controls.fixedHeap
     /\ controls.maxHeap > 0 => both <= controls.maxHeap
     /\ WithMaps(align(oldGenSize)) <= SizeMax - heap.withMaps

\* After a minor collection live bytes are in the old generation, the current one and what
\* was allocated.
MajorGC(live, bytes, op) ==
  /\ phase = "mutator" /\ majors < MaxMajors /\ majors' = majors + 1
  /\ live <= heap.size /\ oldGenSize' = live /\ kept' = live /\ copied' = live
  /\ request' = [bytes |-> bytes, op |-> op]
  /\ phase' = IF sizeofHeapDesired(bytesLive + bytes, 0) = Die THEN "died" ELSE "choose"
  /\ UNCHANGED <<controls, heap, secondary, newHeap, bytesLive, onDisk, base, search, grow>>

\* Copying is for heaps that are smaller than RAM, and cannot hash-cons, which the ratio
\* of the user may ask for at any time.
ChooseMajor(hashConsDuringGC) ==
  /\ phase = "choose"
  /\ LET desired == sizeofHeapDesired(bytesLive + request.bytes, 0)
     IN IF hashConsDuringGC \/ heap.withMaps >= controls.ram
           \/ (secondary = NoHeap /\ ~SecondaryAllowed(desired))
        THEN phase' = "compact" /\ UNCHANGED search
        ELSE IF secondary # NoHeap THEN phase' = "copy" /\ UNCHANGED search
        ELSE phase' = "secondary" /\ search' = Search(desired, oldGenSize)
  /\ UNCHANGED <<controls, heapVars, dataVars, grow, request, majors>>

CreateSecondary ==
  /\ phase = "secondary"
  /\ \/ /\ Searching
        /\ \E a \in FreeAddresses : secondary' = NewHeap(a, search.try)
        /\ phase' = "copy"
     \/ ~Searching /\ phase' = "compact" /\ UNCHANGED secondary
  /\ search' = NoSearch
  /\ UNCHANGED <<controls, heap, newHeap, oldGenSize, bytesLive, dataVars, grow, request, majors>>

AfterMajor == IF request.op = "collect" THEN "resize" ELSE "resizeSecondary"

\* majorCheneyCopyGC: the heaps are swapped, and pointers are into the other heap.
Copy(live) ==
  /\ phase = "copy"
  /\ heap' = secondary /\ secondary' = heap /\ base' = secondary.start
  /\ oldGenSize' = live /\ bytesLive' = live
  /\ kept' = Smaller(live, secondary.size) /\ copied' = live
  /\ phase' = AfterMajor
  /\ UNCHANGED <<controls, newHeap, onDisk, search, grow, request, majors>>

Compact(live) ==
  /\ phase = "compact"
  /\ oldGenSize' = live /\ bytesLive' = live /\ kept' = live /\ copied' = live
  /\ phase' = AfterMajor
  /\ UNCHANGED <<controls, heap, secondary, newHeap, onDisk, base, search, grow, request, majors>>

-----------------------------------------------------------------------------
(***************************************************************************)
(* resizeHeap and growHeap.                                                *)
(***************************************************************************)

\* What resizeHeap must make room for.
MinSize == oldGenSize + request.bytes

\* A heap that is to shrink does; one that is to grow gives up the secondary heap, and
\* is content with the current heap if that would do.
ResizeHeap ==
  /\ phase = "resize"
  /\ LET desired == sizeofHeapDesired(MinSize, heap.size)
         useCurrent == align(MinSize) <= heap.size
         min == IF useCurrent THEN heap.size + Page ELSE align(MinSize)
     IN \/ /\ desired = Die /\ phase' = "died"
           /\ UNCHANGED <<heap, kept, secondary, grow, search>>
        \/ /\ desired # Die /\ desired <= heap.size
           /\ heap' = ShrinkHeap(heap, desired) /\ kept' = Smaller(kept, heap'.size)
           /\ phase' = "resizeSecondary"
           /\ UNCHANGED <<secondary, grow, search>>
        \/ /\ desired > heap.size
           /\ secondary' = NoHeap
           /\ grow' = [desired |-> desired, min |-> min, useCurrent |-> useCurrent,
                       origStart |-> heap.start, remaining |-> 0]
           /\ phase' = "remap" /\ search' = IF controls.remap THEN Search(desired, min) ELSE NoSearch
           /\ UNCHANGED <<heap, kept>>
  /\ UNCHANGED <<controls, newHeap, oldGenSize, bytesLive, copied, onDisk, base, request, majors>>

\* mremap grants a size, and may move the heap.
RemapHeap ==
  /\ phase = "remap" /\ Searching
  /\ \E a \in FreeAddresses \cup {heap.start} : heap' = NewHeap(a, search.try)
  /\ Granted
  /\ UNCHANGED <<controls, secondary, newHeap, oldGenSize, bytesLive, dataVars, phase, grow, request, majors>>

\* Without mremap, or with nothing granted, another heap is made beside what is live.
EndRemap ==
  /\ phase = "remap" /\ ~Searching
  /\ \/ search.found /\ phase' = "translate" /\ search' = NoSearch /\ UNCHANGED <<heap, kept>>
     \/ /\ ~search.found
        /\ heap' = IF grow.useCurrent THEN heap ELSE ShrinkHeap(heap, oldGenSize)
        /\ kept' = Smaller(kept, heap'.size)
        /\ phase' = "new"
        /\ search' = IF WithMaps(grow.min) <= SizeMax - heap'.withMaps
                     THEN Search(grow.desired, grow.min) ELSE NoSearch
  /\ UNCHANGED <<controls, secondary, newHeap, oldGenSize, bytesLive, copied, onDisk, base, grow, request, majors>>

CreateNew ==
  /\ phase = "new" /\ Searching
  /\ \E a \in FreeAddresses : newHeap' = NewHeap(a, search.try)
  /\ heap' = ShrinkHeap(heap, oldGenSize) /\ kept' = Smaller(kept, heap'.size)
  /\ grow' = [grow EXCEPT !.remaining = oldGenSize]
  /\ phase' = "moving" /\ search' = NoSearch
  /\ UNCHANGED <<controls, secondary, oldGenSize, bytesLive, copied, onDisk, base, request, majors>>

\* A faulty variant of CopyChunk: A chunk is given back before it is copied.
WrongCopyChunk ==
  /\ phase = "moving" /\ grow.remaining >= Chunk
  /\ LET remaining == grow.remaining - Chunk
     IN /\ grow' = [grow EXCEPT !.remaining = remaining]
        /\ copied' = grow.remaining
        /\ heap' = ShrinkHeap(heap, remaining) /\ kept' = Smaller(kept, heap'.size)
  /\ UNCHANGED <<controls, secondary, newHeap, oldGenSize, bytesLive, onDisk, base, phase, search, request, majors>>

\* The live data are copied from the end, and what was copied is given back at once.
CopyChunk ==
  /\ phase = "moving" /\ grow.remaining >= Chunk
  /\ LET remaining == grow.remaining - Chunk
     IN /\ grow' = [grow EXCEPT !.remaining = remaining]
        /\ copied' = remaining
        /\ heap' = ShrinkHeap(heap, remaining) /\ kept' = Smaller(kept, heap'.size)
  /\ UNCHANGED <<controls, secondary, newHeap, oldGenSize, bytesLive, onDisk, base, phase, search, request, majors>>

CopyLast ==
  /\ phase = "moving" /\ grow.remaining < Chunk
  /\ heap' = newHeap /\ newHeap' = NoHeap
  /\ kept' = oldGenSize /\ copied' = oldGenSize
  /\ phase' = "translate"
  /\ UNCHANGED <<controls, secondary, oldGenSize, bytesLive, onDisk, base, search, grow, request, majors>>

\* No other heap to be had: the current one is used, or written to a file and given back
\* before another is asked for.
NotCreated ==
  /\ phase = "new" /\ ~Searching
  /\ \/ grow.useCurrent /\ phase' = "translate" /\ UNCHANGED <<heap, kept, onDisk, search>>
     \/ /\ ~grow.useCurrent /\ controls.mayPageHeap
        /\ onDisk' = TRUE /\ heap' = NoHeap /\ kept' = 0
        /\ phase' = "disk" /\ search' = Search(grow.desired, grow.min)
     \/ /\ ~grow.useCurrent /\ ~controls.mayPageHeap
        /\ phase' = "died" /\ UNCHANGED <<heap, kept, onDisk, search>>
  /\ UNCHANGED <<controls, secondary, newHeap, oldGenSize, bytesLive, copied, base, grow, request, majors>>

CreateFromDisk ==
  /\ phase = "disk"
  /\ \/ /\ Searching
        /\ \E a \in FreeAddresses : heap' = NewHeap(a, search.try)
        /\ onDisk' = FALSE /\ kept' = oldGenSize
        /\ phase' = "translate"
     \/ ~Searching /\ phase' = "died" /\ UNCHANGED <<heap, onDisk, kept>>
  /\ search' = NoSearch
  /\ UNCHANGED <<controls, secondary, newHeap, oldGenSize, bytesLive, copied, base, grow, request, majors>>

\* The pointers follow a heap that has moved.
TranslateHeap ==
  /\ phase = "translate"
  /\ base' = IF grow.origStart # heap.start THEN heap.start ELSE base
  /\ grow' = NoGrow /\ phase' = "resizeSecondary"
  /\ UNCHANGED <<controls, heapVars, kept, copied, onDisk, search, request, majors>>

-----------------------------------------------------------------------------
(***************************************************************************)
(* resizeHeapSecondary, and what comes after.                              *)
(***************************************************************************)

Finished == IF request.op = "pack" THEN "pack" ELSE "mutator"

\* The secondary heap is made as large as the heap, or given back.
ResizeSecondary ==
  /\ phase = "resizeSecondary"
  /\ LET paging == 2 * heap.withMaps > controls.ram
     IN \/ /\ secondary.size > 0 /\ ~paging /\ secondary.size < heap.size
           /\ phase' = "secondaryRemap"
           /\ search' = IF controls.remap THEN Search(heap.size, heap.size) ELSE NoSearch
           /\ UNCHANGED secondary
        \/ /\ secondary.size = 0 \/ paging \/ secondary.size >= heap.size
           /\ secondary' = IF secondary.size = 0 \/ paging THEN NoHeap
                           ELSE ShrinkHeap(secondary, heap.size)
           /\ phase' = Finished /\ UNCHANGED search
  /\ UNCHANGED <<controls, heap, newHeap, oldGenSize, bytesLive, dataVars, grow, request, majors>>

RemapSecondary ==
  /\ phase = "secondaryRemap"
  /\ \/ /\ Searching
        /\ \E a \in FreeAddresses \cup {secondary.start} : secondary' = NewHeap(a, search.try)
        /\ Granted /\ UNCHANGED phase
     \/ /\ ~Searching
        /\ secondary' = IF search.found THEN secondary ELSE NoHeap
        /\ search' = NoSearch /\ phase' = Finished
  /\ UNCHANGED <<controls, heap, newHeap, oldGenSize, bytesLive, dataVars, grow, request, majors>>

\* The end of GC_pack: little more than what is live is kept.
Pack ==
  /\ phase = "pack"
  /\ LET keep == (11 * oldGenSize) \div 10
     IN heap' = IF keep <= heap.size THEN ShrinkHeap(heap, keep) ELSE heap
  /\ kept' = Smaller(kept, heap'.size)
  /\ secondary' = NoHeap /\ phase' = "mutator"
  /\ UNCHANGED <<controls, newHeap, oldGenSize, bytesLive, copied, onDisk, base, search, grow, request, majors>>

\* GC_unpack: a minor collection and a resizing for what is then live.
Unpack(live) ==
  /\ phase = "mutator" /\ majors < MaxMajors /\ majors' = majors + 1
  /\ live <= heap.size /\ oldGenSize' = live /\ kept' = live /\ copied' = live
  /\ request' = [bytes |-> 0, op |-> "unpack"] /\ phase' = "resize"
  /\ UNCHANGED <<controls, heap, secondary, newHeap, bytesLive, onDisk, base, search, grow>>

Survivors == {oldGenSize, (oldGenSize + 1) \div 2}

Collect ==
  \E more \in Allocations :
    \/ \E bytes \in Requests : MajorGC(oldGenSize + more, bytes, "collect")
    \/ MajorGC(oldGenSize + more, 0, "pack") \/ Unpack(oldGenSize + more)

Step ==
  \/ RefuseCreate \/ RefuseRemap \/ CreateInitial \/ CreateSecondary
  \/ \E hashConsDuringGC \in BOOLEAN : ChooseMajor(hashConsDuringGC)
  \/ \E live \in Survivors : Copy(live) \/ Compact(live)
  \/ ResizeHeap \/ RemapHeap \/ EndRemap \/ CreateNew \/ CopyChunk \/ CopyLast
  \/ NotCreated \/ CreateFromDisk \/ TranslateHeap
  \/ ResizeSecondary \/ RemapSecondary \/ Pack

Next == Collect \/ Step

\* The runtime runs alone: nothing keeps it from going on.
Spec == Init /\ [][Next]_vars /\ WF_vars(Step)

-----------------------------------------------------------------------------
(***************************************************************************)
(* Properties.                                                             *)
(***************************************************************************)

Heaps == {heap, secondary, newHeap} \ {NoHeap}

TypeOK ==
  /\ \A h \in Heaps :
       /\ h.start \in Addresses /\ h.size > 0 /\ h.size % Page = 0 /\ h.withMaps = WithMaps(h.size)
       /\ \A g \in Heaps : g # h => g.start # h.start
  /\ oldGenSize \in Nat /\ base \in Addresses \cup {NoAddress}

\* What the comment of invertSizeofCardMapAndCrossMap says (generational.c:190): of the
\* sizes that fit with their maps it finds the largest.
Inverts(withMaps) ==
  LET size == invertSizeofCardMapAndCrossMap(withMaps)
  IN /\ WithMaps(size) <= withMaps \/ size = 0
     /\ withMaps < WithMaps(size + Page)

\* The sizes are pages that add up: every heap has room for its maps and no more, and every
\* size a search tries is between the least it may settle for and what was desired, however
\* the bias is rounded.
SizesAddUp ==
  /\ TypeOK
  /\ phase = "init" => \A pages \in 0 .. SizeMax \div Page : Inverts(Page * pages)
  /\ Searching => search.try \in search.low .. search.high /\ search.try % Page = 0

\* Whatever memory is refused or moved, every unit of the live data is in the heap, in
\* the one being built, or in a file.
LiveDataKept ==
  phase \notin {"init", "died"} => kept >= copied \/ onDisk

\* When the mutator runs again, the heap holds what is live and has the room asked for,
\* its pointers point into it, the secondary heap is gone or as large; and a copying
\* collection never has less room than it may need.
HeapUsable ==
  /\ phase = "mutator" =>
       /\ kept = oldGenSize /\ heap.start # NoAddress /\ base = heap.start
       /\ request.bytes + oldGenSize <= heap.size
       /\ newHeap = NoHeap /\ ~onDisk
       /\ secondary = NoHeap \/ secondary.size = heap.size
  /\ phase = "copy" => secondary.size >= oldGenSize

\* Sizes add up, and the mutator gets what it asked for.
SizesOk == SizesAddUp /\ HeapUsable

\* Whatever the operating system answers, the searches and the copying come to an end: the
\* mutator runs again or the program has died.
Resumes == []<>(phase \in {"mutator", "died"})
=============================================================================
