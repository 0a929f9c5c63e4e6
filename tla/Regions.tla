------------------------------- MODULE Regions -------------------------------
(***************************************************************************)
(* Stack allocation in regions: the pass that makes a function push a      *)
(* region when it starts and pop it where it ends (mlton/ssa/regions.fun), *)
(* the pass that takes regions out again (mlton/ssa/remove-regions.fun),   *)
(* and what the function does to the stack of regions when it runs         *)
(* (runtime/gc/regions.c, and the code inlined for it by                   *)
(* backend/ssa2-to-rssa.fun and backend/machine.fun).                      *)
(*                                                                         *)
(* A function is its blocks.  Of its statements only those that allocate   *)
(* on the stack and those that push and pop regions are left; an exclave   *)
(* of the source is a pop, what is allocated or called, and a push         *)
(* (defunctorize.fun).  Every call is a call of the function itself, so    *)
(* that what it does to its caller's region can be seen.                   *)
(***************************************************************************)
EXTENDS Integers, Sequences, SequencesExt, FiniteSets

CONSTANTS Functions,   \* the functions to compile: [blocks, returnsStack, removes, inlined]
          MaxFrames,   \* bound on nested calls
          Buffer       \* bound on the words of the region buffer that a run may use

VARIABLES
  source,    \* the function as it was written (history)
  fn,        \* the function, as the passes have left it so far
  phase,     \* "propagate", "insert", "find" or "run"; "wild" after a bad pop
  region,    \* entry, exit: the blocks that are entered and left with the region pushed
  scan,      \* the traversal of removeRegions
  frames,    \* the calls of the function that are active
  mem, base, top  \* the region buffer, regionBase and regionTop

vars == <<source, fn, phase, region, scan, frames, mem, base, top>>
runVars == <<frames, mem, base, top>>

Start == 1
Blocks == DOMAIN fn.blocks
Statements(i) == fn.blocks[i].statements
Transfer(i) == fn.blocks[i].transfer
None == 0
Object == -1

\* Transfer.foreachLabel.
Labels(i) == Transfer(i).labels \o IF Transfer(i).handler = None THEN <<>> ELSE <<Transfer(i).handler>>
Has(i, prim) == prim \in ToSet(Statements(i))
Leaves(i) == Transfer(i).kind \in {"return", "raise", "tail"}

HasStackAlloc ==
  \E i \in Blocks : Has(i, "alloc") \/ (Transfer(i).kind \in {"call", "tail"} /\ fn.returnsStack)

Init ==
  /\ fn \in Functions /\ source = fn
  /\ phase = IF HasStackAlloc THEN "propagate" ELSE "find"
  /\ region = [entry |-> {Start}, exit |-> {}]
  /\ scan = [todo |-> <<Start>>, seen |-> {}, stack |-> <<>>, regions |-> <<>>, inCaller |-> FALSE,
             allocatesInCaller |-> FALSE, allocates |-> \E i \in Blocks : Has(i, "alloc")]
  \* The caller has an object (word 1) in its own region, or in the bottom one.
  /\ frames = <<>> /\ top = 2 /\ base \in {0, 1}
  /\ mem = [a \in 0 .. Buffer - 1 |-> IF a = 0 /\ base = 1 THEN 0 ELSE Object]

-----------------------------------------------------------------------------
(* regions.fun, transformFunction.                                         *)

\* One sweep of propagate over the blocks, in their order.
Sweep ==
  FoldLeft(LAMBDA acc, i :
             LET entered == i = Start \/ \E p \in acc.exit : i \in ToSet(Labels(p))
             IN [entry |-> IF entered THEN acc.entry \cup {i} ELSE acc.entry \ {i},
                 exit |-> IF entered /\ ~Has(i, "pop") THEN acc.exit \cup {i} ELSE acc.exit \ {i}],
           region, [i \in Blocks |-> i])

Propagate ==
  /\ phase = "propagate"
  /\ region' = Sweep
  /\ phase' = IF Sweep = region THEN "insert" ELSE phase
  /\ UNCHANGED <<source, fn, scan, runVars>>

HandlerNeedsPop(j) ==
  ~Has(j, "pop") /\ \E i \in region.exit : Transfer(i).kind = "call" /\ Transfer(i).handler = j

\* A faulty variant of NeedsPopAtExit: Tail calls are forgotten.
WrongNeedsPopAtExit(i) ==
  LET enterStart == Start \in ToSet(Labels(i))
  IN \/ i \in region.exit /\ ((Leaves(i) /\ Transfer(i).kind # "tail") \/ enterStart)
     \/ enterStart /\ ~Has(i, "pop")

NeedsPopAtExit(i) ==
  LET enterStart == Start \in ToSet(Labels(i))
  IN \/ i \in region.exit /\ (Leaves(i) \/ enterStart)
     \/ enterStart /\ ~Has(i, "pop")

When(condition, prim) == IF condition THEN <<prim>> ELSE <<>>

Insert ==
  /\ phase = "insert" /\ phase' = "find"
  /\ fn' = [fn EXCEPT !.blocks = [i \in Blocks |->
       [@[i] EXCEPT !.statements = When(i = Start /\ ~Has(i, "push"), "push")
                                   \o When(HandlerNeedsPop(i), "pop") \o @
                                   \o When(NeedsPopAtExit(i), "pop")]]]
  /\ UNCHANGED <<source, region, scan, runVars>>

NewFrame == [block |-> Start, next |-> 1, base |-> base, top |-> top]

-----------------------------------------------------------------------------
(* remove-regions.fun, transformFunction.  A region is known by the place  *)
(* of its push; a stack of them is kept for each block.                    *)

\* processStatement, at its place, with the regions pushed so far, the last one first.
Marked(s) ==
  IF s.stack = <<>> THEN [s EXCEPT !.inCaller = TRUE]
  ELSE [s EXCEPT !.regions = [p \in DOMAIN @ |->
                                IF p \in ToSet(s.stack) THEN [@[p] EXCEPT !.hasStackAlloc = TRUE] ELSE @[p]]]

NewRegion == [hasStackAlloc |-> FALSE, pops |-> {}]

Statement(s, prim, place) ==
  CASE prim = "push" -> [s EXCEPT !.stack = <<place>> \o @,
                                  !.regions = [p \in DOMAIN @ \cup {place} |->
                                                 IF p \in DOMAIN @ THEN @[p] ELSE NewRegion]]
    [] prim = "pop" /\ s.stack # <<>> ->
         [s EXCEPT !.stack = Tail(@), !.regions[Head(s.stack)].pops = @ \cup {place}]
    [] prim = "alloc" -> Marked(s)
    [] OTHER -> s

Block(s, i) ==
  LET end == FoldLeft(LAMBDA acc, n : Statement(acc, Statements(i)[n], <<i, n>>), s,
                      [n \in DOMAIN Statements(i) |-> n])
  IN IF Transfer(i).kind \in {"call", "tail"} /\ (scan.allocates \/ scan.allocatesInCaller)
     THEN Marked(end) ELSE end

\* The successors of a block get its stack, unless they have one that is as short.
Successors(stacks, i, stack) ==
  FoldLeft(LAMBDA acc, j :
             IF j \in DOMAIN acc /\ Len(stack) >= Len(acc[j]) THEN acc
             ELSE [k \in DOMAIN acc \cup {j} |-> IF k = j THEN stack ELSE acc[k]],
           stacks, Labels(i))

Visit ==
  /\ phase = "find" /\ fn.removes /\ scan.todo # <<>>
  /\ LET i == Head(scan.todo)
         known == IF i \in DOMAIN scan.stack THEN scan.stack[i] ELSE <<>>
         end == Block([stack |-> known, regions |-> scan.regions, inCaller |-> scan.inCaller], i)
     IN scan' = IF i \in scan.seen THEN [scan EXCEPT !.todo = Tail(@)]
                ELSE [scan EXCEPT !.todo = Labels(i) \o Tail(@), !.seen = @ \cup {i},
                                  !.stack = Successors(@, i, end.stack),
                                  !.regions = end.regions, !.inCaller = end.inCaller]
  /\ UNCHANGED <<source, fn, phase, region, runVars>>

\* The pushes and pops of the regions nothing is allocated in go; and everything is done
\* once more, taking calls for allocations, if the
\* function turns out to allocate in its caller's region.
Removed == UNION {{p} \cup scan.regions[p].pops :
                    p \in {q \in DOMAIN scan.regions : ~scan.regions[q].hasStackAlloc}}

Kept(i) ==
  LET places == SelectSeq([n \in DOMAIN Statements(i) |-> n], LAMBDA n : <<i, n>> \notin Removed)
  IN [n \in DOMAIN places |-> Statements(i)[places[n]]]

RemoveRegions ==
  /\ phase = "find" /\ fn.removes /\ scan.todo = <<>>
  /\ fn' = [fn EXCEPT !.blocks = [i \in Blocks |-> [@[i] EXCEPT !.statements = Kept(i)]]]
  /\ LET again == scan.inCaller /\ ~scan.allocatesInCaller
     IN /\ phase' = IF again THEN "find" ELSE "run"
        /\ scan' = [scan EXCEPT !.todo = <<Start>>, !.seen = {}, !.stack = <<>>, !.regions = <<>>,
                                !.inCaller = FALSE, !.allocatesInCaller = @ \/ again]
        /\ frames' = IF again THEN frames
                     ELSE <<NewFrame>>
  /\ UNCHANGED <<source, region, mem, base, top>>

\* The pass is left out ("-drop-pass removeRegions").
DropPass ==
  /\ phase = "find" /\ ~fn.removes /\ phase' = "run"
  /\ frames' = <<NewFrame>>
  /\ UNCHANGED <<source, fn, region, scan, mem, base, top>>

-----------------------------------------------------------------------------
(* The function runs.  A word of the buffer is an object or the base that  *)
(* a push has saved.                                                       *)

Frame == Last(frames)
Running == phase = "run" /\ frames # <<>> /\ top < Buffer
AtEnd == Running /\ Frame.next > Len(Statements(Frame.block))
At(prim) == Running /\ ~AtEnd /\ Statements(Frame.block)[Frame.next] = prim

Advance == frames' = [frames EXCEPT ![Len(frames)].next = @ + 1]
To(stack, i) == frames' = [stack EXCEPT ![Len(stack)].block = i, ![Len(stack)].next = 1]

\* GC_regionPush, and the code inlined for it.
RegionPush ==
  /\ At("push") /\ Advance
  /\ mem' = [mem EXCEPT ![top] = base]
  /\ base' = top + 1 /\ top' = top + 1
  /\ UNCHANGED <<source, fn, phase, region, scan>>

\* The code inlined for a pop goes by the word before the base, also where there is none;
\* GC_regionPop looks for the end of the stack first.
RegionPop ==
  /\ At("pop") /\ Advance
  /\ IF ~fn.inlined /\ (top = 0 \/ base = 0)
     THEN top' = 0 /\ UNCHANGED <<base, phase>>
     ELSE IF base > 0 /\ mem[base - 1] # Object
     THEN top' = base - 1 /\ base' = mem[base - 1] /\ UNCHANGED phase
     ELSE phase' = "wild" /\ UNCHANGED <<base, top>>
  /\ UNCHANGED <<source, fn, region, scan, mem>>

\* stackObject.
Allocate ==
  /\ At("alloc") /\ Advance
  /\ mem' = [mem EXCEPT ![top] = Object] /\ top' = top + 1
  /\ UNCHANGED <<source, fn, phase, region, scan, base>>

Goto(i) ==
  /\ AtEnd /\ Transfer(Frame.block).kind = "goto" /\ i \in ToSet(Transfer(Frame.block).labels)
  /\ To(frames, i)
  /\ UNCHANGED <<source, fn, phase, region, scan, mem, base, top>>

Call ==
  /\ AtEnd /\ Transfer(Frame.block).kind = "call" /\ Len(frames) < MaxFrames
  /\ frames' = Append(frames, NewFrame)
  /\ UNCHANGED <<source, fn, phase, region, scan, mem, base, top>>

TailCall ==
  /\ AtEnd /\ Transfer(Frame.block).kind = "tail"
  /\ frames' = Append(Front(frames), NewFrame)
  /\ UNCHANGED <<source, fn, phase, region, scan, mem, base, top>>

\* Return goes on after the call; the outermost one ends the run.
Return ==
  /\ AtEnd /\ Transfer(Frame.block).kind = "return"
  /\ IF Len(frames) = 1 THEN frames' = <<>>
     ELSE To(Front(frames), Transfer(frames[Len(frames) - 1].block).labels[1])
  /\ UNCHANGED <<source, fn, phase, region, scan, mem, base, top>>

\* An exception goes to the handler of the call that is nearest and has one.
Raise ==
  /\ AtEnd /\ Transfer(Frame.block).kind = "raise"
  /\ LET handling == {n \in 1 .. Len(frames) - 1 : Transfer(frames[n].block).handler # None}
     IN IF handling = {} THEN frames' = <<>>
        ELSE \E n \in handling :
               /\ \A m \in handling : m <= n
               /\ To(SubSeq(frames, 1, n), Transfer(frames[n].block).handler)
  /\ UNCHANGED <<source, fn, phase, region, scan, mem, base, top>>

Compile == Propagate \/ Insert \/ Visit \/ RemoveRegions \/ DropPass

Run == \/ RegionPush \/ RegionPop \/ Allocate \/ Call \/ TailCall \/ Return \/ Raise
       \/ \E i \in Blocks : Goto(i)

Next == Compile \/ Run
Spec == Init /\ [][Next]_vars

-----------------------------------------------------------------------------
(* Properties.                                                             *)

TypeOK ==
  /\ phase \in {"propagate", "insert", "find", "run", "wild"}
  /\ region.entry \subseteq Blocks /\ region.exit \subseteq Blocks
  /\ \A i \in Blocks : ToSet(Statements(i)) \subseteq {"alloc", "push", "pop"}
  /\ frames \in Seq([block : Blocks, next : Nat, base : Nat, top : Nat])
  /\ mem \in [0 .. Buffer - 1 -> Object .. Buffer] /\ base \in 0 .. Buffer /\ top \in 0 .. Buffer

Exclaves(i) == ToSet(source.blocks[i].statements) \cap {"push", "pop"} # {}
RaisesAndHandles == /\ \E i \in Blocks : Transfer(i).kind = "raise"
                    /\ \E i \in Blocks : Transfer(i).handler # None

\* "popping the region before evaluating in the caller's frame and then restoring the
\* current region": the objects of the callers stay where they are, and below the top.
CallerKept ==
  phase # "wild" /\ mem[1] = Object /\ \A n \in DOMAIN frames : top >= frames[n].top

\* Where a function ends by itself, after whatever path and calls, the region its caller
\* was in is the current one, and nothing of its own is left.
RegionsRestored ==
  AtEnd /\ Leaves(Frame.block) => base = Frame.base /\ top = Frame.top

\* Unless an exception is raised and handled, no path of a function touches its callers'
\* objects, if the function does not start in an exclave; without exclaves the regions
\* balance too.
RegionsOk ==
  /\ TypeOK
  /\ ~RaisesAndHandles /\ ~Exclaves(Start) => CallerKept
  /\ ~RaisesAndHandles /\ (\A i \in Blocks : ~Exclaves(i)) => RegionsRestored
=============================================================================
