--------------------------- MODULE MCGenerational ---------------------------
(* Instances of Generational and Regions for TLC: mutators and functions.    *)
EXTENDS Generational

TwoStarts == {0, 100}
StackRegister == -3
Registers2 == {-1, -2, -3}

MCNode == [header |-> Header("normal", 0, 1), length |-> 0, cell |-> -2]
MCArray(n) == [header |-> Header("sequence", 0, 1), length |-> n, cell |-> -1]
MCWeak == [header |-> WeakHeader, length |-> 0, cell |-> -1]

\* A mutator with small arrays, one with large ones beside the nursery, one with weak
\* objects, and one with a stack.
Mutators ==
  {[shapes |-> {MCNode, MCArray(1)}, reserved |-> 0], [shapes |-> {MCNode, MCArray(2)}, reserved |-> 0],
   [shapes |-> {MCNode, MCWeak}, reserved |-> 0], [shapes |-> {MCNode, MCArray(0)}, reserved |-> 4]}

Static == {201}

MCShrink(used, reserved, current) == used + (reserved - used) \div 2

-----------------------------------------------------------------------------
\* The functions to compile for Regions: their blocks, and how a block of a function with
\* n blocks may end; no block goes back to the first.
NoHandler == 0
transfer(kind, labels, handler) == [kind |-> kind, labels |-> labels, handler |-> handler]
block(statements, t) == [statements |-> statements, transfer |-> t]

Transfers(n) ==
  {transfer(kind, <<>>, NoHandler) : kind \in {"return", "raise", "tail"}}
  \cup {transfer("goto", <<i>>, NoHandler) : i \in 2 .. n}
  \cup {transfer("goto", <<i, j>>, NoHandler) : i \in 2 .. n, j \in 2 .. n}
  \cup {transfer("call", <<i>>, h) : i \in 2 .. n, h \in {NoHandler} \cup 2 .. n}

PlainBlocks(n) == {block(s, t) : s \in {<<>>, <<"alloc">>}, t \in Transfers(n)}
ExclaveBlocks == {block(<<"pop", "alloc", "push">>, transfer("return", <<>>, NoHandler))}

\* A handler, which takes an exception, is not the target of anything else.
Bodies(n) ==
  {blocks \in [1 .. n -> PlainBlocks(n) \cup ExclaveBlocks] :
     \A i, j \in 1 .. n :
       blocks[i].transfer.handler \notin ToSet(blocks[j].transfer.labels)}

Asked(blocks, returnsStack, removes, inlined) ==
  [blocks : blocks, returnsStack : returnsStack, removes : removes, inlined : inlined]

\* Three blocks, as the default passes and without removeRegions; two blocks, also with
\* calls that return what they have allocated and with the pops of the C runtime.
AnyFunction ==
  Asked(Bodies(3), {FALSE}, BOOLEAN, {TRUE}) \cup Asked(Bodies(2), BOOLEAN, BOOLEAN, BOOLEAN)

\* The two parts share no variable, so that nothing is lost if one of them rests in an
\* initial state while the other moves: the states are the sum of the two, not the
\* product.
VARIABLES part, source, fn, rPhase, region, rScan, frames, rMem, base, top

regionVars == <<source, fn, rPhase, region, rScan, frames, rMem, base, top>>

Stacks == INSTANCE Regions WITH
  Functions <- AnyFunction, MaxFrames <- 3, Buffer <- 10,
  phase <- rPhase, scan <- rScan, mem <- rMem

Simple == LET return == block(<<>>, transfer("return", <<>>, NoHandler))
          IN [blocks |-> <<return, return>>, returnsStack |-> FALSE, removes |-> TRUE,
              inlined |-> TRUE]

MCInit ==
  /\ part \in {"heap", "regions"}
  /\ Init /\ (part = "regions" => program.reserved > 0)
  /\ (part = "heap" => fn = Simple /\ base = 0) /\ Stacks!Init

\* The function has returned, and calls may go on for ever; a mutator always can go on.
Returned == part = "regions" /\ UNCHANGED <<part, vars, regionVars>>

MCNext ==
  /\ UNCHANGED part
  /\ \/ part = "heap" /\ Next /\ UNCHANGED regionVars
     \/ part = "regions" /\ Stacks!Next /\ UNCHANGED vars
     \/ Returned
MCSpec == MCInit /\ [][MCNext]_<<part, vars, regionVars>>

\* Regions' RegionsOk: every function leaves its caller's region as it found it.
RegionsOk == part = "regions" => Stacks!RegionsOk
=============================================================================
