----------------------------- MODULE Finalizable -----------------------------
(***************************************************************************)
(* Finalizable values (basis-library/mlton/finalizable.sml): the list of   *)
(* finalizers, cleaned by the handler of the GC signal and by the exit of  *)
(* the program, the weak pointers that say what may be finalized, and the  *)
(* values that "touch" keeps alive from finalizeBefore.                    *)
(*                                                                         *)
(* The heap is which values can be reached from which.  A collection       *)
(* clears the weak pointers of some values that cannot be reached, and of  *)
(* all of them when it is asked for.  A finalizer is any code: it may take *)
(* hold of values, order others and, as the constants say, raise an        *)
(* exception or make values.                                               *)
(***************************************************************************)
EXTENDS Integers, SequencesExt, FiniteSets

CONSTANTS MaxValues,  \* bound on the values made, which are numbered
          MaxAfters,  \* bound on what values are finalized before
          Raising,    \* finalizers may raise
          Making      \* finalizers may make finalizable values

Values == 1 .. MaxValues   \* 'a t
Nobody == 0

\* The values can be numbered.
ValuesNumbered == MaxValues \in Nat

VARIABLES
  made,       \* the values made
  contents,   \* contents[v]: the values that v was made with
  afters,     \* afters[v]: the values that v is to be finalized before
  alive,      \* the values whose weak pointer is not cleared
  held,       \* the values in the program's variables
  r,          \* the list of finalizers; one stands for its value
  loops,      \* the fold of `clean`, in the GC handler and at exit
  status,     \* "running", "exiting" or "exited"
  signals,    \* pending: a GC signal; inHandler: the signal handler thread runs
  history     \* of each value, how often it has been finalized to the end or begun to be;
              \* whether a finalizer has raised

vars == <<made, contents, afters, alive, held, r, loops, status, signals, history>>
heapVars == <<made, contents, afters, held>>

Off == [at |-> "off", todo |-> <<>>, kept |-> <<>>, gotOne |-> FALSE, value |-> Nobody,
        touches |-> {}]

Init ==
  /\ made = {} /\ alive = {} /\ held = {}
  /\ contents = [v \in Values |-> {}] /\ afters = [v \in Values |-> {}]
  /\ r = <<>> /\ loops = [handler |-> Off, exit |-> Off]
  /\ status = "running"
  /\ signals = [pending |-> FALSE, inHandler |-> FALSE]
  /\ history = [begun |-> [v \in Values |-> 0], done |-> [v \in Values |-> 0], raised |-> FALSE]

-----------------------------------------------------------------------------
(* What can be reached.                                                    *)

\* A faulty variant of Entry: afters hold nothing: touch is optimized away.
WrongEntry(v) == contents[v]

\* What an entry of a list of finalizers refers to: not the `value` that its weak pointer
\* watches, but what is in it and what its afters touch.
Entry(v) == contents[v] \cup afters[v]

\* The sets that contain `from` and whatever their members refer to, and the least of them.
Closed(from) == {X \in SUBSET made : from \subseteq X /\ \A v \in X : Entry(v) \subseteq X}
Reachable(from) == {v \in made : \A X \in Closed(from) : v \in X}

LoopRoots(l) ==
  (UNION {Entry(v) : v \in ToSet(l.todo) \cup ToSet(l.kept)})
  \cup l.touches \cup (IF l.at = "finalizer" THEN Entry(l.value) ELSE {})

Roots == held \cup (UNION {Entry(v) : v \in ToSet(r)})
         \cup LoopRoots(loops.handler) \cup LoopRoots(loops.exit)

\* A collection: the weak pointers of everything outside X are cleared.
Clear(X) ==
  /\ alive' = alive \cap X
  /\ signals' = [signals EXCEPT !.pending = @ \/ ~signals.inHandler]

\* Collections may keep what is in the old generation, and what that refers to.
Collect ==
  /\ status # "exited"
  /\ \E X \in Closed(Roots) : Clear(X)
  /\ UNCHANGED <<heapVars, r, loops, status, history>>

-----------------------------------------------------------------------------
(* User code: the program, or a finalizer, which has its value in hand.    *)

Active == IF loops.handler.at # "off" THEN "handler" ELSE "exit"
Loop == loops[Active]

UserCode == Loop.at = "finalizer" \/ (status = "running" /\ Loop.at = "off")
InHand == Reachable(held \cup IF Loop.at = "finalizer" THEN contents[Loop.value] ELSE {})

\* new, of something that contains the values in c, and addFinalizer: each value has one.
New(v, c) ==
  /\ UserCode /\ v = Cardinality(made) + 1 /\ c \subseteq InHand
  /\ Loop.at = "finalizer" => Making
  /\ made' = made \cup {v} /\ alive' = alive \cup {v} /\ held' = held \cup {v}
  /\ contents' = [contents EXCEPT ![v] = c]
  /\ r' = <<v>> \o r
  /\ UNCHANGED <<afters, loops, status, signals, history>>

FinalizeBefore(v, w) ==
  /\ UserCode /\ {v, w} \subseteq InHand /\ w \notin afters[v]
  /\ Cardinality({p \in Values \X Values : p[2] \in afters[p[1]]}) < MaxAfters
  /\ afters' = [afters EXCEPT ![v] = @ \cup {w}]
  /\ UNCHANGED <<made, contents, alive, held, r, loops, status, signals, history>>

\* The variables of the program change.
Keep(v) ==
  /\ UserCode /\ v \in InHand \ held /\ held' = held \cup {v}
  /\ UNCHANGED <<made, contents, afters, alive, r, loops, status, signals, history>>

Drop(v) ==
  /\ UserCode /\ v \in held /\ held' = held \ {v}
  /\ UNCHANGED <<made, contents, afters, alive, r, loops, status, signals, history>>

-----------------------------------------------------------------------------
(* clean: fold over a list; what is alive is kept, in reverse order, the   *)
(* rest is finalized.                                                      *)

Clean(l) == [Off EXCEPT !.at = "next", !.todo = l]

\* "MLtonSignal.handleGC (fn () => r := #2 (clean (!r)))", in the signal handler.
StartHandler ==
  /\ signals.pending /\ ~signals.inHandler /\ status # "exited"
  /\ signals' = [pending |-> FALSE, inHandler |-> TRUE]
  /\ loops' = [loops EXCEPT !.handler = Clean(r)]
  /\ UNCHANGED <<heapVars, alive, r, status, history>>

CleanNext ==
  /\ Loop.at = "next" /\ Loop.todo # <<>>
  /\ LET v == Head(Loop.todo)
         next == [Loop EXCEPT !.todo = Tail(@)]
     IN IF v \in alive
        THEN /\ loops' = [loops EXCEPT ![Active] = [next EXCEPT !.kept = <<v>> \o @]]
             /\ UNCHANGED history
        ELSE /\ loops' = [loops EXCEPT ![Active] =
                            [next EXCEPT !.gotOne = TRUE, !.value = v, !.at = "finalizer"]]
             /\ history' = [history EXCEPT !.begun[v] = @ + 1]
  /\ UNCHANGED <<heapVars, alive, r, status, signals>>

\* The finalizers have run; the afters of the value are called, in any order,
FinalizersReturn ==
  /\ Loop.at = "finalizer"
  /\ loops' = [loops EXCEPT ![Active] =
                 [@ EXCEPT !.at = "afters", !.touches = afters[Loop.value]]]
  /\ UNCHANGED <<heapVars, alive, r, status, signals, history>>

Touch(v) ==
  /\ Loop.at = "afters" /\ v \in Loop.touches
  /\ loops' = [loops EXCEPT ![Active].touches = @ \ {v}]
  /\ UNCHANGED <<heapVars, alive, r, status, signals, history>>

\* and the fold goes on without it.
Cleaned ==
  /\ Loop.at = "afters" /\ Loop.touches = {}
  /\ loops' = [loops EXCEPT ![Active] = [@ EXCEPT !.at = "next", !.value = Nobody]]
  /\ history' = [history EXCEPT !.done[Loop.value] = @ + 1]
  /\ UNCHANGED <<heapVars, alive, r, status, signals>>

EndHandler ==
  /\ loops.handler.at = "next" /\ loops.handler.todo = <<>>
  /\ r' = loops.handler.kept
  /\ loops' = [loops EXCEPT !.handler = Off]
  /\ signals' = [signals EXCEPT !.inHandler = FALSE]
  /\ UNCHANGED <<heapVars, alive, status, history>>

\* A faulty variant of CleanAtExit: The list stays where the GC handler finds it.
WrongCleanAtExit ==
  /\ status' = "exiting" /\ r' = r
  /\ loops' = [handler |-> Off, exit |-> [Clean(r) EXCEPT !.at = "collect"]]

\* The cleaner of exit: "Must clear r so that the handler doesn't interfere".
CleanAtExit ==
  /\ status' = "exiting" /\ r' = <<>>
  /\ loops' = [handler |-> Off, exit |-> [Clean(r) EXCEPT !.at = "collect"]]

Exit ==
  /\ status = "running" /\ Loop.at = "off"
  /\ CleanAtExit
  /\ UNCHANGED <<heapVars, alive, signals, history>>

\* MLtonGC.collect, a full collection, before each round,
CollectAtExit ==
  /\ Active = "exit" /\ Loop.at = "collect"
  /\ Clear(Reachable(Roots))
  /\ loops' = [loops EXCEPT !.exit.at = "next"]
  /\ UNCHANGED <<heapVars, r, status, history>>

\* and another round as long as one has finalized something.
EndRound ==
  /\ Active = "exit" /\ Loop.at = "next" /\ Loop.todo = <<>>
  /\ IF Loop.gotOne
     THEN /\ loops' = [loops EXCEPT !.exit = [Clean(Loop.kept) EXCEPT !.at = "collect"]]
          /\ UNCHANGED status
     ELSE status' = "exited" /\ UNCHANGED loops
  /\ UNCHANGED <<heapVars, alive, r, signals, history>>

\* A finalizer raises an exception.  In the GC handler the top-level handler exits, in the
\* thread of the signal handler; but exit, called while the program exits, raises itself,
\* and the program halts.  At exit, Cleaner.clean drops the exception and the rest of the
\* list.
FinalizerRaises ==
  /\ Raising /\ Loop.at = "finalizer"
  /\ history' = [history EXCEPT !.raised = TRUE]
  /\ IF Active = "handler" /\ status = "running" THEN CleanAtExit
     ELSE status' = "exited" /\ loops' = [handler |-> Off, exit |-> Off] /\ UNCHANGED r
  /\ UNCHANGED <<heapVars, alive, signals>>

-----------------------------------------------------------------------------
User ==
  \/ \E v \in Values, c \in SUBSET made : New(v, c)
  \/ \E v \in Values : Keep(v) \/ Drop(v)
  \/ \E v, w \in Values : FinalizeBefore(v, w)
  \/ Exit \/ FinalizerRaises

Library ==
  \/ StartHandler \/ CleanNext \/ FinalizersReturn \/ Cleaned \/ EndHandler
  \/ CollectAtExit \/ EndRound
  \/ \E v \in Values : Touch(v)

Next == Collect \/ User \/ Library

Spec == Init /\ [][Next]_vars

-----------------------------------------------------------------------------
(* Properties.                                                             *)

LoopType == [at : {"off", "collect", "next", "finalizer", "afters"}, todo : Seq(Values),
             kept : Seq(Values), gotOne : BOOLEAN, value : Values \cup {Nobody},
             touches : SUBSET Values]

TypeOK ==
  /\ made \subseteq Values /\ alive \subseteq made /\ held \subseteq made
  /\ contents \in [Values -> SUBSET Values] /\ afters \in [Values -> SUBSET Values]
  /\ r \in Seq(Values) /\ loops \in [handler : LoopType, exit : LoopType]
  /\ status \in {"running", "exiting", "exited"}
  /\ signals \in [pending : BOOLEAN, inHandler : BOOLEAN]
  /\ history \in [begun : [Values -> Nat], done : [Values -> Nat], raised : BOOLEAN]

\* Who can still be reached is not finalized: the weak pointer of a value is cleared only
\* when neither the program nor an entry that has it in its contents or its afters needs it.
ReachedIsAlive == Reachable(Roots) \subseteq alive

\* No value is finalized twice, although the list is read, cleaned and written back with
\* collections and further cleanings in between.  After an exception in the GC handler the
\* exit starts from the old list, and may repeat what the handler has done, once.
FinalizedOnce ==
  \A v \in Values : history.begun[v] <= IF history.raised THEN 2 ELSE 1

\* The doc of addFinalizer: "sometime after ... `v` becomes unreachable, `f` will be called
\* with the value of `v`".  A value that is not finalized is in one of the lists.
Listed == ToSet(r) \cup UNION {ToSet(l.todo) \cup ToSet(l.kept) \cup {l.value} :
                                 l \in {loops.handler, loops.exit}}

NobodyForgotten ==
  status # "exited" => \A v \in made : history.done[v] = 0 => v \in Listed

\* Which values keep each other from being finalized.
Waits(v) == Reachable(Entry(v))

\* A program that exits by itself leaves no value behind but those that its variables still
\* reach and those that a cycle of contents and finalizeBefore keeps alive.
LeftAtExit ==
  status = "exited" /\ ~history.raised =>
    \A v \in made : history.done[v] = 0 =>
      v \in Reachable(held) \/ \E w \in made : history.done[w] = 0 /\ w \in Waits(w) /\ v \in {w} \cup Waits(w)

\* What the list of finalizers and its two cleaners owe to the values in it.
FinalizersOk == TypeOK /\ ReachedIsAlive /\ FinalizedOnce /\ NobodyForgotten /\ LeftAtExit

\* finalizeBefore (v, w) "ensures that v will be finalized before w": the finalizers of w do
\* not start before those of v have ended, whoever finalizes them and however often
\* finalizers make each other's values reachable again.
FinalizeInOrder ==
  [][\A v, w \in Values :
       history'.begun[w] # history.begun[w] /\ w \in afters[v] => history.done[v] > 0]_vars
=============================================================================
