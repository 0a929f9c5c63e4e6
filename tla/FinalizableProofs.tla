-------------------------- MODULE FinalizableProofs --------------------------
(***************************************************************************)
(* Finalizers run once, in order, for what nobody needs, and for all of    *)
(* that, for any number of values and any graph of them, if finalizers do  *)
(* not make finalizable values.                                            *)
(***************************************************************************)
EXTENDS Finalizable, FiniteSetTheorems, SequenceTheorems, WellFoundedInduction, TLAPS

(***************************************************************************)
(* The inductive invariant.                                                *)
(***************************************************************************)
AfterGC == loops.handler
AtExit == loops.exit

\* Values are numbered as they are made, and refer to values that are made.
GraphOk ==
  /\ made = 1 .. Cardinality(made)
  /\ \A v \in Values : Entry(v) \subseteq made
  /\ \A v \in Values \ made :
       Entry(v) = {} /\ history.begun[v] = 0 /\ history.done[v] = 0

\* What a fold has in hand depends on where it is.
LoopOk(l) ==
  /\ l.at = "off" => l = Off
  /\ l.at \in {"collect", "next"} => l.value = Nobody /\ l.touches = {}
  /\ l.at = "collect" => l.kept = <<>>
  /\ l.at \in {"finalizer", "afters"} => l.value \in made /\ l.gotOne
  /\ ToSet(l.todo) \cup ToSet(l.kept) \cup l.touches \subseteq made

\* Who cleans when: the GC handler finds an empty list once the program exits.
StatusOk ==
  /\ LoopOk(AfterGC) /\ LoopOk(AtExit)
  /\ ToSet(r) \subseteq made
  /\ AfterGC.at # "off" => signals.inHandler
  /\ AfterGC.at # "collect"
  /\ status = "running" => AtExit = Off /\ ~history.raised
  /\ status # "running" => r = <<>> /\ AfterGC.todo = <<>> /\ AfterGC.kept = <<>>
                           /\ AfterGC.at \in {"off", "next"}
  /\ status = "exited" =>
       /\ AfterGC.at = "off"
       /\ AtExit.at \in {"off", "next"} /\ AtExit.todo = <<>> /\ ~AtExit.gotOne

\* A value that is not finalized is in the list that will be cleaned, and in the one
\* that is being cleaned.
LoopValues(l) == ToSet(l.todo) \cup ToSet(l.kept) \cup {l.value}

ListedOk ==
  \A v \in made : history.done[v] = 0 =>
    /\ status = "running" => v \in ToSet(r) /\ (AfterGC.at # "off" => v \in LoopValues(AfterGC))
    /\ status = "exiting" => v \in LoopValues(AtExit)

\* Each value is in a list once.  The finalizers of those in a list that is being cleaned have
\* not begun, or begun once if the list was left behind by an exception.
Once(q) == \A i, j \in DOMAIN q : q[i] = q[j] => i = j

Repeats == IF history.raised THEN 1 ELSE 0

LoopOnce(l) ==
  /\ Once(l.todo) /\ Once(l.kept) /\ ToSet(l.todo) \cap ToSet(l.kept) = {}
  /\ l.value \notin ToSet(l.todo) \cup ToSet(l.kept)
  /\ \A v \in ToSet(l.todo) \cup ToSet(l.kept) : history.begun[v] <= Repeats
  /\ l.at \in {"finalizer", "afters"} => history.done[l.value] < history.begun[l.value]

OnceOk ==
  /\ LoopOnce(AfterGC) /\ LoopOnce(AtExit) /\ Once(r)
  /\ \A v \in ToSet(r) : history.begun[v] <= IF AfterGC.at = "off" THEN 0 ELSE 1
  /\ \A v \in Values : history.done[v] <= history.begun[v] /\ history.begun[v] <= 1 + Repeats

\* In a round of the exit that has finalized nothing yet, what is alive can be reached.
RoundOk ==
  status = "exiting" /\ AtExit.at = "next" /\ ~AtExit.gotOne =>
    alive \subseteq Reachable(Roots) /\ ToSet(AtExit.kept) \subseteq alive

FinInv ==
  /\ TypeOK /\ GraphOk /\ StatusOk /\ ListedOk /\ OnceOk /\ RoundOk
  /\ ReachedIsAlive /\ LeftAtExit

-----------------------------------------------------------------------------
(***************************************************************************)
(* Lists.                                                                  *)
(***************************************************************************)
LEMMA NilFacts == ToSet(<<>>) = {} /\ Once(<<>>)
BY DEF ToSet, Once

LEMMA ConsFacts ==
  ASSUME NEW S, NEW v \in S, NEW q \in Seq(S)
  PROVE  /\ <<v>> \o q \in Seq(S) /\ ToSet(<<v>> \o q) = {v} \cup ToSet(q)
         /\ Once(q) /\ v \notin ToSet(q) => Once(<<v>> \o q)
<1> DEFINE p == <<v>> \o q
<1>1. /\ p \in Seq(S) /\ Len(p) = 1 + Len(q) /\ Len(q) \in Nat
      /\ DOMAIN p = 1 .. Len(p) /\ DOMAIN q = 1 .. Len(q)
      /\ \A i \in 1 .. Len(p) : p[i] = IF i = 1 THEN v ELSE q[i - 1]
  <2>1. <<v>> \in Seq(S) /\ Len(<<v>>) = 1 /\ <<v>>[1] = v
    OBVIOUS
  <2> QED BY <2>1, ConcatProperties
<1> HIDE DEF p
<1>2. p[1] = v /\ 1 \in DOMAIN p
  BY <1>1
<1>3. \A i \in DOMAIN q : i + 1 \in DOMAIN p /\ p[i + 1] = q[i]
  BY <1>1
<1>4. \A i \in DOMAIN p : (i = 1 /\ p[i] = v) \/ (i - 1 \in DOMAIN q /\ p[i] = q[i - 1])
  BY <1>1
<1>5. ToSet(p) = {v} \cup ToSet(q)
  BY <1>2, <1>3, <1>4 DEF ToSet
<1>6. ASSUME Once(q), v \notin ToSet(q) PROVE Once(p)
  <2> SUFFICES ASSUME NEW i \in DOMAIN p, NEW j \in DOMAIN p, p[i] = p[j] PROVE i = j
    BY DEF Once
  <2>1. \A k \in DOMAIN q : q[k] # v
    BY <1>6 DEF ToSet
  <2>2. i \in Nat /\ j \in Nat
    BY <1>1
  <2>3. (i = 1 /\ j = 1) \/ (i - 1 \in DOMAIN q /\ j - 1 \in DOMAIN q /\ q[i - 1] = q[j - 1])
    BY <1>4, <2>1
  <2> QED BY <1>6, <2>2, <2>3 DEF Once
<1> QED BY <1>1, <1>5, <1>6 DEF p

LEMMA TailFacts ==
  ASSUME NEW S, NEW q \in Seq(S), q # <<>>
  PROVE  /\ Tail(q) \in Seq(S) /\ Head(q) \in S /\ ToSet(q) = {Head(q)} \cup ToSet(Tail(q))
         /\ Once(q) => Once(Tail(q)) /\ Head(q) \notin ToSet(Tail(q))
<1> DEFINE p == Tail(q)
<1>1. /\ p \in Seq(S) /\ Len(p) = Len(q) - 1 /\ Len(q) \in Nat /\ Len(q) >= 1
      /\ DOMAIN p = 1 .. Len(p) /\ DOMAIN q = 1 .. Len(q) /\ Head(q) = q[1] /\ q[1] \in S
      /\ \A i \in 1 .. Len(p) : p[i] = q[i + 1]
  BY HeadTailProperties
<1> HIDE DEF p
<1>2. \A i \in DOMAIN p : i + 1 \in DOMAIN q /\ i + 1 # 1 /\ i \in Nat /\ p[i] = q[i + 1]
  BY <1>1
<1>3. \A i \in DOMAIN q : i = 1 \/ (i - 1 \in DOMAIN p /\ p[i - 1] = q[i])
  BY <1>1
<1>4. 1 \in DOMAIN q
  BY <1>1
<1>5. ToSet(q) = {q[1]} \cup ToSet(p)
  BY <1>2, <1>3, <1>4 DEF ToSet
<1>6. ASSUME Once(q) PROVE Once(p) /\ q[1] \notin ToSet(p)
  <2>1. ASSUME NEW i \in DOMAIN p, NEW j \in DOMAIN p, p[i] = p[j] PROVE i = j
    <3>1. i + 1 = j + 1
      BY <1>2, <1>6, <2>1 DEF Once
    <3> QED BY <1>2, <3>1
  <2>2. \A i \in DOMAIN p : p[i] # q[1]
    BY <1>2, <1>4, <1>6 DEF Once
  <2> QED BY <2>1, <2>2 DEF Once, ToSet
<1> QED BY <1>1, <1>5, <1>6 DEF p

-----------------------------------------------------------------------------
(***************************************************************************)
(* What can be reached.                                                    *)
(***************************************************************************)
\* Reachable is the least closed set.
LEMMA ReachFacts ==
  ASSUME \A v \in made : Entry(v) \subseteq made, NEW X \in SUBSET made
  PROVE  /\ X \subseteq Reachable(X) /\ Reachable(X) \subseteq made
         /\ \A v \in Reachable(X) : Entry(v) \subseteq Reachable(X)
         /\ \A Y \in SUBSET made :
              X \subseteq Y /\ (\A v \in Y : Entry(v) \subseteq Y) => Reachable(X) \subseteq Y
<1> HIDE DEF Entry
<1>1. ASSUME NEW v \in Reachable(X), NEW u \in Entry(v) PROVE u \in Reachable(X)
  <2>1. v \in made /\ u \in made
    BY <1>1 DEF Reachable
  <2>2. \A Y \in Closed(X) : v \in Y
    BY <1>1 DEF Reachable
  <2>3. \A Y \in Closed(X) : u \in Y
    BY <1>1, <2>2 DEF Closed
  <2> QED BY <2>1, <2>3 DEF Reachable
<1>2. \A Y \in SUBSET made :
        X \subseteq Y /\ (\A v \in Y : Entry(v) \subseteq Y) => Reachable(X) \subseteq Y
  BY DEF Reachable, Closed
<1>3. X \subseteq Reachable(X) /\ Reachable(X) \subseteq made
  BY DEF Reachable, Closed
<1> QED BY <1>1, <1>2, <1>3

LEMMA ReachMonotone ==
  ASSUME \A v \in made : Entry(v) \subseteq made, NEW X \in SUBSET made, NEW Y \in SUBSET made,
         X \subseteq Reachable(Y)
  PROVE  Reachable(X) \subseteq Reachable(Y)
BY ReachFacts

LEMMA GraphFacts ==
  ASSUME TypeOK, GraphOk
  PROVE  /\ made \subseteq Values /\ held \subseteq made
         /\ \A v \in made : Entry(v) \subseteq made
BY DEF TypeOK, GraphOk

LEMMA LoopRootsMade ==
  ASSUME TypeOK, GraphOk, NEW l, LoopOk(l)
  PROVE  LoopRoots(l) \subseteq made
<1> HIDE DEF Entry
<1> QED BY GraphFacts DEF LoopOk, LoopRoots

LEMMA RootsMade ==
  ASSUME TypeOK, GraphOk, StatusOk
  PROVE  Roots \subseteq made
<1>1. LoopRoots(AfterGC) \subseteq made /\ LoopRoots(AtExit) \subseteq made
  BY LoopRootsMade DEF StatusOk
<1>2. UNION {Entry(v) : v \in ToSet(r)} \subseteq made
  BY GraphFacts DEF StatusOk
<1> QED BY <1>1, <1>2, GraphFacts DEF Roots, AfterGC, AtExit

\* The set of what could be reached, or another one that is closed, shows that nothing
\* else can be reached after a step.
LEMMA AliveStep ==
  ASSUME NEW Y, Y \subseteq made', Roots' \subseteq Y, \A v \in Y : Entry(v)' \subseteq Y,
         Y \subseteq alive'
  PROVE  ReachedIsAlive'
<1>1. Y \in Closed(Roots)'
  BY DEF Closed
<1>2. Reachable(Roots)' \subseteq Y
  BY <1>1 DEF Reachable
<1> QED BY <1>2 DEF ReachedIsAlive

LEMMA AliveKept ==
  ASSUME TypeOK, GraphOk, StatusOk, UNCHANGED <<made, contents, afters>>,
         Roots' \subseteq Reachable(Roots), Reachable(Roots) \subseteq alive'
  PROVE  ReachedIsAlive'
<1>1. /\ Reachable(Roots) \subseteq made
      /\ \A v \in Reachable(Roots) : Entry(v) \subseteq Reachable(Roots)
  BY GraphFacts, RootsMade, ReachFacts
<1>2. \A v \in Reachable(Roots) : Entry(v)' = Entry(v)
  BY DEF Entry
<1> QED BY <1>1, <1>2, AliveStep

\* Reachable is the same function as long as the graph is.
LEMMA SameReachable ==
  ASSUME UNCHANGED <<made, contents, afters>>, NEW X
  PROVE  Reachable(X)' = Reachable(X)
BY DEF Reachable, Closed, Entry

-----------------------------------------------------------------------------
(***************************************************************************)
(* A step of a fold.                                                       *)
(***************************************************************************)
LEMMA OffFacts ==
  /\ Off \in LoopType /\ Off.at = "off" /\ Off.todo = <<>> /\ Off.kept = <<>> /\ ~Off.gotOne
  /\ Off.value = Nobody /\ Off.touches = {} /\ LoopRoots(Off) = {}
BY NilFacts DEF Off, LoopType, LoopRoots

LEMMA OffOk == LoopOk(Off) /\ LoopOnce(Off)
BY OffFacts, NilFacts DEF LoopOk, LoopOnce

LEMMA ActiveFacts ==
  ASSUME TypeOK
  PROVE  /\ Loop \in LoopType /\ AfterGC \in LoopType /\ AtExit \in LoopType
         /\ AfterGC.at # "off" => Active = "handler" /\ Loop = AfterGC
         /\ AfterGC.at = "off" => Active = "exit" /\ Loop = AtExit
BY DEF TypeOK, Loop, Active, AfterGC, AtExit

\* A fold that has something to do is the only one.
LEMMA OneLoop ==
  ASSUME FinInv, Loop.at \in {"finalizer", "afters"} \/ (Loop.at = "next" /\ Loop.todo # <<>>)
  PROVE  \/ Active = "handler" /\ Loop = AfterGC /\ status = "running" /\ AtExit = Off
         \/ /\ Active = "exit" /\ Loop = AtExit /\ status = "exiting" /\ AfterGC = Off
            /\ r = <<>>
<1>1. CASE AfterGC.at # "off"
  <2>1. status = "running"
    BY <1>1, ActiveFacts DEF FinInv, StatusOk, TypeOK
  <2> QED BY <1>1, <2>1, ActiveFacts DEF FinInv, StatusOk
<1>2. CASE AfterGC.at = "off"
  <2>1. Loop = AtExit /\ Active = "exit" /\ AfterGC = Off
    BY <1>2, ActiveFacts DEF FinInv, StatusOk, LoopOk
  <2>2. status # "running" /\ status # "exited"
    BY <2>1, OffFacts DEF FinInv, StatusOk
  <2> QED BY <2>1, <2>2 DEF FinInv, StatusOk, TypeOK
<1> QED BY <1>1, <1>2

\* The roots of the collector, with loop l in place of the active one.
LEMMA LoopsUpdate ==
  ASSUME TypeOK, NEW l \in LoopType, loops' = [loops EXCEPT ![Active] = l]
  PROVE  /\ loops' \in [handler : LoopType, exit : LoopType]
         /\ Active = "handler" => AfterGC' = l /\ AtExit' = AtExit
         /\ Active = "exit" => AtExit' = l /\ AfterGC' = AfterGC
<1>1. loops \in [handler : LoopType, exit : LoopType]
  BY DEF TypeOK
<1>2. CASE Active = "handler"
  <2>1. loops' = [loops EXCEPT !.handler = l]
    BY <1>2
  <2> QED BY <1>1, <1>2, <2>1 DEF AfterGC, AtExit
<1>3. CASE Active = "exit"
  <2>1. loops' = [loops EXCEPT !.exit = l]
    BY <1>3
  <2> QED BY <1>1, <1>3, <2>1 DEF AfterGC, AtExit
<1> QED BY <1>2, <1>3 DEF Active

\* l goes on from the active fold: nothing else can be reached, nobody undone is left out.
Continues(l) ==
  /\ l \in LoopType /\ l.at \notin {"off", "collect"} /\ LoopOk(l)
  /\ LoopRoots(l) \subseteq LoopRoots(Loop)
  /\ l.at = "next" /\ ~l.gotOne =>
       /\ Loop.at = "next" /\ ~Loop.gotOne /\ LoopRoots(l) = LoopRoots(Loop)
       /\ ToSet(l.kept) \subseteq ToSet(Loop.kept) \cup alive

\* h is the history that goes with it.
Records(l, h) ==
  /\ h \in [begun : [Values -> Nat], done : [Values -> Nat], raised : BOOLEAN]
  /\ h.raised = history.raised
  /\ \A v \in Values : /\ history.done[v] <= h.done[v] /\ h.done[v] <= h.begun[v]
                       /\ h.begun[v] <= 1 + Repeats
  /\ \A v \in Values \ made : h.begun[v] = 0
  /\ \A v \in made : h.done[v] = 0 /\ v \in LoopValues(Loop) => v \in LoopValues(l)
  /\ \A v \in ToSet(l.todo) \cup ToSet(l.kept) : h.begun[v] <= Repeats
  /\ l.at \in {"finalizer", "afters"} => h.done[l.value] < h.begun[l.value]

ListsOnce(l) ==
  /\ Once(l.todo) /\ Once(l.kept) /\ ToSet(l.todo) \cap ToSet(l.kept) = {}
  /\ l.value \notin ToSet(l.todo) \cup ToSet(l.kept)

LEMMA LoopStep ==
  ASSUME FinInv, NEW l, loops' = [loops EXCEPT ![Active] = l],
         UNCHANGED <<heapVars, alive, r, status, signals>>,
         Loop.at \in {"finalizer", "afters"} \/ (Loop.at = "next" /\ Loop.todo # <<>>),
         Continues(l), Records(l, history'), ListsOnce(l)
  PROVE  FinInv'
<1> DEFINE h == history'
<1>1. /\ \/ Active = "handler" /\ Loop = AfterGC /\ status = "running" /\ AtExit = Off
         \/ /\ Active = "exit" /\ Loop = AtExit /\ status = "exiting" /\ AfterGC = Off
            /\ r = <<>>
      /\ TypeOK
  BY OneLoop DEF FinInv
<1>2. /\ loops' \in [handler : LoopType, exit : LoopType] /\ l \in LoopType
      /\ \/ Active = "handler" /\ AfterGC' = l /\ AtExit' = Off /\ status' = "running"
         \/ Active = "exit" /\ AtExit' = l /\ AfterGC' = Off /\ status' = "exiting" /\ r' = <<>>
  BY <1>1, LoopsUpdate DEF Continues
<1>3. /\ made' = made /\ contents' = contents /\ afters' = afters /\ held' = held
      /\ alive' = alive /\ r' = r /\ status' = status /\ signals' = signals
  BY DEF heapVars
<1>4. \A v : Entry(v)' = Entry(v)
  BY <1>3 DEF Entry
<1>5. TypeOK'
  BY <1>2, <1>3 DEF TypeOK, Records, FinInv
<1>6. GraphOk'
  <2>1. \A v \in Values \ made : h.begun[v] = 0 /\ h.done[v] = 0
    BY DEF Records
  <2> QED BY <1>3, <1>4, <2>1 DEF GraphOk, FinInv
<1>7. StatusOk'
  <2>1. LoopOk(Off)' /\ LoopOk(l)'
    BY <1>3, OffOk DEF LoopOk, Continues
  <2>2. h.raised = history.raised
    BY DEF Records
  <2> QED BY <1>1, <1>2, <1>3, <2>1, <2>2, OffFacts DEF StatusOk, FinInv, Continues
<1>8. Repeats' = Repeats
  BY DEF Repeats, Records
<1>9. LoopOnce(l)' /\ LoopOnce(Off)'
  <2>1. LoopOnce(l)'
    BY <1>8 DEF LoopOnce, Records, ListsOnce
  <2>2. LoopOnce(Off)'
    BY OffFacts, NilFacts DEF LoopOnce
  <2> QED BY <2>1, <2>2
<1>10. OnceOk'
  <2>1. LoopOnce(AfterGC)' /\ LoopOnce(AtExit)'
    BY <1>2, <1>9 DEF LoopOnce
  <2>2. \A v \in Values : h.done[v] <= h.begun[v] /\ h.begun[v] <= 1 + Repeats
    BY DEF Records
  <2>3. Once(r)'
    BY <1>3 DEF OnceOk, FinInv, Once
  <2>4. \A v \in ToSet(r)' : h.begun[v] <= IF AfterGC'.at = "off" THEN 0 ELSE 1
    <3>1. CASE Active = "handler"
      <4>1. AfterGC'.at # "off" /\ Repeats = 0
        BY <1>1, <1>2, <3>1 DEF Continues, FinInv, StatusOk, Repeats
      <4>2. ToSet(r)' \subseteq Values /\ \A v \in Values : h.begun[v] \in Nat
        BY <1>3, GraphFacts DEF FinInv, StatusOk, Records
      <4> QED BY <2>2, <4>1, <4>2
    <3>2. CASE Active # "handler"
      <4>1. ToSet(r)' = {}
        BY <1>2, <3>2, NilFacts DEF ToSet
      <4> QED BY <4>1
    <3> QED BY <3>1, <3>2
  <2> QED BY <1>8, <2>1, <2>2, <2>3, <2>4 DEF OnceOk
<1>11. ListedOk'
  <2> SUFFICES ASSUME NEW v \in made, h.done[v] = 0
               PROVE  /\ status' = "running" => /\ v \in ToSet(r)'
                                                /\ AfterGC'.at # "off" => v \in LoopValues(AfterGC)'
                      /\ status' = "exiting" => v \in LoopValues(AtExit)'
    BY <1>3 DEF ListedOk
  <2>1. history.done[v] = 0
    <3>1. v \in Values /\ history.done[v] \in Nat /\ history.done[v] <= h.done[v]
      BY GraphFacts DEF FinInv, Records, TypeOK
    <3> QED BY <3>1
  <2>2. v \in LoopValues(Loop) => v \in LoopValues(l)
    BY DEF Records
  <2>3. LoopValues(l)' = LoopValues(l)
    BY DEF LoopValues
  <2>4. ToSet(r)' = ToSet(r)
    BY <1>3
  <2>5. CASE Active = "handler"
    <3>1. LoopValues(AfterGC)' = LoopValues(l)
      BY <1>2, <2>5 DEF LoopValues
    <3>2. v \in ToSet(r) /\ v \in LoopValues(Loop)
      <4>1. Loop.at # "off"
        OBVIOUS
      <4> QED BY <1>1, <2>1, <2>5, <4>1 DEF FinInv, ListedOk
    <3> QED BY <1>2, <2>2, <2>4, <2>5, <3>1, <3>2
  <2>6. CASE Active # "handler"
    <3>1. LoopValues(AtExit)' = LoopValues(l)
      BY <1>2, <2>6 DEF LoopValues
    <3>2. v \in LoopValues(Loop)
      BY <1>1, <2>1, <2>6 DEF FinInv, ListedOk
    <3> QED BY <1>2, <2>2, <2>6, <3>1, <3>2
  <2> QED BY <2>5, <2>6
<1>12. LoopRoots(l)' = LoopRoots(l) /\ LoopRoots(Off)' = {}
  BY <1>3, <1>4, OffFacts DEF LoopRoots, Off
<1>13. Roots' \subseteq Roots /\ (LoopRoots(l) = LoopRoots(Loop) => Roots' = Roots)
  <2>1. UNION {Entry(v)' : v \in ToSet(r)'} = UNION {Entry(v) : v \in ToSet(r)}
    BY <1>3, <1>4
  <2>2. Roots' = held \cup (UNION {Entry(v) : v \in ToSet(r)}) \cup LoopRoots(l)
    BY <1>2, <1>3, <1>12, <2>1 DEF Roots, AfterGC, AtExit, LoopRoots
  <2>3. Roots = held \cup (UNION {Entry(v) : v \in ToSet(r)}) \cup LoopRoots(Loop)
    BY <1>1, OffFacts DEF Roots, AfterGC, AtExit
  <2>4. LoopRoots(l) \subseteq LoopRoots(Loop)
    BY DEF Continues
  <2> QED BY <2>2, <2>3, <2>4
<1>14. ReachedIsAlive'
  <2>1. Roots \subseteq Reachable(Roots)
    BY GraphFacts, RootsMade, ReachFacts DEF FinInv
  <2> QED BY <1>3, <1>13, <2>1, AliveKept DEF FinInv, ReachedIsAlive
<1>15. RoundOk'
  <2> SUFFICES ASSUME status = "exiting", l.at = "next", ~l.gotOne
               PROVE  alive \subseteq Reachable(Roots)' /\ ToSet(l.kept) \subseteq alive
    BY <1>2, <1>3, <1>13 DEF RoundOk, ToSet
  <2>1. Loop = AtExit /\ AtExit.at = "next" /\ ~AtExit.gotOne /\ Roots' = Roots
        /\ ToSet(l.kept) \subseteq ToSet(AtExit.kept) \cup alive
    BY <1>1, <1>13 DEF Continues
  <2>2. alive \subseteq Reachable(Roots) /\ ToSet(AtExit.kept) \subseteq alive
    BY <2>1 DEF RoundOk, FinInv
  <2>3. Reachable(Roots)' = Reachable(Roots)
    BY <1>3, <1>4, <2>1 DEF Reachable, Closed
  <2> QED BY <2>1, <2>2, <2>3
<1>16. LeftAtExit'
  BY <1>2 DEF LeftAtExit
<1> QED BY <1>5, <1>6, <1>7, <1>10, <1>11, <1>14, <1>15, <1>16 DEF FinInv

Histories == [begun : [Values -> Nat], done : [Values -> Nat], raised : BOOLEAN]

LEMMA HistoryFields ==
  ASSUME NEW h \in Histories, NEW v \in Values
  PROVE  /\ [h EXCEPT !.begun[v] = @ + 1] \in Histories
         /\ [h EXCEPT !.begun[v] = @ + 1].begun = [h.begun EXCEPT ![v] = @ + 1]
         /\ [h EXCEPT !.begun[v] = @ + 1].done = h.done
         /\ [h EXCEPT !.begun[v] = @ + 1].raised = h.raised
         /\ [h EXCEPT !.done[v] = @ + 1] \in Histories
         /\ [h EXCEPT !.done[v] = @ + 1].done = [h.done EXCEPT ![v] = @ + 1]
         /\ [h EXCEPT !.done[v] = @ + 1].begun = h.begun
         /\ [h EXCEPT !.done[v] = @ + 1].raised = h.raised
<1>1. h.begun[v] + 1 \in Nat /\ h.done[v] + 1 \in Nat /\ h.begun \in [Values -> Nat]
      /\ h.done \in [Values -> Nat] /\ h.raised \in BOOLEAN
  BY DEF Histories
<1>2. [h.begun EXCEPT ![v] = @ + 1] \in [Values -> Nat]
      /\ [h.done EXCEPT ![v] = @ + 1] \in [Values -> Nat]
  BY <1>1
<1> QED BY <1>1, <1>2 DEF Histories

LEMMA KeepStep ==
  ASSUME FinInv, Loop.at = "next", Loop.todo # <<>>, Head(Loop.todo) \in alive,
         loops' = [loops EXCEPT ![Active] =
                     [[Loop EXCEPT !.todo = Tail(@)] EXCEPT !.kept = <<Head(Loop.todo)>> \o @]],
         UNCHANGED <<heapVars, alive, r, status, signals, history>>
  PROVE  FinInv'
<1> DEFINE v == Head(Loop.todo)
           l == [[Loop EXCEPT !.todo = Tail(@)] EXCEPT !.kept = <<v>> \o @]
<1>1. Loop \in LoopType /\ LoopOk(Loop) /\ LoopOnce(Loop)
  BY ActiveFacts, OneLoop DEF FinInv, StatusOk, OnceOk
<1>2. /\ Loop.todo \in Seq(Values) /\ Loop.kept \in Seq(Values) /\ v \in Values
      /\ Tail(Loop.todo) \in Seq(Values) /\ ToSet(Loop.todo) = {v} \cup ToSet(Tail(Loop.todo))
      /\ Once(Tail(Loop.todo)) /\ v \notin ToSet(Tail(Loop.todo))
  BY <1>1, TailFacts DEF LoopType, LoopOnce
<1>3. /\ <<v>> \o Loop.kept \in Seq(Values)
      /\ ToSet(<<v>> \o Loop.kept) = {v} \cup ToSet(Loop.kept)
      /\ Once(<<v>> \o Loop.kept)
  BY <1>1, <1>2, ConsFacts DEF LoopOnce
<1>4. /\ l \in LoopType /\ l.at = "next" /\ l.todo = Tail(Loop.todo)
      /\ l.kept = <<v>> \o Loop.kept /\ l.gotOne = Loop.gotOne /\ l.value = Loop.value
      /\ l.touches = Loop.touches
  BY <1>1, <1>2, <1>3 DEF LoopType
<1>5. loops' = [loops EXCEPT ![Active] = l]
  OBVIOUS
<1> HIDE DEF l
<1>6. ToSet(l.todo) \cup ToSet(l.kept) = ToSet(Loop.todo) \cup ToSet(Loop.kept)
  BY <1>2, <1>3, <1>4
<1>7. LoopOk(l)
  BY <1>1, <1>4, <1>6 DEF LoopOk
<1>8. LoopRoots(l) = LoopRoots(Loop)
  BY <1>4, <1>6 DEF LoopRoots
<1>9. ToSet(l.kept) \subseteq ToSet(Loop.kept) \cup alive
  BY <1>3, <1>4
<1>10. Continues(l)
  BY <1>4, <1>7, <1>8, <1>9 DEF Continues
<1>11. ListsOnce(l)
  <2>1. ToSet(l.todo) \cap ToSet(l.kept) = {}
    BY <1>1, <1>2, <1>3, <1>4 DEF LoopOnce
  <2>2. l.value \notin ToSet(l.todo) \cup ToSet(l.kept)
    BY <1>1, <1>4, <1>6 DEF LoopOnce
  <2> QED BY <1>2, <1>3, <1>4, <2>1, <2>2 DEF ListsOnce
<1>12. Records(l, history')
  <2>1. LoopValues(l) = LoopValues(Loop)
    BY <1>4, <1>6 DEF LoopValues
  <2>2. \A u \in ToSet(l.todo) \cup ToSet(l.kept) : history.begun[u] <= Repeats
    BY <1>1, <1>6 DEF LoopOnce
  <2>3. history' = history
    OBVIOUS
  <2> QED BY <1>4, <2>1, <2>2, <2>3 DEF Records, FinInv, TypeOK, OnceOk, GraphOk
<1> QED BY <1>5, <1>10, <1>11, <1>12, LoopStep

LEMMA FinalizeStep ==
  ASSUME FinInv, Loop.at = "next", Loop.todo # <<>>,
         loops' = [loops EXCEPT ![Active] =
                     [[Loop EXCEPT !.todo = Tail(@)] EXCEPT
                        !.gotOne = TRUE, !.value = Head(Loop.todo), !.at = "finalizer"]],
         history' = [history EXCEPT !.begun[Head(Loop.todo)] = @ + 1],
         UNCHANGED <<heapVars, alive, r, status, signals>>
  PROVE  FinInv'
<1> DEFINE v == Head(Loop.todo)
           l == [[Loop EXCEPT !.todo = Tail(@)] EXCEPT
                   !.gotOne = TRUE, !.value = v, !.at = "finalizer"]
<1>1. Loop \in LoopType /\ LoopOk(Loop) /\ LoopOnce(Loop)
  BY ActiveFacts, OneLoop DEF FinInv, StatusOk, OnceOk
<1>2. /\ Loop.todo \in Seq(Values) /\ Loop.kept \in Seq(Values) /\ v \in Values
      /\ Tail(Loop.todo) \in Seq(Values) /\ ToSet(Loop.todo) = {v} \cup ToSet(Tail(Loop.todo))
      /\ Once(Tail(Loop.todo)) /\ v \notin ToSet(Tail(Loop.todo))
  BY <1>1, TailFacts DEF LoopType, LoopOnce
<1>3. /\ l \in LoopType /\ l.at = "finalizer" /\ l.todo = Tail(Loop.todo)
      /\ l.kept = Loop.kept /\ l.gotOne /\ l.value = v /\ l.touches = Loop.touches
  BY <1>1, <1>2 DEF LoopType
<1>4. loops' = [loops EXCEPT ![Active] = l]
  OBVIOUS
<1> HIDE DEF l
<1>5. v \in made /\ Loop.touches = {} /\ Loop.value = Nobody
  BY <1>1, <1>2 DEF LoopOk
<1>6. LoopOk(l)
  BY <1>1, <1>2, <1>3, <1>5 DEF LoopOk
<1>7. LoopRoots(l) \subseteq LoopRoots(Loop)
  BY <1>2, <1>3 DEF LoopRoots
<1>8. Continues(l)
  BY <1>3, <1>6, <1>7 DEF Continues
<1>9. ListsOnce(l)
  BY <1>1, <1>2, <1>3 DEF ListsOnce, LoopOnce
<1>10. Records(l, history')
  <2> DEFINE h == history'
  <2>1. history \in [begun : [Values -> Nat], done : [Values -> Nat], raised : BOOLEAN]
    BY DEF FinInv, TypeOK
  <2>2. /\ h \in [begun : [Values -> Nat], done : [Values -> Nat], raised : BOOLEAN]
        /\ h.raised = history.raised /\ h.done = history.done
        /\ \A u \in Values : h.begun[u] = IF u = v THEN history.begun[u] + 1 ELSE history.begun[u]
    <3> HIDE DEF v
    <3>1. history' = [history EXCEPT !.begun[v] = @ + 1] /\ history \in Histories
      BY <2>1 DEF Histories, v
    <3> DEFINE k == [history EXCEPT !.begun[v] = @ + 1]
    <3>2. v \in Values
      BY <1>2
    <3>3. k \in Histories /\ k.raised = history.raised /\ k.done = history.done
          /\ k.begun = [history.begun EXCEPT ![v] = @ + 1]
      BY <3>1, <3>2, HistoryFields
    <3>4. h = k
      BY <3>1
    <3> HIDE DEF h, k
    <3> QED BY <2>1, <3>2, <3>3, <3>4 DEF Histories
  <2> HIDE DEF h
  <2>3. Repeats \in Nat /\ history.begun[v] <= Repeats
    BY <1>1, <1>2 DEF Repeats, LoopOnce
  <2>4. \A u \in Values : history.done[u] \in Nat /\ history.begun[u] \in Nat
    BY <2>1
  <2>5. \A u \in Values : /\ history.done[u] <= h.done[u] /\ h.done[u] <= h.begun[u]
                          /\ h.begun[u] <= 1 + Repeats
    BY <2>2, <2>3, <2>4 DEF FinInv, OnceOk
  <2>6. \A u \in Values \ made : h.begun[u] = 0
    BY <1>5, <2>2 DEF FinInv, GraphOk
  <2>7. \A u \in made : u \in LoopValues(Loop) => u \in LoopValues(l)
    <3>1. \A u \in made : u # Nobody
      BY GraphFacts DEF FinInv, Values, Nobody
    <3> QED BY <1>2, <1>3, <1>5, <3>1 DEF LoopValues
  <2>8. \A u \in ToSet(l.todo) \cup ToSet(l.kept) : h.begun[u] <= Repeats
    <3>1. ASSUME NEW u \in ToSet(l.todo) \cup ToSet(l.kept) PROVE h.begun[u] <= Repeats
      <4>1. u # v /\ u \in ToSet(Loop.todo) \cup ToSet(Loop.kept) /\ u \in Values
        BY <1>1, <1>2, <1>3, <3>1, GraphFacts DEF LoopOnce, LoopOk, FinInv
      <4> QED BY <1>1, <2>2, <4>1 DEF LoopOnce
    <3> QED BY <3>1
  <2>9. h.done[l.value] < h.begun[l.value]
    <3>1. \A u \in Values : history.done[u] <= history.begun[u]
      BY DEF FinInv, OnceOk
    <3> HIDE DEF v
    <3>2. /\ h.done[v] = history.done[v] /\ h.begun[v] = history.begun[v] + 1
          /\ history.done[v] <= history.begun[v]
          /\ history.done[v] \in Nat /\ history.begun[v] \in Nat
      BY <1>2, <2>2, <2>4, <3>1
    <3>3. h.done[v] < h.begun[v]
      BY <3>2
    <3> QED BY <1>3, <3>3
  <2> QED BY <2>2, <2>5, <2>6, <2>7, <2>8, <2>9 DEF Records, h
<1> QED BY <1>4, <1>8, <1>9, <1>10, LoopStep

LEMMA CleanNextStep == ASSUME FinInv, CleanNext PROVE FinInv'
BY KeepStep, FinalizeStep DEF CleanNext

\* The fold goes on with the same lists.
LEMMA SameListsStep ==
  ASSUME FinInv, NEW l \in LoopType, loops' = [loops EXCEPT ![Active] = l],
         UNCHANGED <<heapVars, alive, r, status, signals, history>>,
         Loop.at \in {"finalizer", "afters"}, l.at = "afters",
         l.todo = Loop.todo, l.kept = Loop.kept, l.gotOne = Loop.gotOne, l.value = Loop.value,
         l.touches \subseteq made, l.touches \subseteq LoopRoots(Loop)
  PROVE  FinInv'
<1>1. Loop \in LoopType /\ LoopOk(Loop) /\ LoopOnce(Loop)
  BY ActiveFacts, OneLoop DEF FinInv, StatusOk, OnceOk
<1>2. LoopOk(l)
  BY <1>1 DEF LoopOk
<1>3. LoopRoots(l) \subseteq LoopRoots(Loop)
  BY DEF LoopRoots
<1>4. Continues(l)
  BY <1>2, <1>3 DEF Continues
<1>5. ListsOnce(l)
  BY <1>1 DEF ListsOnce, LoopOnce
<1>6. Records(l, history')
  <2>1. LoopValues(l) = LoopValues(Loop)
    BY DEF LoopValues
  <2>2. \A u \in ToSet(l.todo) \cup ToSet(l.kept) : history.begun[u] <= Repeats
    BY <1>1 DEF LoopOnce
  <2>3. history.done[l.value] < history.begun[l.value]
    BY <1>1 DEF LoopOnce
  <2>4. history' = history
    OBVIOUS
  <2> QED BY <2>1, <2>2, <2>3, <2>4 DEF Records, FinInv, TypeOK, OnceOk, GraphOk
<1> QED BY <1>4, <1>5, <1>6, LoopStep

LEMMA FinalizersReturnStep == ASSUME FinInv, FinalizersReturn PROVE FinInv'
<1> DEFINE l == [Loop EXCEPT !.at = "afters", !.touches = afters[Loop.value]]
<1>1. Loop \in LoopType /\ LoopOk(Loop) /\ Loop.at = "finalizer"
  BY ActiveFacts, OneLoop DEF FinInv, StatusOk, FinalizersReturn
<1>2. /\ afters[Loop.value] \subseteq Entry(Loop.value) /\ Entry(Loop.value) \subseteq made
      /\ made \subseteq Values
  BY <1>1, GraphFacts DEF FinInv, LoopOk, Entry
<1>3. /\ l \in LoopType /\ l.at = "afters" /\ l.todo = Loop.todo /\ l.kept = Loop.kept
      /\ l.gotOne = Loop.gotOne /\ l.value = Loop.value /\ l.touches = afters[Loop.value]
  BY <1>1, <1>2 DEF LoopType
<1>4. loops' = [loops EXCEPT ![Active] = l]
      /\ UNCHANGED <<heapVars, alive, r, status, signals, history>>
  BY DEF FinalizersReturn, Loop
<1> HIDE DEF l
<1>5. l.touches \subseteq LoopRoots(Loop)
  BY <1>1, <1>2, <1>3 DEF LoopRoots
<1> QED BY <1>1, <1>2, <1>3, <1>4, <1>5, SameListsStep

LEMMA TouchStep == ASSUME FinInv, NEW v \in Values, Touch(v) PROVE FinInv'
<1> DEFINE l == [Loop EXCEPT !.touches = Loop.touches \ {v}]
<1>1. Loop \in LoopType /\ LoopOk(Loop) /\ Loop.at = "afters"
  BY ActiveFacts, OneLoop DEF FinInv, StatusOk, Touch
<1>2. /\ l \in LoopType /\ l.at = "afters" /\ l.todo = Loop.todo /\ l.kept = Loop.kept
      /\ l.gotOne = Loop.gotOne /\ l.value = Loop.value /\ l.touches = Loop.touches \ {v}
  BY <1>1 DEF LoopType
<1>3. loops' = [loops EXCEPT ![Active] = l]
      /\ UNCHANGED <<heapVars, alive, r, status, signals, history>>
  BY DEF Touch, Loop
<1> HIDE DEF l
<1>4. l.touches \subseteq made /\ l.touches \subseteq LoopRoots(Loop)
  BY <1>1, <1>2 DEF LoopOk, LoopRoots
<1> QED BY <1>1, <1>2, <1>3, <1>4, SameListsStep

LEMMA CleanedStep == ASSUME FinInv, Cleaned PROVE FinInv'
<1> DEFINE l == [Loop EXCEPT !.at = "next", !.value = Nobody]
           v == Loop.value
<1>1. Loop \in LoopType /\ LoopOk(Loop) /\ LoopOnce(Loop) /\ Loop.at = "afters"
      /\ Loop.touches = {}
  BY ActiveFacts, OneLoop DEF FinInv, StatusOk, OnceOk, Cleaned
<1>2. v \in made /\ v \in Values /\ Loop.gotOne /\ made \subseteq Values
  BY <1>1, GraphFacts DEF LoopOk, FinInv
<1>3. /\ l \in LoopType /\ l.at = "next" /\ l.todo = Loop.todo /\ l.kept = Loop.kept
      /\ l.gotOne /\ l.value = Nobody /\ l.touches = {}
  BY <1>1, <1>2 DEF LoopType
<1>4. loops' = [loops EXCEPT ![Active] = l]
      /\ UNCHANGED <<heapVars, alive, r, status, signals>>
  BY DEF Cleaned, Loop
<1> HIDE DEF l
<1>5. LoopOk(l)
  BY <1>1, <1>3 DEF LoopOk
<1>6. LoopRoots(l) \subseteq LoopRoots(Loop)
  BY <1>3 DEF LoopRoots
<1>7. Continues(l)
  BY <1>3, <1>5, <1>6 DEF Continues
<1>8. Nobody \notin made
  BY <1>2 DEF Nobody, Values
<1>9. ListsOnce(l)
  BY <1>1, <1>3, <1>8 DEF ListsOnce, LoopOnce, LoopOk
<1>10. Records(l, history')
  <2> DEFINE h == [history EXCEPT !.done[v] = @ + 1]
  <2>1. history \in Histories
    BY DEF FinInv, TypeOK, Histories
  <2>2. history' = h
    BY DEF Cleaned
  <2>3. /\ h \in Histories /\ h.raised = history.raised /\ h.begun = history.begun
        /\ h.done = [history.done EXCEPT ![v] = @ + 1]
    <3> HIDE DEF v
    <3> QED BY <1>2, <2>1, HistoryFields
  <2> HIDE DEF h
  <2>4. \A u \in Values : /\ history.done[u] \in Nat /\ history.begun[u] \in Nat
                          /\ h.done[u] = IF u = v THEN history.done[u] + 1 ELSE history.done[u]
    BY <1>2, <2>1, <2>3 DEF Histories
  <2>5. history.done[v] < history.begun[v]
    BY <1>1 DEF LoopOnce
  <2> HIDE DEF v
  <2>6. \A u \in Values : /\ history.done[u] <= h.done[u] /\ h.done[u] <= h.begun[u]
                          /\ h.begun[u] <= 1 + Repeats
    BY <2>3, <2>4, <2>5 DEF FinInv, OnceOk
  <2>7. \A u \in Values \ made : h.begun[u] = 0
    BY <2>3 DEF FinInv, GraphOk
  <2>8. \A u \in made : h.done[u] = 0 /\ u \in LoopValues(Loop) => u \in LoopValues(l)
    <3>1. h.done[v] # 0
      BY <1>2, <2>4
    <3> QED BY <1>3, <3>1 DEF LoopValues, v
  <2>9. \A u \in ToSet(l.todo) \cup ToSet(l.kept) : h.begun[u] <= Repeats
    BY <1>1, <1>3, <2>3 DEF LoopOnce
  <2> QED BY <1>3, <2>2, <2>3, <2>6, <2>7, <2>8, <2>9 DEF Records, Histories
<1> QED BY <1>1, <1>4, <1>7, <1>9, <1>10, LoopStep

-----------------------------------------------------------------------------
(***************************************************************************)
(* Folds begin and end.                                                    *)
(***************************************************************************)
LEMMA RootsThen ==
  ASSUME UNCHANGED <<made, contents, afters>>, NEW a, NEW b, AfterGC' = a, AtExit' = b
  PROVE  Roots' = held' \cup (UNION {Entry(v) : v \in ToSet(r')}) \cup LoopRoots(a) \cup LoopRoots(b)
<1>1. \A v : Entry(v)' = Entry(v)
  BY DEF Entry
<1>2. LoopRoots(a)' = LoopRoots(a) /\ LoopRoots(b)' = LoopRoots(b)
  BY <1>1 DEF LoopRoots
<1>3. {Entry(v)' : v \in ToSet(r')} = {Entry(v) : v \in ToSet(r')}
  BY <1>1
<1>4. Roots' = held' \cup (UNION {Entry(v)' : v \in ToSet(r')}) \cup LoopRoots(a)' \cup LoopRoots(b)'
  BY DEF Roots, AfterGC, AtExit, LoopRoots
<1> QED BY <1>2, <1>3, <1>4

LEMMA RootsNow ==
  Roots = held \cup (UNION {Entry(v) : v \in ToSet(r)}) \cup LoopRoots(AfterGC) \cup LoopRoots(AtExit)
BY DEF Roots, AfterGC, AtExit

\* The invariant speaks of the lists through those of the two folds.
LEMMA FieldsKept ==
  ASSUME TypeOK, loops' \in [handler : LoopType, exit : LoopType],
         UNCHANGED <<made, contents, afters, held, history>>,
         alive' \subseteq alive, r' \in Seq(Values),
         status' \in {"running", "exiting", "exited"},
         signals' \in [pending : BOOLEAN, inHandler : BOOLEAN], GraphOk
  PROVE  TypeOK' /\ GraphOk' /\ (\A l : LoopOk(l)' <=> LoopOk(l))
         /\ (\A l : LoopOnce(l)' <=> LoopOnce(l)) /\ Repeats' = Repeats
<1>1. \A v : Entry(v)' = Entry(v)
  BY DEF Entry
<1>2. Repeats' = Repeats
  BY DEF Repeats
<1> QED BY <1>1, <1>2 DEF TypeOK, GraphOk, LoopOk, LoopOnce

LEMMA CleanFacts ==
  ASSUME NEW q \in Seq(Values)
  PROVE  /\ Clean(q) \in LoopType /\ Clean(q).at = "next" /\ Clean(q).todo = q
         /\ Clean(q).kept = <<>> /\ ~Clean(q).gotOne /\ Clean(q).value = Nobody
         /\ Clean(q).touches = {} /\ LoopRoots(Clean(q)) = UNION {Entry(v) : v \in ToSet(q)}
         /\ LoopValues(Clean(q)) = ToSet(q) \cup {Nobody}
<1>1. /\ Clean(q) \in LoopType /\ Clean(q).at = "next" /\ Clean(q).todo = q
      /\ Clean(q).kept = <<>> /\ ~Clean(q).gotOne /\ Clean(q).value = Nobody
      /\ Clean(q).touches = {}
  BY OffFacts DEF Clean, LoopType
<1>2. LoopRoots(Clean(q)) = UNION {Entry(v) : v \in ToSet(q)}
  BY <1>1, NilFacts DEF LoopRoots
<1> QED BY <1>1, <1>2, NilFacts DEF LoopValues

LEMMA CleanOk ==
  ASSUME TypeOK, GraphOk, NEW q \in Seq(Values), ToSet(q) \subseteq made, Once(q),
         \A v \in ToSet(q) : history.begun[v] <= Repeats,
         NEW l, l.todo = q, l.kept = <<>>, l.value = Nobody, l.touches = {},
         l.at \in {"next", "collect"}
  PROVE  LoopOk(l) /\ LoopOnce(l)
<1>1. Nobody \notin made
  BY GraphFacts DEF Nobody, Values
<1> QED BY <1>1, NilFacts DEF LoopOk, LoopOnce

LEMMA StartHandlerStep == ASSUME FinInv, StartHandler PROVE FinInv'
<1> DEFINE c == Clean(r)
<1>1. /\ ~signals.inHandler /\ status # "exited"
      /\ signals' = [pending |-> FALSE, inHandler |-> TRUE]
      /\ loops' = [loops EXCEPT !.handler = c]
      /\ UNCHANGED <<made, contents, afters, held, alive, r, status, history>>
  BY DEF StartHandler, heapVars
<1>2. AfterGC = Off /\ r \in Seq(Values) /\ Once(r) /\ ToSet(r) \subseteq made
      /\ \A v \in ToSet(r) : history.begun[v] <= 0
  BY <1>1, OffFacts DEF FinInv, StatusOk, LoopOk, TypeOK, OnceOk
<1>3. /\ c \in LoopType /\ c.at = "next" /\ c.todo = r /\ c.kept = <<>> /\ ~c.gotOne
      /\ c.value = Nobody /\ c.touches = {}
      /\ LoopRoots(c) = UNION {Entry(v) : v \in ToSet(r)}
      /\ LoopValues(c) = ToSet(r) \cup {Nobody}
  BY <1>2, CleanFacts
<1> HIDE DEF c
<1>4. /\ AfterGC' = c /\ AtExit' = AtExit
      /\ loops' \in [handler : LoopType, exit : LoopType]
      /\ signals'.inHandler /\ signals' \in [pending : BOOLEAN, inHandler : BOOLEAN]
  BY <1>1, <1>3 DEF AfterGC, AtExit, FinInv, TypeOK
<1>5. TypeOK' /\ GraphOk' /\ (\A l : LoopOk(l)' <=> LoopOk(l))
      /\ (\A l : LoopOnce(l)' <=> LoopOnce(l)) /\ Repeats' = Repeats
  <2>1. alive' \subseteq alive /\ r' \in Seq(Values) /\ status' \in {"running", "exiting", "exited"}
        /\ TypeOK /\ GraphOk /\ UNCHANGED <<made, contents, afters, held, history>>
    BY <1>1, <1>2 DEF FinInv, TypeOK
  <2> QED BY <1>4, <2>1, FieldsKept
<1>6. LoopOk(c) /\ LoopOnce(c)
  <2>1. \A v \in ToSet(r) : history.begun[v] <= Repeats
    <3>1. \A v \in ToSet(r) : history.begun[v] \in Nat
      BY <1>2, GraphFacts DEF FinInv, TypeOK
    <3>2. Repeats \in {0, 1}
      BY DEF Repeats
    <3> QED BY <1>2, <3>1, <3>2
  <2> QED BY <1>2, <1>3, <2>1, CleanOk DEF FinInv
<1>7. StatusOk'
  <2>1. LoopOk(AfterGC)' /\ LoopOk(AtExit)'
    BY <1>1, <1>4, <1>5, <1>6 DEF FinInv, StatusOk, LoopOk
  <2> QED BY <1>1, <1>3, <1>4, <2>1 DEF FinInv, StatusOk
<1>8. ListedOk'
  <2>1. LoopValues(AfterGC)' = ToSet(r) \cup {Nobody} /\ LoopValues(AtExit)' = LoopValues(AtExit)
    BY <1>3, <1>4 DEF LoopValues
  <2> QED BY <1>1, <2>1 DEF FinInv, ListedOk
<1>9. OnceOk'
  <2>1. LoopOnce(AfterGC)' /\ LoopOnce(AtExit)'
    BY <1>4, <1>5, <1>6 DEF FinInv, OnceOk, LoopOnce
  <2>2. \A v \in ToSet(r) : history.begun[v] <= 1
    <3>1. \A v \in ToSet(r) : history.begun[v] \in Nat
      BY <1>2, GraphFacts DEF FinInv, TypeOK
    <3> QED BY <1>2, <3>1
  <2> QED BY <1>1, <1>2, <1>3, <1>4, <1>5, <2>1, <2>2 DEF FinInv, OnceOk
<1>10. Roots' = Roots
  <2>1. LoopRoots(AfterGC) = {}
    BY <1>2, OffFacts
  <2>2. Roots' = held' \cup (UNION {Entry(v) : v \in ToSet(r')}) \cup LoopRoots(c) \cup LoopRoots(AtExit)
    BY <1>1, <1>4, RootsThen
  <2> QED BY <1>1, <1>3, <2>1, <2>2, RootsNow
<1>11. Reachable(Roots)' = Reachable(Roots)
  BY <1>1, <1>10 DEF Reachable, Closed, Entry
<1>12. ReachedIsAlive' /\ RoundOk' /\ LeftAtExit'
  BY <1>1, <1>4, <1>11 DEF FinInv, ReachedIsAlive, RoundOk, LeftAtExit
<1> QED BY <1>5, <1>7, <1>8, <1>9, <1>12 DEF FinInv

LEMMA EndHandlerStep == ASSUME FinInv, EndHandler PROVE FinInv'
<1>1. /\ AfterGC.at = "next" /\ AfterGC.todo = <<>> /\ r' = AfterGC.kept
      /\ loops' = [loops EXCEPT !.handler = Off]
      /\ signals' = [signals EXCEPT !.inHandler = FALSE]
      /\ UNCHANGED <<made, contents, afters, held, alive, status, history>>
  BY DEF EndHandler, heapVars, AfterGC
<1>2. /\ AfterGC \in LoopType /\ LoopOk(AfterGC) /\ LoopOnce(AfterGC) /\ AfterGC.value = Nobody
      /\ AfterGC.kept \in Seq(Values)
  BY <1>1, ActiveFacts DEF FinInv, StatusOk, OnceOk, LoopOk, LoopType
<1>3. /\ AfterGC' = Off /\ AtExit' = AtExit
      /\ loops' \in [handler : LoopType, exit : LoopType]
      /\ signals' \in [pending : BOOLEAN, inHandler : BOOLEAN]
  BY <1>1, OffFacts DEF AfterGC, AtExit, FinInv, TypeOK
<1>4. TypeOK' /\ GraphOk' /\ (\A l : LoopOk(l)' <=> LoopOk(l))
      /\ (\A l : LoopOnce(l)' <=> LoopOnce(l)) /\ Repeats' = Repeats
  <2>1. alive' \subseteq alive /\ r' \in Seq(Values) /\ status' \in {"running", "exiting", "exited"}
        /\ TypeOK /\ GraphOk /\ UNCHANGED <<made, contents, afters, held, history>>
    BY <1>1, <1>2 DEF FinInv, TypeOK
  <2> QED BY <1>3, <2>1, FieldsKept
<1>5. StatusOk'
  <2>1. LoopOk(AfterGC)' /\ LoopOk(AtExit)'
    BY <1>3, <1>4, OffOk DEF FinInv, StatusOk, LoopOk
  <2>2. ToSet(r)' \subseteq made
    BY <1>1, <1>2 DEF LoopOk
  <2> QED BY <1>1, <1>3, <2>1, <2>2, OffFacts DEF FinInv, StatusOk
<1>6. ListedOk'
  <2>1. \A v \in made : v # Nobody
    BY GraphFacts DEF FinInv, Values, Nobody
  <2>2. \A v \in made : v \in LoopValues(AfterGC) => v \in ToSet(r)'
    BY <1>1, <1>2, <2>1, NilFacts DEF LoopValues
  <2>3. LoopValues(AtExit)' = LoopValues(AtExit)
    BY <1>3 DEF LoopValues
  <2> QED BY <1>1, <1>3, <2>2, <2>3, OffFacts DEF FinInv, ListedOk
<1>7. OnceOk'
  <2>1. LoopOnce(AfterGC)' /\ LoopOnce(AtExit)'
    BY <1>3, <1>4, OffOk DEF FinInv, OnceOk, LoopOnce
  <2>2. Once(r)' /\ \A v \in ToSet(r)' : history.begun[v] <= Repeats
    BY <1>1, <1>2 DEF LoopOnce, Once
  <2>3. \A v \in ToSet(r)' : history.begun[v] <= 0
    <3>1. CASE status = "running"
      <4>1. Repeats = 0
        BY <3>1 DEF FinInv, StatusOk, Repeats
      <4> QED BY <2>2, <4>1
    <3>2. CASE status # "running"
      <4>1. ToSet(r)' = {}
        BY <1>1, <3>2, NilFacts DEF FinInv, StatusOk
      <4> QED BY <4>1
    <3> QED BY <3>1, <3>2
  <2> QED BY <1>1, <1>3, <1>4, <2>1, <2>2, <2>3, OffFacts DEF FinInv, OnceOk
<1>8. Roots' \subseteq Roots /\ (status # "running" => Roots' = Roots)
  <2>1. Roots' = held' \cup (UNION {Entry(v) : v \in ToSet(r')}) \cup LoopRoots(Off) \cup LoopRoots(AtExit)
    BY <1>1, <1>3, RootsThen
  <2>2. LoopRoots(AfterGC) = UNION {Entry(v) : v \in ToSet(r')}
    BY <1>1, <1>2, NilFacts DEF LoopRoots, LoopOk
  <2>3. status # "running" => UNION {Entry(v) : v \in ToSet(r)} \subseteq UNION {Entry(v) : v \in ToSet(r')}
    BY NilFacts DEF FinInv, StatusOk
  <2> QED BY <1>1, <2>1, <2>2, <2>3, RootsNow, OffFacts
<1>9. ReachedIsAlive'
  <2>1. Roots \subseteq Reachable(Roots)
    BY GraphFacts, RootsMade, ReachFacts DEF FinInv
  <2> QED BY <1>1, <1>8, <2>1, AliveKept DEF FinInv, ReachedIsAlive
<1>10. RoundOk'
  <2>1. status = "exiting" => Reachable(Roots)' = Reachable(Roots)
    BY <1>1, <1>8 DEF Reachable, Closed, Entry
  <2> QED BY <1>1, <1>3, <2>1 DEF FinInv, RoundOk
<1>11. LeftAtExit'
  BY <1>1 DEF FinInv, LeftAtExit, StatusOk
<1> QED BY <1>4, <1>5, <1>6, <1>7, <1>9, <1>10, <1>11 DEF FinInv

\* The exit takes the list over, and what the GC handler has done with it is forgotten.
LEMMA CleanAtExitStep ==
  ASSUME FinInv, status = "running", CleanAtExit,
         UNCHANGED <<heapVars, alive, signals>>,
         \/ history' = history /\ AfterGC.at = "off"
         \/ history' = [history EXCEPT !.raised = TRUE]
  PROVE  FinInv'
<1>0. PICK c : c = [Clean(r) EXCEPT !.at = "collect"]
  OBVIOUS
<1>1. /\ loops' = [handler |-> Off, exit |-> c] /\ status' = "exiting" /\ r' = <<>>
      /\ UNCHANGED <<made, contents, afters, held, alive, signals>>
  BY <1>0 DEF CleanAtExit, heapVars
<1>2. /\ r \in Seq(Values) /\ Once(r) /\ ToSet(r) \subseteq made
      /\ history \in Histories
  BY DEF FinInv, TypeOK, OnceOk, StatusOk, Histories
<1>3. /\ c \in LoopType /\ c.at = "collect" /\ c.todo = r /\ c.kept = <<>> /\ ~c.gotOne
      /\ c.value = Nobody /\ c.touches = {}
  <2>1. Clean(r) \in LoopType
    BY <1>2, CleanFacts
  <2> QED BY <1>0, <1>2, <2>1, CleanFacts DEF LoopType
<1>4. /\ history' \in Histories /\ history'.begun = history.begun
      /\ history'.done = history.done /\ (history.raised => history'.raised)
      /\ (AfterGC.at # "off" => history'.raised)
  BY <1>2 DEF Histories
<1>5. AfterGC' = Off /\ AtExit' = c
  BY <1>1 DEF AfterGC, AtExit
<1>6. \A v : Entry(v)' = Entry(v)
  BY <1>1 DEF Entry
<1>7. TypeOK'
  BY <1>1, <1>3, <1>4, OffFacts DEF FinInv, TypeOK, Histories
<1>8. GraphOk'
  BY <1>1, <1>4, <1>6 DEF FinInv, GraphOk
<1>9. Nobody \notin made
  BY GraphFacts DEF FinInv, Nobody, Values
<1>10. LoopOk(c)' /\ LoopOk(Off)'
  BY <1>1, <1>2, <1>3, OffFacts, NilFacts DEF LoopOk
<1>11. StatusOk'
  <2>1. LoopOk(AfterGC)' /\ LoopOk(AtExit)'
    BY <1>5, <1>10 DEF LoopOk
  <2>2. ToSet(r)' \subseteq made'
    BY <1>1, NilFacts
  <2> QED BY <1>1, <1>3, <1>5, <2>1, <2>2, OffFacts DEF StatusOk
<1>12. ListedOk'
  <2>1. \A v \in made : history.done[v] = 0 => v \in ToSet(r)
    BY DEF FinInv, ListedOk
  <2>2. LoopValues(AtExit)' = ToSet(r) \cup {Nobody}
    BY <1>3, <1>5, NilFacts DEF LoopValues
  <2> QED BY <1>1, <1>4, <2>1, <2>2 DEF ListedOk
<1>13. OnceOk'
  <2>1. \A v \in ToSet(r) : history.begun[v] <= Repeats'
    <3>1. AfterGC.at = "off" => \A v \in ToSet(r) : history.begun[v] <= 0
      BY DEF FinInv, OnceOk
    <3>2. AfterGC.at # "off" => \A v \in ToSet(r) : history.begun[v] <= 1
      BY DEF FinInv, OnceOk
    <3>3. \A v \in ToSet(r) : history.begun[v] \in Nat
      BY <1>2, GraphFacts DEF FinInv, TypeOK
    <3>4. Repeats' \in {0, 1} /\ (AfterGC.at # "off" => Repeats' = 1)
      BY <1>4 DEF Repeats
    <3> QED BY <3>1, <3>2, <3>3, <3>4
  <2>2. LoopOnce(c)' /\ LoopOnce(Off)'
    BY <1>2, <1>3, <1>4, <1>9, <2>1, OffFacts, NilFacts DEF LoopOnce
  <2>3. LoopOnce(AfterGC)' /\ LoopOnce(AtExit)'
    BY <1>5, <2>2 DEF LoopOnce
  <2>4. \A v \in Values : history.done[v] <= history.begun[v] /\ history.begun[v] <= 1 + Repeats'
    <3>1. \A v \in Values : /\ history.done[v] <= history.begun[v] /\ history.begun[v] <= 1
                            /\ history.begun[v] \in Nat
      BY <1>2 DEF FinInv, OnceOk, StatusOk, Repeats, Histories
    <3>2. Repeats' \in {0, 1}
      BY DEF Repeats
    <3> QED BY <3>1, <3>2
  <2> QED BY <1>1, <1>4, <2>3, <2>4, NilFacts DEF OnceOk
<1>14. Roots' \subseteq Roots
  <2>1. Roots' = held' \cup (UNION {Entry(v) : v \in ToSet(r')}) \cup LoopRoots(Off) \cup LoopRoots(c)
    BY <1>1, <1>5, RootsThen
  <2>2. LoopRoots(c) = UNION {Entry(v) : v \in ToSet(r)}
    BY <1>3, NilFacts DEF LoopRoots
  <2> QED BY <1>1, <2>1, <2>2, RootsNow, OffFacts, NilFacts
<1>15. ReachedIsAlive'
  <2>1. Roots \subseteq Reachable(Roots)
    BY GraphFacts, RootsMade, ReachFacts DEF FinInv
  <2> QED BY <1>1, <1>14, <2>1, AliveKept DEF FinInv, ReachedIsAlive
<1>16. RoundOk' /\ LeftAtExit'
  BY <1>1, <1>3, <1>5 DEF RoundOk, LeftAtExit
<1> QED BY <1>7, <1>8, <1>11, <1>12, <1>13, <1>15, <1>16 DEF FinInv

LEMMA ExitStep == ASSUME FinInv, Exit PROVE FinInv'
<1>1. AfterGC.at = "off" /\ status = "running" /\ CleanAtExit
      /\ UNCHANGED <<heapVars, alive, signals, history>>
  BY ActiveFacts DEF Exit, FinInv
<1> QED BY <1>1, CleanAtExitStep

LEMMA FinalizerRaisesStep == ASSUME FinInv, FinalizerRaises PROVE FinInv'
<1>1. /\ Loop.at = "finalizer" /\ history' = [history EXCEPT !.raised = TRUE]
      /\ UNCHANGED <<heapVars, alive, signals>>
  BY DEF FinalizerRaises
<1>2. \/ Active = "handler" /\ status = "running"
      \/ Active = "exit" /\ status = "exiting" /\ r = <<>>
  BY <1>1, OneLoop
<1>3. CASE Active = "handler" /\ status = "running"
  BY <1>1, <1>3, CleanAtExitStep DEF FinalizerRaises
<1>4. CASE Active = "exit" /\ status = "exiting" /\ r = <<>>
  <2>1. /\ status' = "exited" /\ loops' = [handler |-> Off, exit |-> Off] /\ r' = r
        /\ UNCHANGED <<made, contents, afters, held, alive, signals>>
    BY <1>1, <1>4 DEF FinalizerRaises, heapVars
  <2>2. /\ history' \in Histories /\ history'.begun = history.begun
        /\ history'.done = history.done /\ history'.raised /\ history \in Histories
    BY <1>1 DEF Histories, FinInv, TypeOK
  <2>3. AfterGC' = Off /\ AtExit' = Off
    BY <2>1 DEF AfterGC, AtExit
  <2>4. \A v : Entry(v)' = Entry(v)
    BY <2>1 DEF Entry
  <2>5. TypeOK'
    BY <2>1, <2>2, OffFacts DEF FinInv, TypeOK, Histories
  <2>6. GraphOk'
    BY <2>1, <2>2, <2>4 DEF FinInv, GraphOk
  <2>7. StatusOk'
    <3>1. LoopOk(AfterGC)' /\ LoopOk(AtExit)'
      BY <2>1, <2>3, OffFacts, NilFacts DEF LoopOk
    <3> QED BY <1>4, <2>1, <2>2, <2>3, <3>1, OffFacts, NilFacts DEF StatusOk
  <2>8. ListedOk' /\ RoundOk' /\ LeftAtExit'
    BY <2>1, <2>2 DEF ListedOk, RoundOk, LeftAtExit
  <2>9. OnceOk'
    <3>1. LoopOnce(AfterGC)' /\ LoopOnce(AtExit)'
      BY <2>3, OffFacts, NilFacts DEF LoopOnce
    <3>2. \A v \in Values : history.done[v] <= history.begun[v] /\ history.begun[v] <= 1 + Repeats'
      <4>1. \A v \in Values : /\ history.done[v] <= history.begun[v]
                              /\ history.begun[v] <= 1 + Repeats /\ history.begun[v] \in Nat
        BY <2>2 DEF FinInv, OnceOk, Histories
      <4>2. Repeats \in {0, 1} /\ Repeats' = 1
        BY <2>2 DEF Repeats
      <4> QED BY <4>1, <4>2
    <3> QED BY <1>4, <2>1, <2>2, <3>1, <3>2, NilFacts DEF OnceOk
  <2>10. Roots' \subseteq Roots
    <3>1. Roots' = held' \cup (UNION {Entry(v) : v \in ToSet(r')}) \cup LoopRoots(Off) \cup LoopRoots(Off)
      BY <2>1, <2>3, RootsThen
    <3> QED BY <2>1, <3>1, RootsNow, OffFacts
  <2>11. ReachedIsAlive'
    <3>1. Roots \subseteq Reachable(Roots)
      BY GraphFacts, RootsMade, ReachFacts DEF FinInv
    <3> QED BY <2>1, <2>10, <3>1, AliveKept DEF FinInv, ReachedIsAlive
  <2> QED BY <2>5, <2>6, <2>7, <2>8, <2>9, <2>11 DEF FinInv
<1> QED BY <1>2, <1>3, <1>4

-----------------------------------------------------------------------------
(***************************************************************************)
(* Collections, and the program.                                           *)
(***************************************************************************)
LEMMA ListsKept ==
  ASSUME FinInv, UNCHANGED <<made, r, loops, status, history>>,
         signals'.inHandler = signals.inHandler
  PROVE  StatusOk' /\ ListedOk' /\ OnceOk'
<1>1. AfterGC' = AfterGC /\ AtExit' = AtExit /\ Repeats' = Repeats
  BY DEF AfterGC, AtExit, Repeats
<1>2. StatusOk'
  <2>1. LoopOk(AfterGC)' /\ LoopOk(AtExit)'
    BY <1>1 DEF FinInv, StatusOk, LoopOk
  <2> QED BY <1>1, <2>1 DEF FinInv, StatusOk
<1>3. ListedOk'
  BY <1>1 DEF FinInv, ListedOk, LoopValues
<1>4. OnceOk'
  <2>1. LoopOnce(AfterGC)' /\ LoopOnce(AtExit)'
    BY <1>1 DEF FinInv, OnceOk, LoopOnce
  <2> QED BY <1>1, <2>1 DEF FinInv, OnceOk
<1> QED BY <1>2, <1>3, <1>4

LEMMA CollectStep == ASSUME FinInv, Collect PROVE FinInv'
<1>1. PICK X \in Closed(Roots) : Clear(X)
  BY DEF Collect
<1>2. /\ alive' = alive \cap X /\ signals'.inHandler = signals.inHandler /\ status # "exited"
      /\ signals' \in [pending : BOOLEAN, inHandler : BOOLEAN]
      /\ UNCHANGED <<made, contents, afters, held, r, loops, status, history>>
  BY <1>1 DEF Clear, Collect, heapVars, FinInv, TypeOK
<1>3. TypeOK' /\ GraphOk'
  BY <1>2 DEF FinInv, TypeOK, GraphOk, Entry
<1>4. StatusOk' /\ ListedOk' /\ OnceOk'
  BY <1>2, ListsKept
<1>5. Roots' = Roots
  BY <1>2 DEF Roots, LoopRoots, Entry
<1>6. Reachable(Roots) \subseteq alive'
  BY <1>1, <1>2 DEF FinInv, ReachedIsAlive, Reachable
<1>7. Reachable(Roots)' = Reachable(Roots)
  BY <1>2, <1>5 DEF Reachable, Closed, Entry
<1>8. ReachedIsAlive'
  BY <1>6, <1>7 DEF ReachedIsAlive
<1>9. RoundOk'
  <2> SUFFICES ASSUME status = "exiting", AtExit.at = "next", ~AtExit.gotOne
               PROVE  alive' \subseteq Reachable(Roots) /\ ToSet(AtExit.kept) \subseteq alive'
    BY <1>2, <1>7 DEF RoundOk, AtExit
  <2>1. alive \subseteq Reachable(Roots) /\ ToSet(AtExit.kept) \subseteq alive
    BY DEF FinInv, RoundOk
  <2> QED BY <1>2, <1>6, <2>1
<1>10. LeftAtExit'
  BY <1>2 DEF LeftAtExit
<1> QED BY <1>3, <1>4, <1>8, <1>9, <1>10 DEF FinInv

LEMMA CollectAtExitStep == ASSUME FinInv, CollectAtExit PROVE FinInv'
<1>0. PICK l : l = [AtExit EXCEPT !.at = "next"]
  OBVIOUS
<1>1. /\ AfterGC = Off /\ Loop = AtExit /\ AtExit.at = "collect" /\ Active = "exit"
      /\ AtExit \in LoopType /\ LoopOk(AtExit) /\ LoopOnce(AtExit)
  BY ActiveFacts DEF CollectAtExit, FinInv, StatusOk, OnceOk, LoopOk, Active, AfterGC
<1>2. status = "exiting"
  BY <1>1, OffFacts DEF FinInv, StatusOk, TypeOK
<1>3. /\ l \in LoopType /\ l.at = "next" /\ l.todo = AtExit.todo /\ l.kept = AtExit.kept
      /\ l.gotOne = AtExit.gotOne /\ l.value = AtExit.value /\ l.touches = AtExit.touches
  BY <1>0, <1>1 DEF LoopType
<1>4. /\ loops' = [loops EXCEPT !.exit = l] /\ alive' = alive \cap Reachable(Roots)
      /\ signals' = [signals EXCEPT !.pending = @ \/ ~signals.inHandler]
      /\ UNCHANGED <<made, contents, afters, held, r, status, history>>
  BY <1>0 DEF CollectAtExit, Clear, heapVars, AtExit
<1>5. /\ AfterGC' = Off /\ AtExit' = l
      /\ loops' \in [handler : LoopType, exit : LoopType]
      /\ signals' \in [pending : BOOLEAN, inHandler : BOOLEAN]
  BY <1>1, <1>3, <1>4 DEF AfterGC, AtExit, FinInv, TypeOK
<1>6. TypeOK' /\ GraphOk' /\ (\A k : LoopOk(k)' <=> LoopOk(k))
      /\ (\A k : LoopOnce(k)' <=> LoopOnce(k)) /\ Repeats' = Repeats
  <2>1. alive' \subseteq alive /\ r' \in Seq(Values) /\ status' \in {"running", "exiting", "exited"}
        /\ TypeOK /\ GraphOk /\ UNCHANGED <<made, contents, afters, held, history>>
    BY <1>4 DEF FinInv, TypeOK
  <2> QED BY <1>5, <2>1, FieldsKept
<1>7. LoopOk(l) /\ LoopOnce(l)
  BY <1>1, <1>3 DEF LoopOk, LoopOnce
<1>8. StatusOk'
  <2>1. LoopOk(AfterGC)' /\ LoopOk(AtExit)'
    BY <1>5, <1>6, <1>7, OffOk DEF LoopOk
  <2> QED BY <1>2, <1>4, <1>5, <2>1, OffFacts DEF FinInv, StatusOk
<1>9. ListedOk'
  <2>1. LoopValues(AtExit)' = LoopValues(AtExit)
    BY <1>3, <1>5 DEF LoopValues
  <2> QED BY <1>2, <1>4, <2>1 DEF FinInv, ListedOk
<1>10. OnceOk'
  <2>1. LoopOnce(AfterGC)' /\ LoopOnce(AtExit)'
    BY <1>5, <1>6, <1>7, OffOk DEF LoopOnce
  <2> QED BY <1>1, <1>4, <1>5, <1>6, <2>1 DEF FinInv, OnceOk
<1>11. Roots' = Roots
  <2>1. Roots' = held' \cup (UNION {Entry(v) : v \in ToSet(r')}) \cup LoopRoots(Off) \cup LoopRoots(l)
    BY <1>4, <1>5, RootsThen
  <2>2. LoopRoots(l) = LoopRoots(AtExit)
    BY <1>1, <1>3 DEF LoopRoots
  <2> QED BY <1>1, <1>4, <2>1, <2>2, RootsNow
<1>12. Reachable(Roots)' = Reachable(Roots)
  BY <1>4, <1>11 DEF Reachable, Closed, Entry
<1>13. ReachedIsAlive'
  BY <1>4, <1>12 DEF FinInv, ReachedIsAlive
<1>14. RoundOk'
  <2>1. ToSet(l.kept) = {}
    BY <1>1, <1>3, NilFacts DEF LoopOk
  <2> QED BY <1>4, <1>5, <1>12, <2>1 DEF RoundOk
<1>15. LeftAtExit'
  BY <1>2, <1>4 DEF LeftAtExit
<1> QED BY <1>6, <1>8, <1>9, <1>10, <1>13, <1>14, <1>15 DEF FinInv

LEMMA UserFacts ==
  ASSUME FinInv, UserCode
  PROVE  /\ InHand \subseteq Reachable(Roots) /\ Reachable(Roots) \subseteq made
         /\ \A v \in Reachable(Roots) : Entry(v) \subseteq Reachable(Roots)
         /\ Roots \subseteq Reachable(Roots)
         /\ status # "exited" /\ ~ (status = "exiting" /\ AtExit.at = "next")
<1>1. /\ Roots \subseteq made /\ Roots \subseteq Reachable(Roots)
      /\ Reachable(Roots) \subseteq made
      /\ \A v \in Reachable(Roots) : Entry(v) \subseteq Reachable(Roots)
      /\ \A v \in made : Entry(v) \subseteq made
  BY GraphFacts, RootsMade, ReachFacts DEF FinInv
<1>2. ASSUME Loop.at = "finalizer"
      PROVE  /\ contents[Loop.value] \subseteq Roots /\ status # "exited"
             /\ ~ (status = "exiting" /\ AtExit.at = "next")
  <2>1. contents[Loop.value] \subseteq LoopRoots(Loop)
    BY <1>2 DEF LoopRoots, Entry
  <2> QED BY <1>2, <2>1, OneLoop, RootsNow
<1> DEFINE X == held \cup IF Loop.at = "finalizer" THEN contents[Loop.value] ELSE {}
<1>3. X \subseteq Roots
  BY <1>2, RootsNow
<1>4. InHand = Reachable(X)
  BY DEF InHand
<1> HIDE DEF X
<1>5. InHand \subseteq Reachable(Roots)
  BY <1>1, <1>3, <1>4, ReachMonotone
<1>6. Loop.at # "finalizer" => status = "running"
  BY DEF UserCode
<1> QED BY <1>1, <1>2, <1>5, <1>6

LEMMA KeepDropStep == ASSUME FinInv, NEW v \in Values, Keep(v) \/ Drop(v) PROVE FinInv'
<1>1. /\ UserCode /\ (held' \subseteq held \/ (v \in InHand /\ held' = held \cup {v}))
      /\ UNCHANGED <<made, contents, afters, alive, r, loops, status, signals, history>>
  BY DEF Keep, Drop
<1>2. /\ InHand \subseteq Reachable(Roots) /\ Reachable(Roots) \subseteq made
      /\ Roots \subseteq Reachable(Roots)
      /\ status # "exited" /\ ~ (status = "exiting" /\ AtExit.at = "next")
  BY <1>1, UserFacts
<1>3. held' \subseteq Reachable(Roots)
  BY <1>1, <1>2, RootsNow
<1>4. TypeOK' /\ GraphOk'
  BY <1>1, <1>2, <1>3 DEF FinInv, TypeOK, GraphOk, Entry
<1>5. StatusOk' /\ ListedOk' /\ OnceOk'
  BY <1>1, ListsKept
<1>6. Roots' \subseteq held' \cup Roots
  <2>1. AfterGC' = AfterGC /\ AtExit' = AtExit
    BY <1>1 DEF AfterGC, AtExit
  <2>2. Roots' = held' \cup (UNION {Entry(u) : u \in ToSet(r')}) \cup LoopRoots(AfterGC) \cup LoopRoots(AtExit)
    BY <1>1, <2>1, RootsThen
  <2> QED BY <1>1, <2>2, RootsNow
<1>7. ReachedIsAlive'
  BY <1>1, <1>2, <1>3, <1>6, AliveKept DEF FinInv, ReachedIsAlive
<1>8. RoundOk' /\ LeftAtExit'
  BY <1>1, <1>2 DEF RoundOk, LeftAtExit, AtExit
<1> QED BY <1>4, <1>5, <1>7, <1>8 DEF FinInv

LEMMA FinalizeBeforeStep ==
  ASSUME FinInv, NEW v \in Values, NEW w \in Values, FinalizeBefore(v, w) PROVE FinInv'
<1>1. /\ UserCode /\ v \in InHand /\ w \in InHand
      /\ afters' = [afters EXCEPT ![v] = @ \cup {w}]
      /\ UNCHANGED <<made, contents, alive, held, r, loops, status, signals, history>>
  BY DEF FinalizeBefore
<1>2. /\ InHand \subseteq Reachable(Roots) /\ Reachable(Roots) \subseteq made
      /\ \A u \in Reachable(Roots) : Entry(u) \subseteq Reachable(Roots)
      /\ Roots \subseteq Reachable(Roots)
      /\ status # "exited" /\ ~ (status = "exiting" /\ AtExit.at = "next")
  BY <1>1, UserFacts
<1>3. \A u \in Values : Entry(u)' = Entry(u) \cup IF u = v THEN {w} ELSE {}
  BY <1>1 DEF Entry, FinInv, TypeOK
<1>4. v \in made /\ w \in made /\ made \subseteq Values
  BY <1>1, <1>2, GraphFacts DEF FinInv
<1>5. TypeOK'
  BY <1>1, <1>4 DEF FinInv, TypeOK
<1>6. GraphOk'
  <2>1. \A u \in Values : Entry(u)' \subseteq made
    BY <1>3, <1>4 DEF FinInv, GraphOk
  <2>2. \A u \in Values \ made : Entry(u)' = {}
    BY <1>3, <1>4 DEF FinInv, GraphOk
  <2> QED BY <1>1, <2>1, <2>2 DEF FinInv, GraphOk
<1>7. StatusOk' /\ ListedOk' /\ OnceOk'
  BY <1>1, ListsKept
<1>8. Roots' \subseteq Roots \cup {w}
  <2>1. LoopOk(AfterGC) /\ LoopOk(AtExit) /\ ToSet(r) \subseteq Values
    BY <1>4 DEF FinInv, StatusOk
  <2>2. ASSUME NEW l, LoopOk(l) PROVE LoopRoots(l)' \subseteq LoopRoots(l) \cup {w}
    <3>1. ToSet(l.todo) \cup ToSet(l.kept) \subseteq Values
          /\ (l.at = "finalizer" => l.value \in Values)
      BY <1>4, <2>2 DEF LoopOk
    <3>2. (UNION {Entry(u)' : u \in ToSet(l.todo) \cup ToSet(l.kept)})
            \subseteq (UNION {Entry(u) : u \in ToSet(l.todo) \cup ToSet(l.kept)}) \cup {w}
      BY <1>3, <3>1
    <3>3. l.at = "finalizer" => Entry(l.value)' \subseteq Entry(l.value) \cup {w}
      BY <1>3, <3>1
    <3> QED BY <3>2, <3>3 DEF LoopRoots
  <2>3. LoopRoots(loops.handler)' \subseteq LoopRoots(loops.handler) \cup {w}
    <3>1. LoopRoots(AfterGC)' \subseteq LoopRoots(AfterGC) \cup {w}
      <4>1. PICK l : l = AfterGC
        OBVIOUS
      <4>2. AfterGC' = l
        BY <1>1, <4>1 DEF AfterGC
      <4>3. LoopRoots(AfterGC)' = LoopRoots(l)'
        BY <4>2 DEF LoopRoots
      <4> QED BY <2>1, <2>2, <4>1, <4>3
    <3> QED BY <3>1 DEF AfterGC
  <2>4. LoopRoots(loops.exit)' \subseteq LoopRoots(loops.exit) \cup {w}
    <3>1. LoopRoots(AtExit)' \subseteq LoopRoots(AtExit) \cup {w}
      <4>1. PICK l : l = AtExit
        OBVIOUS
      <4>2. AtExit' = l
        BY <1>1, <4>1 DEF AtExit
      <4>3. LoopRoots(AtExit)' = LoopRoots(l)'
        BY <4>2 DEF LoopRoots
      <4> QED BY <2>1, <2>2, <4>1, <4>3
    <3> QED BY <3>1 DEF AtExit
  <2>5. (UNION {Entry(u)' : u \in ToSet(r)'}) \subseteq (UNION {Entry(u) : u \in ToSet(r)}) \cup {w}
    BY <1>1, <1>3, <2>1
  <2>6. Roots' = held' \cup (UNION {Entry(u)' : u \in ToSet(r)'})
                   \cup LoopRoots(loops.handler)' \cup LoopRoots(loops.exit)'
    BY DEF Roots
  <2> QED BY <1>1, <2>3, <2>4, <2>5, <2>6 DEF Roots
<1>9. ReachedIsAlive'
  <2>1. \A u \in Reachable(Roots) : Entry(u)' \subseteq Reachable(Roots)
    BY <1>1, <1>2, <1>3, <1>4
  <2> QED BY <1>1, <1>2, <1>8, <2>1, AliveStep DEF FinInv, ReachedIsAlive
<1>10. RoundOk' /\ LeftAtExit'
  BY <1>1, <1>2 DEF RoundOk, LeftAtExit, AtExit
<1> QED BY <1>5, <1>6, <1>7, <1>9, <1>10 DEF FinInv

\* The value made next has no history.
LEMMA NextValue ==
  ASSUME ValuesNumbered, TypeOK, GraphOk, NEW v \in Values, v = Cardinality(made) + 1
  PROVE  v \notin made /\ made \cup {v} = 1 .. Cardinality(made \cup {v})
<1>1. MaxValues \in Int /\ 1 \in Int
  BY DEF ValuesNumbered
<1>2. IsFiniteSet(1 .. MaxValues)
  BY <1>1, FS_Interval
<1>3. IsFiniteSet(made)
  BY <1>2, FS_Subset DEF TypeOK, Values
<1> DEFINE n == Cardinality(made)
<1>4. n \in Nat /\ made = 1 .. n
  BY <1>3, FS_CardinalityType DEF GraphOk
<1> HIDE DEF n
<1>5. v = n + 1
  BY DEF n
<1>6. v \notin made /\ made \cup {v} = 1 .. n + 1
  BY <1>4, <1>5
<1>7. Cardinality(made \cup {v}) = n + 1
  BY <1>3, <1>6, FS_AddElement DEF n
<1> QED BY <1>6, <1>7

LEMMA NewStep ==
  ASSUME ~Making, ValuesNumbered, FinInv, NEW v \in Values, NEW c \in SUBSET made, New(v, c)
  PROVE  FinInv'
<1>1. /\ UserCode /\ v = Cardinality(made) + 1 /\ c \subseteq InHand /\ Loop.at # "finalizer"
      /\ made' = made \cup {v} /\ alive' = alive \cup {v} /\ held' = held \cup {v}
      /\ contents' = [contents EXCEPT ![v] = c] /\ r' = <<v>> \o r
      /\ UNCHANGED <<afters, loops, status, signals, history>>
  BY DEF New
<1>2. /\ InHand \subseteq Reachable(Roots) /\ Reachable(Roots) \subseteq made
      /\ \A u \in Reachable(Roots) : Entry(u) \subseteq Reachable(Roots)
      /\ Roots \subseteq Reachable(Roots)
  BY <1>1, UserFacts
<1>3. v \notin made /\ made' = 1 .. Cardinality(made')
  BY <1>1, NextValue DEF FinInv
<1>4. made \subseteq Values /\ ToSet(r) \subseteq made /\ r \in Seq(Values) /\ Once(r)
  BY GraphFacts DEF FinInv, StatusOk, TypeOK, OnceOk
<1>5. status = "running" /\ AfterGC = Off /\ AtExit = Off /\ AfterGC' = Off /\ AtExit' = Off
  <2>1. status = "running" /\ Loop.at = "off"
    BY <1>1 DEF UserCode
  <2>2. AfterGC.at = "off"
    BY <2>1, ActiveFacts DEF FinInv
  <2> QED BY <1>1, <2>1, <2>2, OffFacts DEF FinInv, StatusOk, LoopOk, AfterGC, AtExit
<1>6. /\ \A u \in Values \ {v} : Entry(u)' = Entry(u)
      /\ Entry(v)' = c
  <2>1. Entry(v) = {}
    BY <1>3 DEF FinInv, GraphOk
  <2> QED BY <1>1, <2>1 DEF Entry, FinInv, TypeOK
<1>7. r' \in Seq(Values) /\ ToSet(r') = {v} \cup ToSet(r) /\ Once(r')
  BY <1>1, <1>3, <1>4, ConsFacts
<1>8. TypeOK'
  BY <1>1, <1>4, <1>7 DEF FinInv, TypeOK
<1>9. GraphOk'
  <2>1. \A u \in Values : Entry(u)' \subseteq made'
    BY <1>1, <1>6 DEF FinInv, GraphOk
  <2>2. \A u \in Values \ made' :
          Entry(u)' = {} /\ history'.begun[u] = 0 /\ history'.done[u] = 0
    BY <1>1, <1>6 DEF FinInv, GraphOk
  <2> QED BY <1>3, <2>1, <2>2 DEF GraphOk
<1>10. StatusOk'
  <2>1. LoopOk(AfterGC)' /\ LoopOk(AtExit)'
    BY <1>5, OffFacts, NilFacts DEF LoopOk
  <2> QED BY <1>1, <1>4, <1>5, <1>7, <2>1, OffFacts DEF FinInv, StatusOk
<1>11. ListedOk'
  <2>1. \A u \in made : history.done[u] = 0 => u \in ToSet(r)
    BY <1>5 DEF FinInv, ListedOk
  <2> QED BY <1>1, <1>5, <1>7, <2>1, OffFacts DEF ListedOk
<1>12. OnceOk'
  <2>1. LoopOnce(AfterGC)' /\ LoopOnce(AtExit)'
    BY <1>5, OffFacts, NilFacts DEF LoopOnce
  <2>2. \A u \in ToSet(r') : history.begun[u] <= 0
    BY <1>3, <1>5, <1>7, OffFacts DEF FinInv, OnceOk, GraphOk
  <2>3. Repeats' = Repeats
    BY <1>1 DEF Repeats
  <2> QED BY <1>1, <1>5, <1>7, <2>1, <2>2, <2>3, OffFacts DEF FinInv, OnceOk
<1>13. ReachedIsAlive'
  <2> DEFINE Y == Reachable(Roots) \cup {v}
  <2>1. \A u \in Reachable(Roots) : Entry(u)' \subseteq Reachable(Roots)
    BY <1>2, <1>3, <1>4, <1>6
  <2>2. Entry(v)' \subseteq Reachable(Roots)
    BY <1>1, <1>2, <1>6
  <2>3. Roots' \subseteq Y
    <3>1. LoopRoots(loops.handler)' = {} /\ LoopRoots(loops.exit)' = {}
      <4>1. loops'.handler = Off /\ loops'.exit = Off
        BY <1>5 DEF AfterGC, AtExit
      <4> QED BY <4>1, NilFacts, OffFacts DEF LoopRoots
    <3>2. Roots' = held' \cup (UNION {Entry(u)' : u \in ToSet(r')})
      BY <3>1 DEF Roots
    <3>3. \A u \in ToSet(r) : Entry(u)' = Entry(u)
      BY <1>3, <1>4, <1>6
    <3>4. (UNION {Entry(u)' : u \in ToSet(r')}) \subseteq (UNION {Entry(u) : u \in ToSet(r)}) \cup c
      BY <1>6, <1>7, <3>3
    <3>5. held \subseteq Roots /\ (UNION {Entry(u) : u \in ToSet(r)}) \subseteq Roots
      BY DEF Roots
    <3> QED BY <1>1, <1>2, <3>2, <3>4, <3>5
  <2>4. Y \subseteq made' /\ Y \subseteq alive'
    BY <1>1, <1>2 DEF FinInv, ReachedIsAlive
  <2>5. \A u \in Y : Entry(u)' \subseteq Y
    BY <2>1, <2>2
  <2> HIDE DEF Y
  <2> QED BY <2>3, <2>4, <2>5, AliveStep
<1>14. RoundOk' /\ LeftAtExit'
  BY <1>1, <1>5 DEF RoundOk, LeftAtExit
<1> QED BY <1>8, <1>9, <1>10, <1>11, <1>12, <1>13, <1>14 DEF FinInv

-----------------------------------------------------------------------------
(***************************************************************************)
(* What the exit leaves behind.                                            *)
(***************************************************************************)
LEMMA MinimalSubset ==
  ASSUME NEW S, IsFiniteSet(S), NEW T, T \subseteq SUBSET S, T # {}
  PROVE  \E X \in T : \A Y \in T : Y \subseteq X => Y = X
<1> DEFINE R == StrictSubsetOrdering(S)
<1>1. IsWellFoundedOn(R, SUBSET S)
  BY FS_FiniteSubsetsOfFinite, FS_StrictSubsetOrderingWellFounded
<1>2. R = {ss \in (SUBSET S) \X (SUBSET S) : ss[1] \subseteq ss[2] /\ ss[1] # ss[2]}
  BY DEF StrictSubsetOrdering
<1> HIDE DEF R
<1>3. PICK X \in T : \A Y \in T : <<Y, X>> \notin R
  BY <1>1, WFMin
<1>4. ASSUME NEW Y \in T, Y \subseteq X PROVE Y = X
  <2>1. <<Y, X>> \notin {ss \in (SUBSET S) \X (SUBSET S) : ss[1] \subseteq ss[2] /\ ss[1] # ss[2]}
    BY <1>2, <1>3
  <2> QED BY <1>4, <2>1
<1> QED BY <1>3, <1>4

\* In a finite relation that is transitive, who has a predecessor wherever one goes back
\* comes after a cycle.
LEMMA CycleBehind ==
  ASSUME NEW B, IsFiniteSet(B), B # {}, NEW R,
         \A u \in B : \E p \in B : <<p, u>> \in R,
         \A u, p, q \in B : <<p, u>> \in R /\ <<q, p>> \in R => <<q, u>> \in R
  PROVE  \E u \in B : <<u, u>> \in R
<1> DEFINE Before(u) == {p \in B : <<p, u>> \in R}
           T == {Before(u) : u \in B}
<1>1. T \subseteq SUBSET B /\ T # {}
  OBVIOUS
<1>2. PICK X \in T : \A Y \in T : Y \subseteq X => Y = X
  <2> HIDE DEF T
  <2> QED BY <1>1, MinimalSubset
<1>3. PICK u \in B : X = Before(u)
  OBVIOUS
<1>4. PICK p \in B : <<p, u>> \in R
  OBVIOUS
<1>5. Before(p) \subseteq Before(u) /\ Before(p) \in T
  BY <1>4
<1>6. Before(p) = Before(u)
  BY <1>2, <1>3, <1>5
<1>7. p \in Before(u)
  BY <1>4
<1> QED BY <1>6, <1>7

LEMMA Leftover ==
  ASSUME IsFiniteSet(made), held \subseteq made, \A u \in made : Entry(u) \subseteq made,
         NEW K \in SUBSET made,
         K \subseteq Reachable(held \cup UNION {Entry(u) : u \in K}),
         NEW v \in K
  PROVE  v \in Reachable(held) \/ \E w \in K : w \in Waits(w) /\ v \in {w} \cup Waits(w)
<1> HIDE DEF Entry
<1>1. /\ held \subseteq Reachable(held) /\ Reachable(held) \subseteq made
      /\ \A u \in Reachable(held) : Entry(u) \subseteq Reachable(held)
  BY ReachFacts
<1>2. ASSUME NEW u \in made
      PROVE  /\ Entry(u) \subseteq Waits(u) /\ Waits(u) \subseteq made
             /\ \A p \in Waits(u) : Entry(p) \subseteq Waits(u)
  BY ReachFacts DEF Waits
<1>3. K \subseteq Reachable(held) \cup UNION {Waits(u) : u \in K}
  <2> DEFINE X == held \cup UNION {Entry(u) : u \in K}
             Y == Reachable(held) \cup UNION {Waits(u) : u \in K}
  <2>1. X \in SUBSET made
    OBVIOUS
  <2>2. Y \in SUBSET made /\ X \subseteq Y
    BY <1>1, <1>2
  <2>3. \A u \in Y : Entry(u) \subseteq Y
    BY <1>1, <1>2
  <2>4. K \subseteq Reachable(X)
    OBVIOUS
  <2> HIDE DEF X, Y
  <2>5. Reachable(X) \subseteq Y
    BY <2>1, <2>2, <2>3, ReachFacts
  <2> QED BY <2>4, <2>5 DEF Y
<1>4. ASSUME NEW p \in made, NEW u \in Waits(p) PROVE Waits(u) \subseteq Waits(p)
  <2>1. u \in made /\ Entry(u) \subseteq Waits(p) /\ Entry(u) \in SUBSET made
        /\ Entry(p) \in SUBSET made
    BY <1>2, <1>4
  <2> QED BY <2>1, ReachMonotone DEF Waits
<1>5. ASSUME NEW u \in made, u \in Reachable(held) PROVE Waits(u) \subseteq Reachable(held)
  <2>1. Entry(u) \subseteq Reachable(held) /\ Entry(u) \in SUBSET made
    BY <1>1, <1>5
  <2> QED BY <2>1, ReachMonotone DEF Waits
<1> SUFFICES ASSUME v \notin Reachable(held)
             PROVE  \E w \in K : w \in Waits(w) /\ v \in {w} \cup Waits(w)
  OBVIOUS
<1> DEFINE B == {u \in K : u \notin Reachable(held) /\ v \in {u} \cup Waits(u)}
<1>6. IsFiniteSet(B) /\ v \in B
  BY FS_Subset
<1>7. \A u \in B : \E p \in B : u \in Waits(p)
  <2> SUFFICES ASSUME NEW u \in B PROVE \E p \in B : u \in Waits(p)
    OBVIOUS
  <2>1. PICK p \in K : u \in Waits(p)
    BY <1>3
  <2>2. p \notin Reachable(held)
    BY <1>5, <2>1
  <2>3. v \in Waits(p)
    BY <1>4, <2>1
  <2> QED BY <2>1, <2>2, <2>3
<1>8. \A u, p, q \in B : u \in Waits(p) /\ p \in Waits(q) => u \in Waits(q)
  BY <1>4
<1>9. \E u \in B : u \in Waits(u)
  <2> DEFINE R == {e \in made \X made : e[2] \in Waits(e[1])}
  <2>1. \A p, u \in B : <<p, u>> \in R <=> u \in Waits(p)
    OBVIOUS
  <2> HIDE DEF B, R
  <2>2. \A u \in B : \E p \in B : <<p, u>> \in R
    BY <1>7, <2>1
  <2>3. \A u, p, q \in B : <<p, u>> \in R /\ <<q, p>> \in R => <<q, u>> \in R
    BY <1>8, <2>1
  <2>4. \E u \in B : <<u, u>> \in R
    BY <1>6, <2>2, <2>3, CycleBehind
  <2> QED BY <2>1, <2>4
<1> QED BY <1>9

LEMMA Stutter == ASSUME FinInv, UNCHANGED vars PROVE FinInv'
<1>1. /\ UNCHANGED <<made, contents, afters, alive, held, r, loops, status, signals, history>>
      /\ TypeOK
  BY DEF vars, FinInv
<1>2. TypeOK' /\ GraphOk'
  BY <1>1 DEF FinInv, TypeOK, GraphOk, Entry
<1>3. StatusOk' /\ ListedOk' /\ OnceOk'
  BY <1>1, ListsKept
<1>4. Roots' = Roots
  BY <1>1 DEF Roots, LoopRoots, Entry
<1>5. Reachable(Roots)' = Reachable(Roots) /\ Reachable(held)' = Reachable(held)
      /\ \A v : Waits(v)' = Waits(v)
  BY <1>1, <1>4 DEF Reachable, Closed, Entry, Waits
<1>6. ReachedIsAlive' /\ RoundOk' /\ LeftAtExit'
  BY <1>1, <1>5 DEF FinInv, ReachedIsAlive, RoundOk, LeftAtExit, AtExit
<1> QED BY <1>2, <1>3, <1>6 DEF FinInv

\* A round that has finalized nothing: what is left is alive, so it can be reached.
LEMMA LastRound ==
  ASSUME ValuesNumbered, FinInv, AfterGC = Off, status = "exiting",
         AtExit.at = "next", AtExit.todo = <<>>, ~AtExit.gotOne, ~history.raised,
         NEW v \in made, history.done[v] = 0
  PROVE  v \in Reachable(held) \/
         \E w \in made : history.done[w] = 0 /\ w \in Waits(w) /\ v \in {w} \cup Waits(w)
<1> DEFINE K == ToSet(AtExit.kept)
<1>1. IsFiniteSet(made)
  <2>1. MaxValues \in Int /\ 1 \in Int
    BY DEF ValuesNumbered
  <2> QED BY <2>1, FS_Interval, FS_Subset DEF FinInv, TypeOK, Values
<1>2. made \subseteq Values /\ held \subseteq made /\ \A u \in made : Entry(u) \subseteq made
  BY GraphFacts DEF FinInv
<1>3. AtExit.value = Nobody /\ AtExit.touches = {} /\ K \in SUBSET made /\ r = <<>>
  BY DEF FinInv, StatusOk, LoopOk
<1>4. Roots = held \cup UNION {Entry(u) : u \in K}
  <2>1. LoopRoots(AtExit) = UNION {Entry(u) : u \in K}
    BY <1>3, NilFacts DEF LoopRoots
  <2> QED BY <1>3, <2>1, RootsNow, OffFacts, NilFacts
<1>5. K \subseteq Reachable(held \cup UNION {Entry(u) : u \in K})
  BY <1>4 DEF FinInv, RoundOk
<1>6. v \in K
  <2>1. v # Nobody
    BY <1>2 DEF Values, Nobody
  <2> QED BY <1>3, <2>1, NilFacts DEF FinInv, ListedOk, LoopValues
<1>7. \A w \in K : history.done[w] = 0
  <2>1. \A w \in K : history.begun[w] <= 0
    BY DEF FinInv, OnceOk, LoopOnce, Repeats
  <2>2. \A w \in K : /\ history.done[w] <= history.begun[w]
                     /\ history.done[w] \in Nat /\ history.begun[w] \in Nat
    BY <1>2, <1>3 DEF FinInv, OnceOk, TypeOK
  <2> QED BY <2>1, <2>2
<1> HIDE DEF K
<1>8. v \in Reachable(held) \/ \E w \in K : w \in Waits(w) /\ v \in {w} \cup Waits(w)
  BY <1>1, <1>2, <1>3, <1>5, <1>6, Leftover
<1> QED BY <1>3, <1>7, <1>8

LEMMA EndRoundStep == ASSUME ValuesNumbered, FinInv, EndRound PROVE FinInv'
<1>1. /\ AfterGC = Off /\ Loop = AtExit /\ AtExit.at = "next" /\ AtExit.todo = <<>>
      /\ AtExit \in LoopType /\ LoopOk(AtExit) /\ LoopOnce(AtExit)
      /\ AtExit.value = Nobody /\ AtExit.touches = {}
  BY ActiveFacts DEF EndRound, FinInv, StatusOk, OnceOk, LoopOk, Active, AfterGC
<1>2. /\ UNCHANGED <<made, contents, afters, held, alive, r, signals, history>>
      /\ status # "running"
  BY <1>1, OffFacts DEF EndRound, heapVars, FinInv, StatusOk
<1>3. CASE AtExit.gotOne
  <2>0. PICK l : l = [Clean(AtExit.kept) EXCEPT !.at = "collect"]
    OBVIOUS
  <2>1. loops' = [loops EXCEPT !.exit = l] /\ status' = status
    BY <1>1, <1>3, <2>0 DEF EndRound
  <2>2. status = "exiting"
    BY <1>1, <1>2, <1>3 DEF FinInv, StatusOk, TypeOK
  <2>3. /\ AtExit.kept \in Seq(Values) /\ ToSet(AtExit.kept) \subseteq made /\ Once(AtExit.kept)
        /\ \A v \in ToSet(AtExit.kept) : history.begun[v] <= Repeats
    BY <1>1 DEF LoopType, LoopOk, LoopOnce
  <2>4. /\ l \in LoopType /\ l.at = "collect" /\ l.todo = AtExit.kept /\ l.kept = <<>>
        /\ ~l.gotOne /\ l.value = Nobody /\ l.touches = {}
    <3>1. Clean(AtExit.kept) \in LoopType
      BY <2>3, CleanFacts
    <3> QED BY <2>0, <2>3, <3>1, CleanFacts DEF LoopType
  <2>5. /\ AfterGC' = Off /\ AtExit' = l
        /\ loops' \in [handler : LoopType, exit : LoopType]
    BY <1>1, <2>1, <2>4 DEF AfterGC, AtExit, FinInv, TypeOK
  <2>6. TypeOK' /\ GraphOk' /\ (\A k : LoopOk(k)' <=> LoopOk(k))
        /\ (\A k : LoopOnce(k)' <=> LoopOnce(k)) /\ Repeats' = Repeats
    <3>1. alive' \subseteq alive /\ r' \in Seq(Values) /\ status' \in {"running", "exiting", "exited"}
          /\ signals' \in [pending : BOOLEAN, inHandler : BOOLEAN]
          /\ TypeOK /\ GraphOk /\ UNCHANGED <<made, contents, afters, held, history>>
      BY <1>2, <2>1 DEF FinInv, TypeOK
    <3> QED BY <2>5, <3>1, FieldsKept
  <2>7. LoopOk(l) /\ LoopOnce(l)
    BY <2>3, <2>4, CleanOk DEF FinInv
  <2>8. StatusOk'
    <3>1. LoopOk(AfterGC)' /\ LoopOk(AtExit)'
      BY <2>5, <2>6, <2>7, OffOk DEF LoopOk
    <3> QED BY <1>2, <2>1, <2>2, <2>4, <2>5, <3>1, OffFacts DEF FinInv, StatusOk
  <2>9. ListedOk'
    <3>1. LoopValues(AtExit)' = LoopValues(AtExit)
      BY <1>1, <2>4, <2>5, NilFacts DEF LoopValues
    <3> QED BY <1>2, <2>1, <2>2, <3>1 DEF FinInv, ListedOk
  <2>10. OnceOk'
    <3>1. LoopOnce(AfterGC)' /\ LoopOnce(AtExit)'
      BY <2>5, <2>6, <2>7, OffOk DEF LoopOnce
    <3> QED BY <1>1, <1>2, <2>5, <2>6, <3>1, OffFacts DEF FinInv, OnceOk
  <2>11. Roots' = Roots
    <3>1. Roots' = held' \cup (UNION {Entry(v) : v \in ToSet(r')}) \cup LoopRoots(Off) \cup LoopRoots(l)
      BY <1>2, <2>5, RootsThen
    <3>2. LoopRoots(l) = LoopRoots(AtExit)
      BY <1>1, <2>4, NilFacts DEF LoopRoots
    <3> QED BY <1>1, <1>2, <3>1, <3>2, RootsNow
  <2>12. ReachedIsAlive'
    <3>1. Reachable(Roots)' = Reachable(Roots)
      BY <1>2, <2>11 DEF Reachable, Closed, Entry
    <3> QED BY <1>2, <3>1 DEF FinInv, ReachedIsAlive
  <2>13. RoundOk' /\ LeftAtExit'
    BY <2>1, <2>2, <2>4, <2>5 DEF RoundOk, LeftAtExit
  <2> QED BY <2>6, <2>8, <2>9, <2>10, <2>12, <2>13 DEF FinInv
<1>4. CASE ~AtExit.gotOne /\ status = "exited"
  <2>1. UNCHANGED vars
    BY <1>1, <1>2, <1>4 DEF EndRound, vars
  <2> QED BY <2>1, Stutter
<1>5. CASE ~AtExit.gotOne /\ status = "exiting"
  <2>1. loops' = loops /\ status' = "exited" /\ AfterGC' = AfterGC /\ AtExit' = AtExit
    BY <1>1, <1>5 DEF EndRound, AfterGC, AtExit
  <2>2. TypeOK' /\ GraphOk' /\ (\A k : LoopOk(k)' <=> LoopOk(k))
        /\ (\A k : LoopOnce(k)' <=> LoopOnce(k)) /\ Repeats' = Repeats
    <3>1. alive' \subseteq alive /\ r' \in Seq(Values) /\ status' \in {"running", "exiting", "exited"}
          /\ signals' \in [pending : BOOLEAN, inHandler : BOOLEAN]
          /\ loops' \in [handler : LoopType, exit : LoopType]
          /\ TypeOK /\ GraphOk /\ UNCHANGED <<made, contents, afters, held, history>>
      BY <1>2, <2>1 DEF FinInv, TypeOK
    <3> QED BY <3>1, FieldsKept
  <2>3. StatusOk'
    <3>1. LoopOk(AfterGC)' /\ LoopOk(AtExit)'
      BY <2>1, <2>2 DEF FinInv, StatusOk, LoopOk
    <3> QED BY <1>1, <1>2, <1>5, <2>1, <3>1, OffFacts DEF FinInv, StatusOk
  <2>4. OnceOk'
    <3>1. LoopOnce(AfterGC)' /\ LoopOnce(AtExit)'
      BY <2>1, <2>2 DEF FinInv, OnceOk, LoopOnce
    <3> QED BY <1>2, <2>1, <2>2, <3>1 DEF FinInv, OnceOk
  <2>5. ListedOk' /\ RoundOk'
    BY <2>1 DEF ListedOk, RoundOk
  <2>6. Reachable(Roots)' = Reachable(Roots) /\ Reachable(held)' = Reachable(held)
        /\ \A v : Waits(v)' = Waits(v)
    <3>1. Roots' = Roots
      BY <1>2, <2>1 DEF Roots, LoopRoots, Entry
    <3> QED BY <1>2, <3>1 DEF Reachable, Closed, Entry, Waits
  <2>7. ReachedIsAlive'
    BY <1>2, <2>6 DEF FinInv, ReachedIsAlive
  <2>8. LeftAtExit'
    <3>1. ASSUME ~history.raised, NEW v \in made, history.done[v] = 0
          PROVE  v \in Reachable(held) \/
                 \E w \in made : history.done[w] = 0 /\ w \in Waits(w) /\ v \in {w} \cup Waits(w)
      BY <1>1, <1>5, <3>1, LastRound
    <3> QED BY <1>2, <2>6, <3>1 DEF LeftAtExit
  <2> QED BY <2>2, <2>3, <2>4, <2>5, <2>7, <2>8 DEF FinInv
<1> QED BY <1>2, <1>3, <1>4, <1>5 DEF FinInv, TypeOK

-----------------------------------------------------------------------------
(***************************************************************************)
(* The theorems.                                                           *)
(***************************************************************************)
LEMMA InitFin == ASSUME ValuesNumbered, Init PROVE FinInv
<1>1. /\ made = {} /\ alive = {} /\ held = {} /\ r = <<>> /\ status = "running"
      /\ AfterGC = Off /\ AtExit = Off /\ contents = [v \in Values |-> {}]
      /\ afters = [v \in Values |-> {}]
      /\ history = [begun |-> [v \in Values |-> 0], done |-> [v \in Values |-> 0], raised |-> FALSE]
      /\ loops = [handler |-> Off, exit |-> Off]
      /\ signals = [pending |-> FALSE, inHandler |-> FALSE]
  BY DEF Init, AfterGC, AtExit
<1>2. TypeOK
  BY <1>1, OffFacts DEF TypeOK
<1>3. GraphOk
  <2>1. Cardinality({}) = 0
    BY FS_EmptySet
  <2>2. made = 1 .. Cardinality(made)
    BY <1>1, <2>1
  <2> QED BY <1>1, <2>2 DEF GraphOk, Entry
<1>4. StatusOk
  BY <1>1, OffFacts, OffOk, NilFacts DEF StatusOk
<1>5. ListedOk /\ RoundOk /\ LeftAtExit
  BY <1>1 DEF ListedOk, RoundOk, LeftAtExit
<1>6. OnceOk
  <2>1. Repeats \in {0, 1}
    BY DEF Repeats
  <2>2. \A v \in Values : history.done[v] <= history.begun[v] /\ history.begun[v] <= 1 + Repeats
    BY <1>1, <2>1
  <2> QED BY <1>1, <2>2, OffFacts, OffOk, NilFacts DEF OnceOk
<1>7. ReachedIsAlive
  BY <1>1 DEF ReachedIsAlive, Reachable
<1> QED BY <1>2, <1>3, <1>4, <1>5, <1>6, <1>7 DEF FinInv

LEMMA FinStep ==
  ASSUME ~Making, ValuesNumbered, FinInv, [Next]_vars
  PROVE  FinInv'
<1>1. CASE UNCHANGED vars
  BY <1>1, Stutter
<1>2. CASE Collect
  BY <1>2, CollectStep
<1>3. ASSUME NEW v \in Values, NEW c \in SUBSET made, New(v, c) PROVE FinInv'
  BY <1>3, NewStep
<1>4. ASSUME NEW v \in Values, Keep(v) \/ Drop(v) PROVE FinInv'
  BY <1>4, KeepDropStep
<1>5. ASSUME NEW v \in Values, NEW w \in Values, FinalizeBefore(v, w) PROVE FinInv'
  BY <1>5, FinalizeBeforeStep
<1>6. CASE Exit
  BY <1>6, ExitStep
<1>7. CASE FinalizerRaises
  BY <1>7, FinalizerRaisesStep
<1>8. CASE StartHandler
  BY <1>8, StartHandlerStep
<1>9. CASE CleanNext
  BY <1>9, CleanNextStep
<1>10. CASE FinalizersReturn
  BY <1>10, FinalizersReturnStep
<1>11. CASE Cleaned
  BY <1>11, CleanedStep
<1>12. CASE EndHandler
  BY <1>12, EndHandlerStep
<1>13. CASE CollectAtExit
  BY <1>13, CollectAtExitStep
<1>14. CASE EndRound
  BY <1>14, EndRoundStep
<1>15. ASSUME NEW v \in Values, Touch(v) PROVE FinInv'
  BY <1>15, TouchStep
<1> QED BY <1>1, <1>2, <1>3, <1>4, <1>5, <1>6, <1>7, <1>8, <1>9, <1>10, <1>11, <1>12, <1>13,
           <1>14, <1>15 DEF Next, User, Library

LEMMA FinInvariant == ~Making /\ ValuesNumbered => (Spec => []FinInv)
<1> SUFFICES ASSUME ~Making, ValuesNumbered PROVE Spec => []FinInv
  OBVIOUS
<1>1. Init => FinInv
  BY InitFin
<1>2. FinInv /\ [Next]_vars => FinInv'
  BY FinStep
<1> QED BY <1>1, <1>2, PTL DEF Spec

LEMMA FinInvImplies == FinInv => FinalizersOk
<1> SUFFICES ASSUME FinInv PROVE FinalizersOk
  OBVIOUS
<1>1. FinalizedOnce
  <2>1. \A v \in Values : history.begun[v] <= 1 + Repeats
    BY DEF FinInv, OnceOk
  <2>2. 1 + Repeats = IF history.raised THEN 2 ELSE 1
    BY DEF Repeats
  <2> QED BY <2>1, <2>2 DEF FinalizedOnce
<1>2. NobodyForgotten
  <2> SUFFICES ASSUME status # "exited", NEW v \in made, history.done[v] = 0
               PROVE  v \in Listed
    BY DEF NobodyForgotten
  <2>1. v \in ToSet(r) \/ v \in LoopValues(AtExit)
    BY DEF FinInv, ListedOk, TypeOK
  <2> QED BY <2>1 DEF Listed, LoopValues, AtExit
<1> QED BY <1>1, <1>2 DEF FinInv, FinalizersOk

\* Finalizers run only for values that nobody needs, once each, and for all of those by the
\* end of the program, as long as the finalizers themselves make no finalizable values: the
\* weak pointers of Finalizable.sml, the lists that `clean` and the handlers of the GC
\* signal and of the exit pass to each other.
THEOREM Finalizers == ~Making /\ ValuesNumbered => (Spec => []FinalizersOk)
BY FinInvariant, FinInvImplies, PTL

\* The finalizers of a value begin only after those of all that are to be finalized before it
\* have ended: `touch` in the entry of v keeps w alive until v is finalized.
LEMMA InOrderStep ==
  ASSUME FinInv, [Next]_vars, NEW v \in Values, NEW w \in Values,
         history'.begun[w] # history.begun[w], w \in afters[v]
  PROVE  history.done[v] > 0
<1> SUFFICES ASSUME history.done[v] = 0 PROVE FALSE
  BY DEF FinInv, TypeOK
<1>1. CleanNext /\ Loop.todo # <<>> /\ Loop.at = "next" /\ w = Head(Loop.todo) /\ w \notin alive
  <2>1. history \in Histories
    BY DEF FinInv, TypeOK, Histories
  <2>2. CASE CleanNext
    <3> DEFINE u == Head(Loop.todo)
    <3>1. Loop.at = "next" /\ Loop.todo # <<>> /\ u \in Values
      <4>1. Loop.at = "next" /\ Loop.todo # <<>> /\ Loop \in LoopType
        BY <2>2, ActiveFacts DEF CleanNext, FinInv
      <4>2. Loop.todo \in Seq(Values)
        BY <4>1 DEF LoopType
      <4> QED BY <4>1, <4>2, TailFacts
    <3>2. u \notin alive /\ history' = [history EXCEPT !.begun[u] = @ + 1]
      BY <2>2 DEF CleanNext
    <3> HIDE DEF u
    <3>3. history'.begun = [history.begun EXCEPT ![u] = @ + 1]
      BY <2>1, <3>1, <3>2, HistoryFields
    <3>4. w = u
      BY <2>1, <3>1, <3>3 DEF Histories
    <3> QED BY <2>2, <3>1, <3>2, <3>4 DEF u
  <2>3. CASE ~CleanNext
    <3>1. history'.begun = history.begun
      <4>1. CASE Cleaned
        <5>1. Loop.value \in Values
          <6>1. LoopOk(Loop) /\ made \subseteq Values /\ Loop.at = "afters"
            BY <4>1, OneLoop, GraphFacts DEF FinInv, StatusOk, Cleaned
          <6> QED BY <6>1 DEF LoopOk
        <5>2. history' = [history EXCEPT !.done[Loop.value] = @ + 1]
          BY <4>1 DEF Cleaned
        <5> QED BY <2>1, <5>1, <5>2, HistoryFields
      <4>2. CASE FinalizerRaises
        BY <2>1, <4>2 DEF FinalizerRaises, Histories
      <4>3. CASE ~Cleaned /\ ~FinalizerRaises
        <5>1. history' = history
          BY <2>3, <4>3 DEF Next, User, Library, Collect, New, Keep, Drop, FinalizeBefore, Exit,
             StartHandler, FinalizersReturn, EndHandler, CollectAtExit, EndRound, Touch, vars
        <5> QED BY <5>1
      <4> QED BY <4>1, <4>2, <4>3
    <3> QED BY <3>1
  <2> QED BY <2>2, <2>3
<1>2. Loop.value = Nobody /\ LoopRoots(Loop) \subseteq Roots
  <2>1. LoopOk(Loop)
    BY <1>1, OneLoop DEF FinInv, StatusOk
  <2> QED BY <1>1, <2>1, OneLoop, RootsNow DEF LoopOk
<1>3. v \in made /\ v # Nobody
  <2>1. v \in made
    BY DEF FinInv, GraphOk, Entry
  <2> QED BY <2>1 DEF Values, Nobody
<1>4. v \in LoopValues(Loop)
  BY <1>1, <1>3, OneLoop DEF FinInv, ListedOk
<1>5. v \in ToSet(Loop.todo) \cup ToSet(Loop.kept)
  BY <1>2, <1>3, <1>4 DEF LoopValues
<1>6. w \in Entry(v)
  BY DEF Entry
<1>7. w \in LoopRoots(Loop)
  BY <1>5, <1>6 DEF LoopRoots
<1>8. w \in alive
  <2>1. Roots \subseteq Reachable(Roots)
    BY GraphFacts, RootsMade, ReachFacts DEF FinInv
  <2> QED BY <1>2, <1>7, <2>1 DEF FinInv, ReachedIsAlive
<1> QED BY <1>1, <1>8

THEOREM FinalizedInOrder == ~Making /\ ValuesNumbered => (Spec => FinalizeInOrder)
<1>1. FinInv /\ [Next]_vars =>
        [\A v, w \in Values :
           history'.begun[w] # history.begun[w] /\ w \in afters[v] => history.done[v] > 0]_vars
  BY InOrderStep
<1> QED BY <1>1, FinInvariant, PTL DEF Spec, FinalizeInOrder
=============================================================================
