-------------------------- MODULE CallsFromCProofs ---------------------------
(***************************************************************************)
(* Threads are held in one place, savedThread is never overwritten and C   *)
(* returns to its caller, for any number of threads, workers and nested    *)
(* calls.                                                                  *)
(***************************************************************************)
EXTENDS CallsFromC, FiniteSetTheorems, SequenceTheorems, TLAPS

(***************************************************************************)
(* The inductive invariant: of thread c running, thread s in the slot and  *)
(* depth a of critical sections.                                           *)
(***************************************************************************)
Frames    == [caller : Users, depth : Nat, worker : Workers \cup {NoThread}]
Top       == frames[Len(frames)]
Served(c) == rt = "ml" /\ c # CallFromCHandler

\* BaseDepth, of the calls F.
DepthIn(F, t) ==
  IF t = SignalHandler THEN 1
  ELSE IF \E i \in DOMAIN F : F[i].worker = t
  THEN F[CHOOSE i \in DOMAIN F : F[i].worker = t].depth
  ELSE 0

Depth(t) == DepthIn(frames, t)

\* The calls that a worker has taken and has not finished.
Held(c) == {i \in DOMAIN frames : Served(c) \/ i < Len(frames)}

\* What MLton_callFromC and handlerLoop have in hand.
ModeOk(c, s, a) ==
  /\ Served(c) =>
       /\ c \in Users /\ pc[c] # "none"
       /\ s # NoThread <=> c = SignalHandler /\ pc[c] = "loop"
       /\ s # NoThread => s \in Threads \cup Workers /\ pc[s] = "run" /\ Depth(s) = 0
       /\ pc[c] = "run" => a = Depth(c)
       /\ pc[c] \in {"f", "start"} => a = Depth(c) + 1
       /\ pc[c] = "loop" => a = 1
  /\ ~ Served(c) => Len(frames) > 0
  /\ ~ Served(c) /\ rt \in {"ml", "called"} =>
       /\ Top.worker = NoThread /\ s = Top.caller
       /\ rt = "called" => c = s /\ a = Top.depth + 3
       /\ rt = "ml" => a = Top.depth + 2
  /\ rt \in {"returned", "back", "lowered"} =>
       /\ worker \in Workers /\ Top.worker = worker
       /\ rt = "returned" => c = worker /\ s = Top.caller /\ a = Top.depth + 1
       /\ rt = "back" => c = Top.caller /\ s = NoThread /\ a = Top.depth + 1
       /\ rt = "lowered" => c = Top.caller /\ s = NoThread /\ a = Top.depth

\* Each call has its own worker, which keeps its caller.
KeepCallers(c) ==
  \A i \in Held(c) :
    frames[i].worker \in Workers /\ savedRef[frames[i].worker] = frames[i].caller
OwnWorkers ==
  \A i, j \in DOMAIN frames :
    frames[i].worker # NoThread /\ frames[i].worker = frames[j].worker => i = j
KeepOnlyCallers(c) ==
  \A w \in Workers : savedRef[w] # NoThread => \E i \in Held(c) : frames[i].worker = w
KeptOnce ==
  \A v, w \in Workers : savedRef[v] # NoThread /\ savedRef[v] = savedRef[w] => v = w
CallersOk ==
  \A i \in DOMAIN frames :
    /\ pc[frames[i].caller] \in {"run", "f"}
    /\ pc[frames[i].caller] = "run" => frames[i].depth = Depth(frames[i].caller)
    /\ pc[frames[i].caller] = "f" => frames[i].depth = Depth(frames[i].caller) + 1

FramesOk(c) ==
  KeepCallers(c) /\ OwnWorkers /\ KeepOnlyCallers(c) /\ KeptOnce /\ CallersOk

\* A call made in a critical section ends before anything else runs.
ChainOk(c) ==
  /\ \A i, j \in DOMAIN frames : i < j /\ frames[i].depth > 0 => frames[j].depth > 0
  /\ \A i, j \in DOMAIN frames :
       j = i + 1 /\ frames[i].depth > 0 => frames[j].caller = frames[i].worker
  /\ Served(c) /\ Len(frames) > 0 /\ Top.depth > 0 => c = Top.worker

\* The places a thread may be held in.
Valued(t) == value[t] # "Dead" /\ pc[t] # "f"
Kept(t)   == \E w \in Workers : savedRef[w] = t

PlacesOk(c, s) ==
  /\ \A t \in Users : t = c =>
       ~ Valued(t) /\ ~ Kept(t) /\ (t = s => rt = "called") /\ (t = worker => rt = "returned")
  /\ \A t \in Users : Valued(t) => t # s /\ t # worker /\ ~ Kept(t)
  /\ \A t \in Users : t = s => t # worker /\ ~ Kept(t)
  /\ \A t \in Users : t = worker => ~ Kept(t)
  /\ \A t \in Threads : t = c \/ Valued(t) \/ t = s \/ Kept(t)

Calls(t) == \E i \in DOMAIN frames : frames[i].caller = t

PointsOk(c) ==
  /\ pc[CallFromCHandler] = "take" /\ pc[SignalHandler] \in {"loop", "run"}
  /\ \A t \in Threads : pc[t] \in {"run", "f", "start"}
  /\ \A w \in Workers : pc[w] \in {"run", "f", "start", "none"}
  /\ value[SignalHandler] = "Dead"
  /\ pc[SignalHandler] = "run" => c = SignalHandler \/ Calls(SignalHandler)
  /\ \A t \in Users : Valued(t) /\ value[t] = "New" => t \in Threads /\ pc[t] = "start"
  /\ \A t \in Users : Valued(t) /\ value[t] # "New" => pc[t] = "run" /\ Depth(t) = 0
  /\ \A t \in Users : pc[t] = "f" =>
       value[t] = "Paused" /\ Depth(t) = 0 /\ (c = t \/ Calls(t))
  /\ worker # NoThread => pc[worker] = "start" /\ savedRef[worker] = NoThread

Inv(c, s, a) == ModeOk(c, s, a) /\ FramesOk(c) /\ ChainOk(c) /\ PlacesOk(c, s) /\ PointsOk(c)

SwitchesOk == /\ switching = (\E t \in Users : pc[t] = "f")
              /\ \A t, u \in Users : pc[t] = "f" /\ pc[u] = "f" => t = u
              /\ rt = "died" /\ switching => gc.atomicState > 0

CallsInv ==
  /\ TypeOK /\ ~ gc.fault /\ SwitchesOk /\ PendingIsArmed
  /\ rt # "died" => Inv(gc.currentThread, gc.savedThread, gc.atomicState)

-----------------------------------------------------------------------------
(***************************************************************************)
(* Entries into the runtime: thread u runs next, at depth a, unless the    *)
(* signal handler is started in its place.                                 *)
(***************************************************************************)
GCStates ==
  [currentThread : All, savedThread : All \cup {NoThread}, atomicState : Nat,
   limit : {"zero", "heap"}, signalIsPending : BOOLEAN,
   amInSignalHandler : BOOLEAN, fault : BOOLEAN]

Armed(g) == g.atomicState = 0 /\ g.signalIsPending => g.limit = "zero"

Lands(g, u, s, a) ==
  /\ g \in GCStates /\ ~ g.fault /\ Armed(g)
  /\ \/ g.currentThread = u /\ g.savedThread = s /\ g.atomicState = a
     \/ /\ a = 0 /\ s = NoThread
        /\ g.currentThread = SignalHandler /\ g.savedThread = u /\ g.atomicState = 1

LEMMA SlotFacts ==
  ASSUME NEW g \in GCStates, ~ g.fault, NEW t \in All
  PROVE  /\ g.savedThread = NoThread =>
              LET h == SetSaved(g, t) IN
              /\ h \in GCStates /\ ~ h.fault /\ h.savedThread = t
              /\ h.currentThread = g.currentThread /\ h.atomicState = g.atomicState
              /\ h.limit = g.limit /\ h.signalIsPending = g.signalIsPending
         /\ g.savedThread # NoThread =>
              LET h == TakeSaved(g) IN
              /\ h \in GCStates /\ ~ h.fault /\ h.savedThread = NoThread
              /\ h.currentThread = g.currentThread /\ h.atomicState = g.atomicState
              /\ h.limit = g.limit /\ h.signalIsPending = g.signalIsPending
         /\ g.savedThread = NoThread => CopyThread(g) = g
<1>1. \A b \in BOOLEAN : b => Checked(g, b) = g
  <2> TAKE b \in BOOLEAN
  <2> HAVE b
  <2>1. (g.fault \/ ~ b) = g.fault
    BY DEF GCStates
  <2>2. [g EXCEPT !.fault = g.fault] = g
    BY DEF GCStates
  <2> QED BY <2>1, <2>2 DEF Checked
<1>2. g.savedThread = NoThread => Checked(g, g.savedThread = NoThread) = g
  BY <1>1
<1>3. g.savedThread # NoThread => Checked(g, g.savedThread # NoThread) = g
  BY <1>1
<1>4. g.savedThread = NoThread => SetSaved(g, t) = [g EXCEPT !.savedThread = t]
  BY <1>2 DEF SetSaved
<1>5. g.savedThread # NoThread => TakeSaved(g) = [g EXCEPT !.savedThread = NoThread]
  BY <1>3 DEF TakeSaved
<1> QED BY <1>2, <1>4, <1>5 DEF GCStates, CopyThread

LEMMA EndAtomicFacts ==
  ASSUME NEW g \in GCStates, g.atomicState > 0
  PROVE  LET h == EndAtomic(g) IN
         /\ h \in GCStates /\ h.fault = g.fault /\ Armed(h)
         /\ h.atomicState = g.atomicState - 1 /\ h.atomicState \in Nat
         /\ h.currentThread = g.currentThread /\ h.savedThread = g.savedThread
         /\ h.signalIsPending = g.signalIsPending
<1> DEFINE n == g.atomicState - 1
           e == [g EXCEPT !.atomicState = n]
<1>1. n \in Nat
  BY DEF GCStates
<1>2. e \in GCStates /\ e.atomicState = n /\ e.fault = g.fault
      /\ e.currentThread = g.currentThread /\ e.savedThread = g.savedThread
      /\ e.signalIsPending = g.signalIsPending
  <2> HIDE DEF n
  <2> QED BY <1>1 DEF GCStates
<1>3. EndAtomic(g) = IF e.atomicState = 0 /\ e.signalIsPending THEN [e EXCEPT !.limit = "zero"]
                     ELSE e
  BY DEF EndAtomic
<1> HIDE DEF e
<1>4. CASE e.atomicState = 0 /\ e.signalIsPending
  BY <1>1, <1>2, <1>3, <1>4 DEF GCStates, Armed
<1>5. CASE ~ (e.atomicState = 0 /\ e.signalIsPending)
  BY <1>1, <1>2, <1>3, <1>5 DEF Armed
<1> QED BY <1>4, <1>5

LEMMA PollFacts ==
  ASSUME NEW g \in GCStates, ~ g.fault
  PROVE  /\ ~ (g.atomicState = 1 /\ g.signalIsPending) => Poll(g) = g
         /\ g.atomicState = 1 /\ g.signalIsPending /\ g.savedThread = NoThread =>
              LET h == Poll(g) IN
              /\ h \in GCStates /\ ~ h.fault /\ h.atomicState = 2 /\ ~ h.signalIsPending
              /\ h.currentThread = SignalHandler /\ h.savedThread = g.currentThread
<1>1. ~ (g.atomicState = 1 /\ g.signalIsPending) => Poll(g) = g
  BY DEF Poll
<1>2. ASSUME g.atomicState = 1, g.signalIsPending, g.savedThread = NoThread
      PROVE  LET h == Poll(g) IN
              /\ h \in GCStates /\ ~ h.fault /\ h.atomicState = 2 /\ ~ h.signalIsPending
              /\ h.currentThread = SignalHandler /\ h.savedThread = g.currentThread
  <2> DEFINE t == g.currentThread
             k == SetSaved(g, t)
  <2>1. t \in All /\ SignalHandler \in All
    BY DEF GCStates, All, Users
  <2>2. k \in GCStates /\ ~ k.fault /\ k.savedThread = t
    BY <1>2, <2>1, SlotFacts
  <2>3. Poll(g) = [k EXCEPT !.signalIsPending = FALSE, !.amInSignalHandler = TRUE,
                            !.atomicState = 2, !.currentThread = SignalHandler]
    BY <1>2 DEF Poll
  <2> HIDE DEF k
  <2> DEFINE h == [k EXCEPT !.signalIsPending = FALSE, !.amInSignalHandler = TRUE,
                            !.atomicState = 2, !.currentThread = SignalHandler]
  <2>4. h \in GCStates /\ ~ h.fault /\ h.atomicState = 2 /\ ~ h.signalIsPending
        /\ h.currentThread = SignalHandler /\ h.savedThread = t
    BY <2>1, <2>2 DEF GCStates
  <2> HIDE DEF h
  <2>5. Poll(g) = h
    BY <2>3 DEF h
  <2> QED BY <2>4, <2>5
<1> QED BY <1>1, <1>2

\* Poll and EndAtomic, at depth a + 1.
LEMMA PollLands ==
  ASSUME NEW g \in GCStates, ~ g.fault, NEW a \in Nat, g.atomicState = a + 1,
         a = 0 => g.savedThread = NoThread
  PROVE  Lands(EndAtomic(Poll(g)), g.currentThread, g.savedThread, a)
<1>1. CASE ~ (g.atomicState = 1 /\ g.signalIsPending)
  <2>1. Poll(g) = g /\ g.atomicState > 0 /\ a + 1 - 1 = a
    BY <1>1, PollFacts
  <2> QED BY <2>1, EndAtomicFacts DEF Lands
<1>2. CASE g.atomicState = 1 /\ g.signalIsPending
  <2> DEFINE h == Poll(g)
  <2>1. a = 0
    BY <1>2
  <2>2. /\ h \in GCStates /\ ~ h.fault /\ h.atomicState = 2 /\ ~ h.signalIsPending
        /\ h.currentThread = SignalHandler /\ h.savedThread = g.currentThread
    BY <1>2, <2>1, PollFacts
  <2> HIDE DEF h
  <2>3. h.atomicState > 0 /\ 2 - 1 = 1
    BY <2>2
  <2>4. LET k == EndAtomic(h) IN
        /\ k \in GCStates /\ k.fault = h.fault /\ Armed(k)
        /\ k.atomicState = h.atomicState - 1
        /\ k.currentThread = h.currentThread /\ k.savedThread = h.savedThread
    BY <2>2, <2>3, EndAtomicFacts
  <2>5. Lands(EndAtomic(h), g.currentThread, g.savedThread, a)
    BY <2>1, <2>2, <2>3, <2>4 DEF Lands
  <2> QED BY <2>5 DEF h
<1> QED BY <1>1, <1>2

LEMMA CollectLands ==
  ASSUME NEW g \in GCStates, ~ g.fault, g.atomicState = 0 => g.savedThread = NoThread
  PROVE  Lands(Collect(g), g.currentThread, g.savedThread, g.atomicState)
<1> DEFINE a == g.atomicState
           n == a + 1
           b == [g EXCEPT !.atomicState = n, !.limit = "heap"]
<1>1. a \in Nat /\ n \in Nat
  BY DEF GCStates
<1>2. b \in GCStates /\ b.fault = g.fault /\ b.atomicState = n
      /\ b.currentThread = g.currentThread /\ b.savedThread = g.savedThread
  <2> HIDE DEF n
  <2> QED BY <1>1 DEF GCStates
<1>3. Collect(g) = EndAtomic(Poll(b))
  BY DEF Collect, BeginAtomic
<1> HIDE DEF b
<1> QED BY <1>1, <1>2, <1>3, PollLands

LEMMA SwitchLands ==
  ASSUME NEW g \in GCStates, ~ g.fault, NEW u \in All, NEW a \in Nat, g.atomicState = a + 1,
         a = 0 => g.savedThread = NoThread
  PROVE  Lands(SwitchToThread(g, u), u, g.savedThread, a)
<1> DEFINE n == g.atomicState + 1
           b == [g EXCEPT !.atomicState = n, !.limit = "heap"]
           m == b.atomicState - 1
           c == [b EXCEPT !.currentThread = u, !.atomicState = m]
<1>1. n \in Nat /\ n - 1 = a + 1 /\ a + 1 \in Nat
  BY DEF GCStates
<1>2. b \in GCStates /\ b.fault = g.fault /\ b.atomicState = n /\ b.savedThread = g.savedThread
  <2> HIDE DEF n
  <2> QED BY <1>1 DEF GCStates
<1>3. SwitchToThread(g, u) = EndAtomic(Poll(c))
  BY DEF SwitchToThread, BeginAtomic
<1> HIDE DEF b, n
<1>4. m = a + 1
  BY <1>1, <1>2
<1> HIDE DEF m
<1>5. c \in GCStates /\ ~ c.fault /\ c.atomicState = a + 1
      /\ c.currentThread = u /\ c.savedThread = g.savedThread
  BY <1>1, <1>2, <1>4 DEF GCStates
<1> HIDE DEF c
<1> QED BY <1>3, <1>5, PollLands

LEMMA AtomicBeginFacts ==
  ASSUME NEW g \in GCStates
  PROVE  LET h == AtomicBegin(g) IN
         /\ h \in GCStates /\ h.fault = g.fault
         /\ h.atomicState = g.atomicState + 1 /\ h.atomicState \in Nat /\ Armed(h)
         /\ h.currentThread = g.currentThread /\ h.savedThread = g.savedThread
<1> DEFINE n == g.atomicState + 1
           l == IF g.signalIsPending THEN "heap" ELSE g.limit
           h == [g EXCEPT !.atomicState = n, !.limit = l]
<1>1. n \in Nat /\ n # 0 /\ l \in {"zero", "heap"}
  BY DEF GCStates
<1>2. AtomicBegin(g) = h
  BY DEF AtomicBegin
<1> HIDE DEF n, l
<1>3. h \in GCStates /\ h.fault = g.fault /\ h.atomicState = n
      /\ h.currentThread = g.currentThread /\ h.savedThread = g.savedThread
  BY <1>1 DEF GCStates
<1> QED BY <1>1, <1>2, <1>3 DEF n, Armed

LEMMA AtomicEndLands ==
  ASSUME NEW g \in GCStates, ~ g.fault, NEW a \in Nat, g.atomicState = a + 1,
         a = 0 => g.savedThread = NoThread
  PROVE  Lands(AtomicEnd(g), g.currentThread, g.savedThread, a)
<1> DEFINE n == g.atomicState - 1
           e == [g EXCEPT !.atomicState = n]
<1>1. n = a /\ n \in Nat
  BY DEF GCStates
<1>2. e \in GCStates /\ e.atomicState = a /\ e.fault = g.fault
      /\ e.currentThread = g.currentThread /\ e.savedThread = g.savedThread
  <2> HIDE DEF n
  <2> QED BY <1>1 DEF GCStates
<1>3. AtomicEnd(g) = IF e.atomicState = 0 /\ e.signalIsPending THEN Collect(e) ELSE e
  BY DEF AtomicEnd
<1> HIDE DEF e
<1>4. CASE e.atomicState = 0 /\ e.signalIsPending
  BY <1>2, <1>3, <1>4, CollectLands
<1>5. CASE ~ (e.atomicState = 0 /\ e.signalIsPending)
  BY <1>2, <1>3, <1>5 DEF Lands, Armed
<1> QED BY <1>4, <1>5

-----------------------------------------------------------------------------
(***************************************************************************)
(* Depths, callers and the worker on top.                                  *)
(***************************************************************************)
LEMMA DepthFacts ==
  ASSUME ThreadsDistinct, NEW F \in Seq(Frames)
  PROVE  /\ \A t : DepthIn(F, t) \in Nat
         /\ DepthIn(F, SignalHandler) = 1
         /\ \A t : t # SignalHandler /\ (\A i \in DOMAIN F : F[i].worker # t) => DepthIn(F, t) = 0
         /\ \A i \in DOMAIN F :
              /\ F[i].worker \in Workers
              /\ \A j \in DOMAIN F : F[i].worker = F[j].worker => i = j
              => DepthIn(F, F[i].worker) = F[i].depth
<1>1. \A i \in DOMAIN F : F[i].depth \in Nat
  <2>1. \A i \in DOMAIN F : F[i] \in Frames
    BY LenProperties
  <2> QED BY <2>1 DEF Frames
<1>2. \A t : DepthIn(F, t) \in Nat
  BY <1>1 DEF DepthIn
<1>3. \A i \in DOMAIN F :
        /\ F[i].worker \in Workers
        /\ \A j \in DOMAIN F : F[i].worker = F[j].worker => i = j
        => DepthIn(F, F[i].worker) = F[i].depth
  BY DEF DepthIn, ThreadsDistinct
<1> QED BY <1>2, <1>3 DEF DepthIn

LEMMA BaseDepthIsDepth == ASSUME NEW t PROVE BaseDepth(t) = Depth(t)
  BY DEF BaseDepth, Depth, DepthIn

\* The invariant, of what is current.
Now(c, s, a) ==
  /\ TypeOK /\ ~ gc.fault /\ SwitchesOk /\ PendingIsArmed
  /\ gc.currentThread = c /\ gc.savedThread = s /\ gc.atomicState = a
  /\ Inv(c, s, a)

LEMMA TypeFacts ==
  ASSUME TypeOK
  PROVE  /\ gc \in GCStates /\ frames \in Seq(Frames) /\ DOMAIN frames = 1..Len(frames)
         /\ Len(frames) \in Nat /\ \A i \in DOMAIN frames : frames[i] \in Frames
<1>1. gc \in GCStates
  BY DEF TypeOK, GCStates
<1>2. frames \in Seq(Frames)
  BY DEF TypeOK, Frames
<1> QED BY <1>1, <1>2, LenProperties

\* What follows of callers.
LEMMA CallerFacts ==
  ASSUME ThreadsDistinct, TypeOK, NEW c \in All, FramesOk(c)
  PROVE  /\ \A t \in Users : Kept(t) => Calls(t)
         /\ \A i \in Held(c) : Kept(frames[i].caller)
         /\ \A t : Calls(t) => pc[t] \in {"run", "f"} /\ t \in Users
<1>1. ASSUME NEW t \in Users, Kept(t)
      PROVE  Calls(t)
  <2>1. PICK w \in Workers : savedRef[w] = t
    BY <1>1 DEF Kept
  <2>2. t # NoThread
    BY DEF ThreadsDistinct, Users
  <2>3. PICK i \in Held(c) : frames[i].worker = w
    BY <2>1, <2>2 DEF FramesOk, KeepOnlyCallers
  <2> QED BY <2>1, <2>3 DEF FramesOk, KeepCallers, Calls, Held
<1>2. \A i \in Held(c) : Kept(frames[i].caller)
  BY DEF FramesOk, KeepCallers, Kept
<1>3. \A t : Calls(t) => pc[t] \in {"run", "f"} /\ t \in Users
  BY TypeFacts DEF FramesOk, CallersOk, Calls, Frames
<1> QED BY <1>1, <1>2, <1>3

\* A critical section on the stack is that of the worker in front.
LEMMA TopFacts ==
  ASSUME ThreadsDistinct, TypeOK, NEW c \in All, FramesOk(c), ChainOk(c), Served(c)
  PROVE  /\ Len(frames) > 0 =>
              Top.worker \in Workers /\ Depth(Top.worker) = Top.depth
         /\ Len(frames) > 0 /\ Top.depth > 0 => c = Top.worker
         /\ \A i \in DOMAIN frames : frames[i].depth > 0 =>
              Len(frames) > 0 /\ Top.depth > 0 /\ c \in Workers /\ Depth(c) > 0
<1> USE TypeFacts
<1>1. ASSUME Len(frames) > 0
      PROVE  Top.worker \in Workers /\ Depth(Top.worker) = Top.depth
  <2>1. Len(frames) \in DOMAIN frames /\ Len(frames) \in Held(c)
    BY <1>1 DEF Held
  <2>2. Top.worker \in Workers /\ Top.worker # NoThread
    BY <2>1 DEF FramesOk, KeepCallers, Top, ThreadsDistinct
  <2>3. \A j \in DOMAIN frames : Top.worker = frames[j].worker => Len(frames) = j
    BY <2>1, <2>2 DEF FramesOk, OwnWorkers, Top
  <2> QED BY <2>1, <2>2, <2>3, DepthFacts DEF Depth, Top
<1>2. Len(frames) > 0 /\ Top.depth > 0 => c = Top.worker
  BY DEF ChainOk
<1>3. ASSUME NEW i \in DOMAIN frames, frames[i].depth > 0
      PROVE  Len(frames) > 0 /\ Top.depth > 0
  <2>1. Len(frames) > 0 /\ Len(frames) \in DOMAIN frames
    OBVIOUS
  <2>2. CASE i = Len(frames)
    BY <2>1, <2>2, <1>3 DEF Top
  <2>3. CASE i < Len(frames)
    BY <2>1, <2>3, <1>3 DEF Top, ChainOk
  <2> QED BY <2>1, <2>2, <2>3
<1> QED BY <1>1, <1>2, <1>3

\* Outside critical sections the slot is free.
LEMMA FreeAtZero ==
  ASSUME ThreadsDistinct, TypeOK, NEW c \in All, NEW s, NEW a \in Nat, Inv(c, s, a), rt = "ml", a = 0
  PROVE  s = NoThread /\ Served(c)
<1>1. Served(c)
  <2> SUFFICES ASSUME ~ Served(c) PROVE FALSE
    OBVIOUS
  <2>1. Len(frames) > 0 /\ a = Top.depth + 2
    BY DEF Inv, ModeOk
  <2>2. Top.depth \in Nat
    BY <2>1, TypeFacts DEF Top, Frames
  <2> QED BY <2>1, <2>2
<1>2. s # NoThread => a = 1
  BY <1>1 DEF Inv, ModeOk
<1> QED BY <1>1, <1>2

\* The signal handler may be started in place of a thread outside critical sections.
LEMMA InterruptOk ==
  ASSUME ThreadsDistinct, TypeOK, rt = "ml", NEW u \in All, Inv(u, NoThread, 0)
  PROVE  Inv(SignalHandler, u, 1)
<1>1. Served(u) /\ FramesOk(u) /\ ChainOk(u) /\ PlacesOk(u, NoThread) /\ PointsOk(u)
      /\ ModeOk(u, NoThread, 0) /\ u \in Users
  BY FreeAtZero DEF Inv, ModeOk
<1>2. \A t : Depth(t) \in Nat
  BY DepthFacts, TypeFacts DEF Depth
<1>3. u # SignalHandler /\ pc[u] = "run" /\ Depth(u) = 0
  <2>1. Depth(SignalHandler) = 1
    BY DepthFacts, TypeFacts DEF Depth
  <2>2. pc[u] # "none" /\ pc[u] # "loop" /\ pc[u] \notin {"f", "start"}
    BY <1>1, <1>2 DEF ModeOk
  <2>3. u \in Threads \cup Workers \cup {SignalHandler}
    BY <1>1 DEF Users
  <2>4. pc[u] = "run"
    BY <1>1, <2>2, <2>3 DEF PointsOk
  <2> QED BY <1>1, <2>1, <2>4 DEF ModeOk
<1>4. \A i \in DOMAIN frames : ~ frames[i].depth > 0
  BY <1>1, <1>2, <1>3, TopFacts
<1>5. ~ Calls(SignalHandler)
  <2> SUFFICES ASSUME NEW i \in DOMAIN frames, frames[i].caller = SignalHandler PROVE FALSE
    BY DEF Calls
  <2>1. pc[SignalHandler] = "run" /\ frames[i].depth = Depth(SignalHandler)
    BY <1>1 DEF FramesOk, CallersOk, PointsOk
  <2> QED BY <1>4, <2>1, DepthFacts, TypeFacts DEF Depth
<1>6. pc[SignalHandler] = "loop" /\ Served(SignalHandler) /\ SignalHandler \in Users
  BY <1>1, <1>3, <1>5 DEF PointsOk, Served, ThreadsDistinct, Users
<1>7. ModeOk(SignalHandler, u, 1)
  BY <1>1, <1>3, <1>6 DEF ModeOk, Served, ThreadsDistinct, Users
<1>8. FramesOk(SignalHandler)
  <2>1. Held(SignalHandler) = Held(u)
    BY <1>1, <1>6 DEF Held
  <2> QED BY <1>1, <2>1 DEF FramesOk, KeepCallers, KeepOnlyCallers
<1>9. ChainOk(SignalHandler)
  <2>1. Len(frames) > 0 => Len(frames) \in DOMAIN frames
    BY TypeFacts
  <2> QED BY <1>1, <1>4, <2>1 DEF ChainOk, Top
<1>10. PlacesOk(SignalHandler, u)
  <2>1. ~ Kept(SignalHandler)
    BY <1>1, <1>5, <1>6, CallerFacts
  <2>2. worker # SignalHandler
    BY DEF TypeOK, ThreadsDistinct
  <2>3. ~ Valued(SignalHandler) /\ rt # "returned"
    BY <1>1 DEF PointsOk, Valued
  <2>4. \A t \in Threads : t # NoThread /\ t \in Users
    BY DEF ThreadsDistinct, Users
  <2> QED BY <1>1, <1>3, <1>6, <2>1, <2>2, <2>3, <2>4 DEF PlacesOk
<1>11. PointsOk(SignalHandler)
  BY <1>1, <1>3, <1>6 DEF PointsOk
<1> QED BY <1>7, <1>8, <1>9, <1>10, <1>11 DEF Inv

\* Thread u runs next, in a state that is as it should be for u.
LandsOk(u, s, a) ==
  /\ TypeOK /\ SwitchesOk /\ rt # "died" /\ (a = 0 => rt = "ml")
  /\ Inv(u, s, a) /\ Lands(gc, u, s, a)

Landed == \E u \in All, s \in All \cup {NoThread}, a \in Nat : LandsOk(u, s, a)

LEMMA LandedOk == ASSUME ThreadsDistinct PROVE Landed => CallsInv
<1> SUFFICES ASSUME NEW u \in All, NEW s \in All \cup {NoThread}, NEW a \in Nat, LandsOk(u, s, a)
             PROVE  CallsInv
  BY DEF Landed
<1>1. TypeOK /\ SwitchesOk /\ rt # "died" /\ ~ gc.fault /\ PendingIsArmed
  BY DEF LandsOk, Lands, Armed, PendingIsArmed
<1>2. CASE gc.currentThread = u /\ gc.savedThread = s /\ gc.atomicState = a
  BY <1>1, <1>2 DEF CallsInv, LandsOk
<1>3. CASE a = 0 /\ s = NoThread /\ gc.currentThread = SignalHandler /\ gc.savedThread = u
           /\ gc.atomicState = 1
  <2>1. rt = "ml" /\ Inv(u, NoThread, 0)
    BY <1>3 DEF LandsOk
  <2>2. Inv(SignalHandler, u, 1)
    BY <1>1, <2>1, InterruptOk
  <2> QED BY <1>1, <1>3, <2>2 DEF CallsInv
<1> QED BY <1>2, <1>3 DEF LandsOk, Lands

LEMMA LandedNext == ASSUME ThreadsDistinct PROVE Landed' => CallsInv'
<1>1. Landed => CallsInv
  BY LandedOk
<1> QED BY <1>1, PTL

LEMMA NowFacts ==
  ASSUME ThreadsDistinct, NEW c, NEW s, NEW a, Now(c, s, a)
  PROVE  /\ c \in All /\ s \in All \cup {NoThread} /\ a \in Nat
         /\ gc \in GCStates /\ ~ gc.fault
         /\ gc.currentThread = c /\ gc.savedThread = s /\ gc.atomicState = a
         /\ TypeOK /\ SwitchesOk /\ ModeOk(c, s, a) /\ FramesOk(c) /\ ChainOk(c)
         /\ PlacesOk(c, s) /\ PointsOk(c) /\ Inv(c, s, a)
         /\ \A t : Depth(t) \in Nat
<1>1. gc \in GCStates /\ \A t : Depth(t) \in Nat
  BY TypeFacts, DepthFacts DEF Now, Depth
<1> QED BY <1>1 DEF Now, Inv, GCStates

-----------------------------------------------------------------------------
(***************************************************************************)
(* Steps of the runtime alone.                                             *)
(***************************************************************************)
LEMMA RuntimeStep ==
  ASSUME ThreadsDistinct, NEW c, NEW s, NEW a, Now(c, s, a), rt = "ml",
         Lands(gc', c, s, a), UNCHANGED <<rt, frames, pc, value, switching, worker, savedRef>>
  PROVE  Landed'
<1>1. Inv(c, s, a)'
  BY DEF Now, Inv, ModeOk, FramesOk, ChainOk, PlacesOk, PointsOk, KeepCallers, OwnWorkers,
         KeepOnlyCallers, KeptOnce, CallersOk, Held, Served, Top, Depth, Valued, Kept, Calls
<1>2. TypeOK'
  BY DEF Now, TypeOK, Lands, GCStates
<1>3. SwitchesOk' /\ rt' = "ml"
  BY DEF Now, SwitchesOk
<1>4. LandsOk(c, s, a)'
  BY <1>1, <1>2, <1>3 DEF LandsOk
<1> QED BY <1>4, NowFacts DEF Landed

LEMMA LimitCheckStep ==
  ASSUME ThreadsDistinct, NEW c, NEW s, NEW a, Now(c, s, a), LimitCheck
  PROVE  Landed'
<1>1. rt = "ml" /\ (a = 0 => s = NoThread)
  BY NowFacts, FreeAtZero DEF LimitCheck
<1>2. Lands(gc', c, s, a)
  BY <1>1, NowFacts, CollectLands DEF LimitCheck
<1> QED BY <1>1, <1>2, RuntimeStep DEF LimitCheck

LEMMA NestedSwitchStep ==
  ASSUME ThreadsDistinct, NEW c, NEW s, NEW a, Now(c, s, a), NEW t, NestedSwitch(t)
  PROVE  Landed'
<1>1. rt = "ml" /\ (a = 0 => s = NoThread)
  BY NowFacts, FreeAtZero DEF NestedSwitch, InUserCode, At
<1> DEFINE g == AtomicBegin(gc)
<1>2. g \in GCStates /\ ~ g.fault /\ g.atomicState = a + 1
      /\ g.currentThread = c /\ g.savedThread = s /\ a \in Nat
  BY NowFacts, AtomicBeginFacts
<1>3. gc' = AtomicEnd(g)
  BY DEF NestedSwitch
<1> HIDE DEF g
<1>4. Lands(gc', c, s, a)
  BY <1>1, <1>2, <1>3, AtomicEndLands
<1> QED BY <1>1, <1>4, RuntimeStep DEF NestedSwitch

LEMMA HandlerStep ==
  ASSUME ThreadsDistinct, NEW c, NEW s, NEW a, Now(c, s, a), GC_handler
  PROVE  Now(c, s, a)'
<1>1. /\ gc' \in GCStates /\ gc'.currentThread = c /\ gc'.savedThread = s
      /\ gc'.atomicState = a /\ ~ gc'.fault
      /\ gc'.atomicState = 0 => gc'.limit = "zero"
  <2> DEFINE l == IF gc.atomicState = 0 THEN "zero" ELSE gc.limit
  <2>1. l \in {"zero", "heap"} /\ (gc.atomicState = 0 => l = "zero")
    BY NowFacts DEF GCStates
  <2>2. gc' = [gc EXCEPT !.signalIsPending = TRUE, !.limit = l]
    BY DEF GC_handler
  <2> HIDE DEF l
  <2> QED BY <2>1, <2>2, NowFacts DEF GCStates
<1>2. TypeOK' /\ PendingIsArmed'
  BY <1>1 DEF Now, TypeOK, GCStates, PendingIsArmed, GC_handler
<1>3. SwitchesOk'
  BY DEF Now, SwitchesOk, GC_handler
<1>4. Inv(c, s, a)'
  BY DEF Now, GC_handler, Inv, ModeOk, FramesOk, ChainOk, PlacesOk, PointsOk, KeepCallers,
         OwnWorkers, KeepOnlyCallers, KeptOnce, CallersOk, Held, Served, Top, Depth, Valued,
         Kept, Calls
<1> QED BY <1>1, <1>2, <1>3, <1>4 DEF Now

-----------------------------------------------------------------------------
(***************************************************************************)
(* Steps of threads that leave the calls of C alone.                       *)
(***************************************************************************)
LEMMA ThreadStep ==
  ASSUME ThreadsDistinct, NEW c, NEW s, NEW a, Now(c, s, a), Served(c),
         UNCHANGED <<rt, frames, worker, savedRef>>,
         NEW u \in Users, \A t \in Users : t # c => pc'[t] = pc[t],
         Len(frames) > 0 /\ Top.depth > 0 => u = c
  PROVE  /\ FramesOk(u)' /\ ChainOk(u)' /\ Served(u)' /\ c \in Users /\ rt = "ml"
         /\ \A t : Depth(t)' = Depth(t)
         /\ \A t : Kept(t)' = Kept(t)
         /\ \A t : Calls(t)' = Calls(t)
         /\ ~ Calls(c)
<1>1. Served(u)' /\ c \in Users /\ rt = "ml"
  BY NowFacts DEF Served, ModeOk, ThreadsDistinct, Users
<1>2. \A t : Depth(t)' = Depth(t) /\ Kept(t)' = Kept(t) /\ Calls(t)' = Calls(t)
  BY DEF Depth, Kept, Calls
<1>3. \A i \in DOMAIN frames : i \in Held(c)
  BY DEF Held
<1>4. ~ Calls(c)
  <2> SUFFICES ASSUME NEW i \in DOMAIN frames, frames[i].caller = c PROVE FALSE
    BY DEF Calls
  <2>1. Kept(c)
    BY <1>3, NowFacts, CallerFacts
  <2> QED BY <1>1, <2>1, NowFacts DEF PlacesOk
<1>5. \A i \in DOMAIN frames : pc'[frames[i].caller] = pc[frames[i].caller]
  BY <1>4, NowFacts, CallerFacts DEF Calls
<1>6. Held(u)' = Held(c)
  BY <1>1 DEF Held
<1>7. FramesOk(u)'
  <2>1. CallersOk'
    BY <1>2, <1>5, NowFacts DEF FramesOk, CallersOk
  <2>2. (KeepCallers(u) /\ OwnWorkers /\ KeepOnlyCallers(u) /\ KeptOnce)'
    BY <1>6, NowFacts DEF FramesOk, KeepCallers, OwnWorkers, KeepOnlyCallers, KeptOnce
  <2> QED BY <2>1, <2>2 DEF FramesOk
<1>8. ChainOk(u)'
  BY <1>1, NowFacts DEF ChainOk, Top
<1> QED BY <1>1, <1>2, <1>4, <1>7, <1>8

\* A thread that has been switched to leaves the critical section of the switch.
LEMMA StartStep ==
  ASSUME ThreadsDistinct, NEW c, NEW s, NEW a, Now(c, s, a), c \in Users,
         At(c, "start"), Goto(c, "run"), gc' = AtomicEnd(gc),
         UNCHANGED <<rt, frames, value, switching, worker, savedRef>>
  PROVE  Landed'
<1>1. Served(c) /\ rt = "ml" /\ pc[c] = "start" /\ pc' = [pc EXCEPT ![c] = "run"]
  BY NowFacts DEF Served, At, Goto, PointsOk
<1>2. pc \in [All -> Points] /\ c \in All
  BY NowFacts DEF TypeOK
<1>3. pc'[c] = "run" /\ \A t \in Users : t # c => pc'[t] = pc[t]
  BY <1>1, <1>2 DEF All
<1>4. /\ FramesOk(c)' /\ ChainOk(c)' /\ Served(c)'
      /\ \A t : Depth(t)' = Depth(t) /\ Kept(t)' = Kept(t) /\ Calls(t)' = Calls(t)
  BY <1>1, <1>3, ThreadStep
<1> DEFINE d == Depth(c)
<1>5. s = NoThread /\ a = d + 1 /\ d \in Nat
  BY <1>1, NowFacts DEF ModeOk
<1>6. Lands(gc', c, s, d)
  <2> HIDE DEF d
  <2> QED BY <1>5, NowFacts, AtomicEndLands
<1>7. ModeOk(c, s, d)'
  BY <1>1, <1>3, <1>4, <1>5, NowFacts DEF ModeOk, Served
<1>8. \A t \in Users : Valued(t)' = Valued(t)
  BY <1>1, <1>3 DEF Valued
<1>9. PlacesOk(c, s)'
  BY <1>1, <1>4, <1>8, NowFacts DEF PlacesOk, Users
<1>10. PointsOk(c)'
  <2>1. c # SignalHandler /\ c # CallFromCHandler /\ c # worker
    BY <1>1, NowFacts DEF PointsOk, Served, PlacesOk
  <2>2. pc'[CallFromCHandler] = "take" /\ pc'[SignalHandler] = pc[SignalHandler]
    BY <1>1, <1>2, <2>1, NowFacts DEF PointsOk, All, Users
  <2>3. worker # NoThread => pc'[worker] = pc[worker]
    BY <1>1, <1>2, <2>1, NowFacts DEF TypeOK, All, Users
  <2>4. \A t \in Users : pc'[t] \in {"run", pc[t]}
    BY <1>3
  <2>5. \A t \in Users : Valued(t) => pc'[t] = pc[t]
    BY <1>3, NowFacts DEF PlacesOk
  <2>6. \A t \in Threads : pc'[t] \in {"run", "f", "start"}
    BY <2>4, NowFacts DEF PointsOk, Users
  <2>7. \A w \in Workers : pc'[w] \in {"run", "f", "start", "none"}
    BY <2>4, NowFacts DEF PointsOk, Users
  <2> QED BY <1>1, <1>3, <1>4, <1>8, <2>1, <2>2, <2>3, <2>5, <2>6, <2>7, NowFacts DEF PointsOk
<1>11. SwitchesOk' /\ rt' = "ml"
  <2>1. rt' = "ml" /\ switching' = switching
    BY <1>1
  <2>2. \A t \in Users : pc'[t] = "f" <=> pc[t] = "f"
    BY <1>1, <1>3
  <2>3. SwitchesOk
    BY NowFacts
  <2> QED BY <2>1, <2>2, <2>3 DEF SwitchesOk
<1>12. TypeOK'
  <2>1. "run" \in Points
    BY DEF Points
  <2>2. pc' \in [All -> Points]
    BY <1>1, <1>2, <2>1
  <2> QED BY <2>2, <1>6 DEF Now, TypeOK, Lands, GCStates
<1> QED BY <1>4, <1>5, <1>6, <1>7, <1>9, <1>10, <1>11, <1>12, NowFacts DEF Landed, LandsOk, Inv

\* Where the threads stand when the current one has moved on.
LEMMA GotoFacts ==
  ASSUME ThreadsDistinct, NEW c, NEW s, NEW a, Now(c, s, a), c \in Users, rt = "ml",
         NEW p \in Points, Goto(c, p)
  PROVE  /\ pc \in [All -> Points] /\ pc' \in [All -> Points] /\ pc'[c] = p
         /\ \A t \in Users : t # c => pc'[t] = pc[t]
         /\ \A t \in Users : Valued(t) => t # c
         /\ Served(c) /\ c # worker /\ pc'[CallFromCHandler] = "take"
         /\ worker # NoThread => pc'[worker] = "start"
         /\ (c # SignalHandler => pc'[SignalHandler] = pc[SignalHandler])
         /\ value \in [Users -> Values]
         /\ ~ Valued(c) /\ ~ Kept(c)
<1>1. pc \in [All -> Points] /\ c \in All /\ pc' = [pc EXCEPT ![c] = p]
      /\ value \in [Users -> Values]
  BY NowFacts DEF TypeOK, Goto
<1>2. c # CallFromCHandler /\ CallFromCHandler \in All /\ SignalHandler \in Users
  BY DEF Users, All, ThreadsDistinct
<1>3. ~ Valued(c) /\ ~ Kept(c) /\ c # worker
  BY NowFacts DEF PlacesOk
<1>4. pc'[c] = p /\ pc' \in [All -> Points] /\ \A t \in All : t # c => pc'[t] = pc[t]
  BY <1>1
<1>5. pc'[CallFromCHandler] = "take"
  BY <1>2, <1>4, NowFacts DEF PointsOk
<1>6. ASSUME worker # NoThread PROVE pc'[worker] = "start"
  <2>1. worker \in All
    BY <1>6, NowFacts DEF TypeOK, All, Users
  <2> QED BY <1>3, <1>4, <1>6, <2>1, NowFacts DEF PointsOk
<1>7. \A t \in Users : t \in All
  BY DEF All
<1> QED BY <1>1, <1>2, <1>3, <1>4, <1>5, <1>6, <1>7 DEF Served

LEMMA SwitchStep ==
  ASSUME ThreadsDistinct, NEW c, NEW s, NEW a, Now(c, s, a), c \in Users, Switch(c)
  PROVE  Landed'
<1>1. rt = "ml" /\ ~ switching /\ switching' = TRUE /\ c # SignalHandler /\ a = 0
      /\ (pc[c] = "run" \/ pc[c] = "f")
      /\ Goto(c, "f") /\ value' = [value EXCEPT ![c] = "Paused"]
  BY NowFacts DEF Switch, MaySwitch, InUserCode, At
<1>2. "f" \in Points /\ "Paused" \in Values
  BY DEF Points, Values
<1>3. /\ pc' \in [All -> Points] /\ pc'[c] = "f"
      /\ \A t \in Users : t # c => pc'[t] = pc[t]
      /\ Served(c) /\ c # worker /\ pc'[CallFromCHandler] = "take"
      /\ worker # NoThread => pc'[worker] = "start"
      /\ pc'[SignalHandler] = pc[SignalHandler]
      /\ value \in [Users -> Values]
      /\ ~ Valued(c) /\ ~ Kept(c)
  BY <1>1, <1>2, GotoFacts
<1>4. UNCHANGED <<rt, frames, worker, savedRef>> /\ gc' = AtomicBegin(gc)
  BY DEF Switch
<1>5. /\ FramesOk(c)' /\ ChainOk(c)' /\ Served(c)'
      /\ \A t : Depth(t)' = Depth(t) /\ Kept(t)' = Kept(t) /\ Calls(t)' = Calls(t)
  BY <1>3, <1>4, ThreadStep
<1>6. \A t \in Users : pc[t] # "f"
  BY <1>1, NowFacts DEF SwitchesOk
<1>7. s = NoThread /\ Depth(c) = 0
  <2>1. pc[c] = "run"
    BY <1>1, <1>6
  <2> QED BY <1>1, <1>3, <2>1, NowFacts DEF ModeOk
<1>8. Lands(gc', c, s, 1)
  <2> DEFINE g == AtomicBegin(gc)
  <2>1. g \in GCStates /\ ~ g.fault /\ g.atomicState = 1 /\ Armed(g)
        /\ g.currentThread = c /\ g.savedThread = s
    BY <1>1, NowFacts, AtomicBeginFacts
  <2> HIDE DEF g
  <2>2. gc' = g
    BY <1>4 DEF g
  <2> QED BY <2>1, <2>2 DEF Lands
<1>9. value' \in [Users -> Values] /\ value'[c] = "Paused"
      /\ \A t \in Users : t # c => value'[t] = value[t]
  BY <1>1, <1>2, <1>3
<1>10. ~ Valued(c)' /\ \A t \in Users : t # c => Valued(t)' = Valued(t)
  BY <1>3, <1>9 DEF Valued
<1>11. ModeOk(c, s, 1)'
  BY <1>1, <1>3, <1>4, <1>5, <1>7 DEF ModeOk
<1>12. PlacesOk(c, s)'
  <2>1. \A t \in Threads : t \in Users
    BY DEF Users
  <2> QED BY <1>1, <1>3, <1>4, <1>5, <1>10, <2>1, NowFacts DEF PlacesOk
<1>13. PointsOk(c)'
  <2>1. pc'[SignalHandler] = "run" => Calls(SignalHandler)'
    BY <1>1, <1>3, <1>5, NowFacts DEF PointsOk
  <2>2. /\ \A t \in Threads : pc'[t] \in {"run", "f", "start"}
        /\ \A w \in Workers : pc'[w] \in {"run", "f", "start", "none"}
    BY <1>3, NowFacts DEF PointsOk, Users
  <2>3. value'[SignalHandler] = "Dead" /\ pc'[SignalHandler] \in {"loop", "run"}
    BY <1>1, <1>3, <1>9, NowFacts DEF PointsOk, Users
  <2>4. \A t \in Users : Valued(t)' => Valued(t) /\ value'[t] = value[t] /\ pc'[t] = pc[t]
    BY <1>3, <1>9, <1>10
  <2>5. \A t \in Users : pc'[t] = "f" => t = c
    BY <1>3, <1>6
  <2> QED BY <1>3, <1>4, <1>5, <1>7, <1>9, <2>1, <2>2, <2>3, <2>4, <2>5, NowFacts DEF PointsOk
<1>14. SwitchesOk' /\ rt' = "ml"
  <2>1. \A t \in Users : pc'[t] = "f" <=> t = c
    BY <1>3, <1>6
  <2> QED BY <1>1, <1>4, <2>1 DEF SwitchesOk
<1>15. TypeOK'
  <2>1. switching' \in BOOLEAN
    BY <1>1
  <2> QED BY <1>3, <1>4, <1>8, <1>9, <2>1 DEF Now, TypeOK, Lands, GCStates
<1> QED BY <1>5, <1>8, <1>11, <1>12, <1>13, <1>14, <1>15, NowFacts DEF Landed, LandsOk, Inv

LEMMA SwitchFailsStep ==
  ASSUME ThreadsDistinct, NEW c, NEW s, NEW a, Now(c, s, a), c \in Users, SwitchFails(c)
  PROVE  Landed'
<1>1. rt = "ml" /\ pc[c] = "f" /\ switching' = FALSE
      /\ Goto(c, "run") /\ value' = [value EXCEPT ![c] = "Dead"]
  BY DEF SwitchFails, At
<1>2. "run" \in Points /\ "Dead" \in Values
  BY DEF Points, Values
<1>3. /\ pc' \in [All -> Points] /\ pc'[c] = "run"
      /\ \A t \in Users : t # c => pc'[t] = pc[t]
      /\ Served(c) /\ c # worker /\ pc'[CallFromCHandler] = "take"
      /\ worker # NoThread => pc'[worker] = "start"
      /\ value \in [Users -> Values]
      /\ ~ Valued(c) /\ ~ Kept(c)
  BY <1>1, <1>2, GotoFacts
<1>4. UNCHANGED <<rt, frames, worker, savedRef>> /\ gc' = AtomicEnd(gc)
  BY DEF SwitchFails
<1>5. /\ FramesOk(c)' /\ ChainOk(c)' /\ Served(c)'
      /\ \A t : Depth(t)' = Depth(t) /\ Kept(t)' = Kept(t) /\ Calls(t)' = Calls(t)
  BY <1>3, <1>4, ThreadStep
<1>6. \A t \in Users : pc'[t] # "f"
  BY <1>1, <1>3, NowFacts DEF SwitchesOk
<1>7. s = NoThread /\ Depth(c) = 0 /\ a = 0 + 1 /\ c # SignalHandler
  BY <1>1, <1>3, NowFacts DEF ModeOk, PointsOk
<1>8. Lands(gc', c, s, 0)
  BY <1>4, <1>7, NowFacts, AtomicEndLands
<1>9. value' \in [Users -> Values] /\ value'[c] = "Dead"
      /\ \A t \in Users : t # c => value'[t] = value[t]
  BY <1>1, <1>2, <1>3
<1>10. ~ Valued(c)' /\ \A t \in Users : t # c => Valued(t)' = Valued(t)
  BY <1>3, <1>9 DEF Valued
<1>11. ModeOk(c, s, 0)'
  BY <1>1, <1>3, <1>4, <1>5, <1>7 DEF ModeOk
<1>12. PlacesOk(c, s)'
  <2>1. \A t \in Threads : t \in Users
    BY DEF Users
  <2> QED BY <1>1, <1>3, <1>4, <1>5, <1>10, <2>1, NowFacts DEF PlacesOk
<1>13. PointsOk(c)'
  <2>1. pc'[SignalHandler] = pc[SignalHandler] /\ value'[SignalHandler] = value[SignalHandler]
    BY <1>3, <1>7, <1>9 DEF Users
  <2>2. /\ \A t \in Threads : pc'[t] \in {"run", "f", "start"}
        /\ \A w \in Workers : pc'[w] \in {"run", "f", "start", "none"}
    BY <1>3, NowFacts DEF PointsOk, Users
  <2>3. \A t \in Users : Valued(t)' => Valued(t) /\ value'[t] = value[t] /\ pc'[t] = pc[t]
    BY <1>3, <1>9, <1>10
  <2> QED BY <1>3, <1>4, <1>5, <1>6, <2>1, <2>2, <2>3, NowFacts DEF PointsOk
<1>14. SwitchesOk' /\ rt' = "ml"
  BY <1>1, <1>4, <1>6 DEF SwitchesOk
<1>15. TypeOK'
  <2>1. switching' \in BOOLEAN
    BY <1>1
  <2> QED BY <1>3, <1>4, <1>8, <1>9, <2>1 DEF Now, TypeOK, Lands, GCStates
<1> QED BY <1>5, <1>8, <1>11, <1>12, <1>13, <1>14, <1>15, NowFacts DEF Landed, LandsOk, Inv

\* A thread that has never run begins in the critical section of its switch.
LEMMA ResumeLands ==
  ASSUME ThreadsDistinct, NEW g \in GCStates, ~ g.fault, g.atomicState = 1,
         g.savedThread = NoThread, NEW u \in Users, SwitchTo(g, u)
  PROVE  /\ value[u] # "Dead" /\ value' = [value EXCEPT ![u] = "Dead"] /\ switching' = FALSE
         /\ value[u] = "New" => Lands(gc', u, NoThread, 1)
         /\ value[u] # "New" => Lands(gc', u, NoThread, 0)
<1>1. u \in All
  BY DEF All
<1>2. ASSUME value[u] = "New"
      PROVE  Lands(gc', u, NoThread, 1)
  <2> DEFINE h == AtomicBegin(g)
  <2>1. h \in GCStates /\ ~ h.fault /\ h.atomicState = 1 + 1 /\ h.savedThread = NoThread
    BY AtomicBeginFacts
  <2>2. CopyThread(h) = h
    <3> HIDE DEF h
    <3> QED BY <1>1, <2>1, SlotFacts
  <2>3. gc' = SwitchToThread(CopyThread(h), u)
    BY <1>2 DEF SwitchTo
  <2> HIDE DEF h
  <2> QED BY <1>1, <2>1, <2>2, <2>3, SwitchLands
<1>3. ASSUME value[u] # "New"
      PROVE  Lands(gc', u, NoThread, 0)
  <2>1. gc' = SwitchToThread(g, u) /\ 1 = 0 + 1
    BY <1>3 DEF SwitchTo
  <2> QED BY <1>1, <2>1, SwitchLands
<1> QED BY <1>2, <1>3 DEF SwitchTo

\* The threads that are resumed have left their critical sections.
LEMMA ValuedFacts ==
  ASSUME ThreadsDistinct, NEW c, NEW s, NEW a, Now(c, s, a), NEW u \in Users, Valued(u)
  PROVE  /\ Depth(u) = 0 /\ u # SignalHandler /\ ~ Kept(u) /\ u # worker /\ u # s /\ u # c
         /\ value[u] = "New" => pc[u] = "start"
         /\ value[u] # "New" => pc[u] = "run"
<1>1. u # SignalHandler
  BY NowFacts DEF PointsOk, Valued
<1>2. value[u] = "New" => pc[u] = "start" /\ Depth(u) = 0
  <2> SUFFICES ASSUME value[u] = "New" PROVE pc[u] = "start" /\ Depth(u) = 0
    OBVIOUS
  <2>1. u \in Threads /\ pc[u] = "start"
    BY NowFacts DEF PointsOk
  <2>2. frames \in Seq(Frames)
    BY NowFacts, TypeFacts
  <2>3. \A i \in DOMAIN frames : frames[i].worker # u
    BY <2>1, NowFacts, TypeFacts DEF Frames, ThreadsDistinct
  <2> QED BY <1>1, <2>1, <2>2, <2>3, DepthFacts DEF Depth
<1>3. value[u] # "New" => pc[u] = "run" /\ Depth(u) = 0
  BY NowFacts DEF PointsOk
<1> QED BY <1>1, <1>2, <1>3, NowFacts DEF PlacesOk

LEMMA AtomicSwitchStep ==
  ASSUME ThreadsDistinct, NEW c, NEW s, NEW a, Now(c, s, a), c \in Users, NEW u \in Users,
         AtomicSwitch(c, u)
  PROVE  Landed'
<1>1. rt = "ml" /\ pc[c] = "f" /\ Goto(c, "run") /\ SwitchTo(gc, u)
  BY DEF AtomicSwitch, At
<1>2. "run" \in Points /\ "Dead" \in Values
  BY DEF Points, Values
<1>3. /\ pc' \in [All -> Points] /\ pc'[c] = "run"
      /\ \A t \in Users : t # c => pc'[t] = pc[t]
      /\ Served(c) /\ c # worker /\ pc'[CallFromCHandler] = "take"
      /\ worker # NoThread => pc'[worker] = "start"
      /\ value \in [Users -> Values]
      /\ ~ Valued(c) /\ ~ Kept(c)
  BY <1>1, <1>2, GotoFacts
<1>4. UNCHANGED <<rt, frames, worker, savedRef>>
  BY DEF AtomicSwitch
<1>5. s = NoThread /\ Depth(c) = 0 /\ a = 1 /\ c # SignalHandler /\ value[c] = "Paused"
  <2>1. Depth(c) = 0 /\ value[c] = "Paused" /\ c # SignalHandler
    BY <1>1, NowFacts DEF PointsOk
  <2>2. a = Depth(c) + 1 /\ s = NoThread
    BY <1>1, <1>3, <2>1, NowFacts DEF ModeOk
  <2> QED BY <2>1, <2>2
<1>6. /\ FramesOk(u)' /\ ChainOk(u)' /\ Served(u)'
      /\ \A t : Depth(t)' = Depth(t) /\ Kept(t)' = Kept(t) /\ Calls(t)' = Calls(t)
  <2>1. ~ (Len(frames) > 0 /\ Top.depth > 0)
    BY <1>3, <1>5, NowFacts, TopFacts
  <2> QED BY <1>3, <1>4, <2>1, ThreadStep
<1>7. \A t \in Users : pc'[t] # "f" /\ (t # c => pc[t] # "f")
  BY <1>1, <1>3, NowFacts DEF SwitchesOk
<1>8. /\ value[u] # "Dead" /\ value' = [value EXCEPT ![u] = "Dead"] /\ switching' = FALSE
      /\ value[u] = "New" => Lands(gc', u, NoThread, 1)
      /\ value[u] # "New" => Lands(gc', u, NoThread, 0)
  BY <1>1, <1>5, NowFacts, ResumeLands
<1>9. value' \in [Users -> Values] /\ value'[u] = "Dead"
      /\ \A t \in Users : t # u => value'[t] = value[t]
  BY <1>2, <1>3, <1>8
<1>10. u = c \/ Valued(u)
  BY <1>7, <1>8 DEF Valued
<1>11. /\ Depth(u) = 0 /\ u # SignalHandler /\ ~ Kept(u) /\ u # worker
       /\ value[u] = "New" => pc'[u] = "start"
       /\ value[u] # "New" => pc'[u] = "run"
  BY <1>3, <1>5, <1>10, ValuedFacts
<1>12. \A t \in Users : Valued(t)' <=> t # u /\ (t = c \/ Valued(t))
  BY <1>5, <1>7, <1>9 DEF Valued
<1>13. \A b \in Nat : b = (IF value[u] = "New" THEN 1 ELSE 0) => ModeOk(u, NoThread, b)'
  BY <1>1, <1>4, <1>6, <1>11 DEF ModeOk
<1>14. PlacesOk(u, NoThread)'
  <2>1. \A t \in Users : t # NoThread
    BY DEF Users, ThreadsDistinct
  <2>2. \A t \in Threads : t \in Users
    BY DEF Users
  <2> QED BY <1>1, <1>3, <1>4, <1>5, <1>6, <1>11, <1>12, <2>1, <2>2, NowFacts DEF PlacesOk
<1>15. PointsOk(u)'
  <2>1. pc'[SignalHandler] = pc[SignalHandler] /\ value'[SignalHandler] = value[SignalHandler]
    BY <1>3, <1>5, <1>9, <1>11 DEF Users
  <2>2. /\ \A t \in Threads : pc'[t] \in {"run", "f", "start"}
        /\ \A w \in Workers : pc'[w] \in {"run", "f", "start", "none"}
    BY <1>3, NowFacts DEF PointsOk, Users
  <2>3. \A t \in Users : Valued(t)' => value'[t] = value[t] /\ (t = c \/ Valued(t))
    BY <1>9, <1>12
  <2>4. /\ \A t \in Users : Valued(t)' /\ value'[t] = "New" => t \in Threads /\ pc'[t] = "start"
        /\ \A t \in Users : Valued(t)' /\ value'[t] # "New" => pc'[t] = "run" /\ Depth(t)' = 0
    BY <1>3, <1>5, <1>6, <2>3, NowFacts DEF PointsOk
  <2> QED BY <1>3, <1>4, <1>5, <1>6, <1>7, <2>1, <2>2, <2>4, NowFacts DEF PointsOk
<1>16. SwitchesOk' /\ rt' = "ml"
  BY <1>1, <1>4, <1>7, <1>8 DEF SwitchesOk
<1>17. TypeOK'
  <2>1. switching' \in BOOLEAN
    BY <1>8
  <2> QED BY <1>3, <1>4, <1>8, <1>9, <2>1 DEF Now, TypeOK, Lands, GCStates
<1>18. u \in All /\ NoThread \in All \cup {NoThread} /\ 0 \in Nat /\ 1 \in Nat
  BY DEF All
<1>19. CASE value[u] = "New"
  BY <1>6, <1>8, <1>13, <1>14, <1>15, <1>16, <1>17, <1>18, <1>19 DEF Landed, LandsOk, Inv
<1>20. CASE value[u] # "New"
  BY <1>6, <1>8, <1>13, <1>14, <1>15, <1>16, <1>17, <1>18, <1>20 DEF Landed, LandsOk, Inv
<1> QED BY <1>19, <1>20

LEMMA TakeInterruptedStep ==
  ASSUME ThreadsDistinct, NEW c, NEW s, NEW a, Now(c, s, a), TakeInterrupted
  PROVE  Landed'
<1>1. rt = "ml" /\ c = SignalHandler /\ c \in Users /\ pc[c] = "loop" /\ Goto(c, "run")
      /\ gc' = TakeSaved(gc) /\ value' = [value EXCEPT ![s] = "Interrupted"]
  BY NowFacts DEF TakeInterrupted, At, Users
<1>2. "run" \in Points /\ "Interrupted" \in Values
  BY DEF Points, Values
<1>3. /\ pc' \in [All -> Points] /\ pc'[c] = "run"
      /\ \A t \in Users : t # c => pc'[t] = pc[t]
      /\ Served(c) /\ c # worker /\ pc'[CallFromCHandler] = "take"
      /\ worker # NoThread => pc'[worker] = "start"
      /\ value \in [Users -> Values]
      /\ ~ Valued(c) /\ ~ Kept(c)
  BY <1>1, <1>2, GotoFacts
<1>4. UNCHANGED <<rt, frames, switching, worker, savedRef>>
  BY DEF TakeInterrupted
<1>5. /\ FramesOk(c)' /\ ChainOk(c)' /\ Served(c)'
      /\ \A t : Depth(t)' = Depth(t) /\ Kept(t)' = Kept(t) /\ Calls(t)' = Calls(t)
  BY <1>1, <1>3, <1>4, ThreadStep
<1>6. /\ s \in Users /\ s # NoThread /\ s \in Threads \cup Workers /\ pc[s] = "run"
      /\ Depth(s) = 0 /\ a = 1 /\ s # c /\ s # worker /\ ~ Kept(s)
  <2>1. s # NoThread /\ s \in Threads \cup Workers /\ pc[s] = "run" /\ Depth(s) = 0 /\ a = 1
    BY <1>1, <1>3, NowFacts DEF ModeOk
  <2>2. s \in Users /\ s # SignalHandler
    BY <2>1 DEF Users, ThreadsDistinct
  <2> QED BY <1>1, <2>1, <2>2, NowFacts DEF PlacesOk
<1>7. \A t \in Users : pc'[t] = "f" <=> pc[t] = "f"
  BY <1>1, <1>3
<1>8. Lands(gc', c, NoThread, 1)
  <2>1. s \in All
    BY <1>6 DEF All
  <2>2. /\ gc' \in GCStates /\ ~ gc'.fault /\ gc'.savedThread = NoThread
        /\ gc'.currentThread = c /\ gc'.atomicState = 1
    BY <1>1, <1>6, <2>1, NowFacts, SlotFacts
  <2> QED BY <2>2 DEF Lands, Armed
<1>9. value' \in [Users -> Values] /\ value'[s] = "Interrupted"
      /\ \A t \in Users : t # s => value'[t] = value[t]
  BY <1>1, <1>2, <1>3, <1>6
<1>10. \A t \in Users : Valued(t)' <=> t = s \/ Valued(t)
  BY <1>6, <1>7, <1>9 DEF Valued
<1>11. Depth(SignalHandler) = 1
  BY NowFacts, DepthFacts, TypeFacts DEF Depth
<1>12. ModeOk(c, NoThread, 1)'
  BY <1>1, <1>3, <1>4, <1>5, <1>11 DEF ModeOk
<1>13. PlacesOk(c, NoThread)'
  <2>1. \A t \in Users : t # NoThread
    BY DEF Users, ThreadsDistinct
  <2>2. \A t \in Threads : t \in Users
    BY DEF Users
  <2> QED BY <1>1, <1>3, <1>4, <1>5, <1>6, <1>10, <2>1, <2>2, NowFacts DEF PlacesOk
<1>14. PointsOk(c)'
  <2>1. pc'[SignalHandler] = "run" /\ value'[SignalHandler] = "Dead"
    BY <1>1, <1>3, <1>6, <1>9, NowFacts DEF PointsOk
  <2>2. /\ \A t \in Threads : pc'[t] \in {"run", "f", "start"}
        /\ \A w \in Workers : pc'[w] \in {"run", "f", "start", "none"}
    BY <1>3, NowFacts DEF PointsOk, Users
  <2>3. \A t \in Users : Valued(t)' =>
          \/ t = s /\ value'[t] = "Interrupted" /\ pc'[t] = "run"
          \/ Valued(t) /\ value'[t] = value[t] /\ pc'[t] = pc[t]
    BY <1>3, <1>6, <1>9, <1>10
  <2>4. /\ \A t \in Users : Valued(t)' /\ value'[t] = "New" => t \in Threads /\ pc'[t] = "start"
        /\ \A t \in Users : Valued(t)' /\ value'[t] # "New" => pc'[t] = "run" /\ Depth(t)' = 0
    BY <1>5, <1>6, <2>3, NowFacts DEF PointsOk
  <2>5. \A t \in Users : pc'[t] = "f" => pc[t] = "f" /\ t # s /\ value'[t] = value[t] /\ t # c
    BY <1>1, <1>6, <1>7, <1>9
  <2> QED BY <1>1, <1>3, <1>4, <1>5, <2>1, <2>2, <2>4, <2>5, NowFacts DEF PointsOk
<1>15. SwitchesOk' /\ rt' = "ml"
  <2>1. rt' = "ml" /\ switching' = switching
    BY <1>1, <1>4
  <2> QED BY <1>7, <2>1, NowFacts DEF SwitchesOk
<1>16. TypeOK'
  BY <1>3, <1>4, <1>8, <1>9 DEF Now, TypeOK, Lands, GCStates
<1> QED BY <1>1, <1>5, <1>8, <1>12, <1>13, <1>14, <1>15, <1>16, NowFacts DEF Landed, LandsOk, Inv

LEMMA FinishSignalHandlerStep ==
  ASSUME ThreadsDistinct, NEW c, NEW s, NEW a, Now(c, s, a), NEW u \in Users,
         FinishSignalHandler(u)
  PROVE  Landed'
<1> DEFINE g == [Checked(gc, gc.atomicState = 1 /\ ~ switching) EXCEPT !.amInSignalHandler = FALSE]
<1>1. rt = "ml" /\ c = SignalHandler /\ c \in Users /\ pc[c] = "run" /\ Goto(c, "loop")
      /\ SwitchTo(g, u)
  BY NowFacts DEF FinishSignalHandler, At, Users
<1>2. "loop" \in Points /\ "Dead" \in Values
  BY DEF Points, Values
<1>3. /\ pc' \in [All -> Points] /\ pc'[c] = "loop"
      /\ \A t \in Users : t # c => pc'[t] = pc[t]
      /\ Served(c) /\ c # worker /\ pc'[CallFromCHandler] = "take"
      /\ worker # NoThread => pc'[worker] = "start"
      /\ value \in [Users -> Values]
      /\ ~ Valued(c) /\ ~ Kept(c)
  BY <1>1, <1>2, GotoFacts
<1>4. UNCHANGED <<rt, frames, worker, savedRef>>
  BY DEF FinishSignalHandler
<1>5. s = NoThread /\ a = 1
  <2>1. Depth(SignalHandler) = 1
    BY NowFacts, DepthFacts, TypeFacts DEF Depth
  <2> QED BY <1>1, <1>3, <2>1, NowFacts DEF ModeOk
<1>6. ~ \E i \in DOMAIN frames : frames[i].depth > 0
  <2>1. c \notin Workers
    BY <1>1 DEF ThreadsDistinct
  <2> QED BY <1>3, <2>1, NowFacts, TopFacts
<1>7. /\ FramesOk(u)' /\ ChainOk(u)' /\ Served(u)'
      /\ \A t : Depth(t)' = Depth(t) /\ Kept(t)' = Kept(t) /\ Calls(t)' = Calls(t)
  <2>1. ~ (Len(frames) > 0 /\ Top.depth > 0)
    BY <1>6, NowFacts, TypeFacts DEF Top
  <2> QED BY <1>3, <1>4, <2>1, ThreadStep
<1>8. \A t \in Users : pc[t] # "f"
  <2> SUFFICES ASSUME NEW t \in Users, pc[t] = "f" PROVE FALSE
    OBVIOUS
  <2>1. Calls(t)
    BY <1>1, NowFacts DEF PointsOk
  <2>2. PICK i \in DOMAIN frames : frames[i].caller = t
    BY <2>1 DEF Calls
  <2>3. frames[i].depth = Depth(t) + 1
    BY <2>2, NowFacts DEF FramesOk, CallersOk
  <2> QED BY <1>6, <2>3, NowFacts
<1>9. \A t \in Users : pc'[t] # "f"
  BY <1>3, <1>8
<1>10. g \in GCStates /\ ~ g.fault /\ g.atomicState = 1 /\ g.savedThread = NoThread
  <2>1. gc.atomicState = 1 /\ ~ switching
    BY <1>5, <1>8, NowFacts DEF SwitchesOk
  <2>2. (gc.fault \/ ~ (gc.atomicState = 1 /\ ~ switching)) = FALSE
    BY <2>1, NowFacts
  <2>3. Checked(gc, gc.atomicState = 1 /\ ~ switching) = [gc EXCEPT !.fault = FALSE]
    BY <2>2 DEF Checked
  <2> QED BY <1>5, <2>3, NowFacts DEF GCStates
<1>11. /\ value[u] # "Dead" /\ value' = [value EXCEPT ![u] = "Dead"] /\ switching' = FALSE
       /\ value[u] = "New" => Lands(gc', u, NoThread, 1)
       /\ value[u] # "New" => Lands(gc', u, NoThread, 0)
  <2> HIDE DEF g
  <2> QED BY <1>1, <1>10, ResumeLands
<1>12. value' \in [Users -> Values] /\ value'[u] = "Dead"
       /\ \A t \in Users : t # u => value'[t] = value[t]
  BY <1>2, <1>3, <1>11
<1>13. /\ Depth(u) = 0 /\ u # SignalHandler /\ ~ Kept(u) /\ u # worker
       /\ value[u] = "New" => pc'[u] = "start"
       /\ value[u] # "New" => pc'[u] = "run"
  <2>1. Valued(u)
    BY <1>8, <1>11 DEF Valued
  <2> QED BY <1>3, <2>1, ValuedFacts
<1>14. \A t \in Users : Valued(t)' <=> t # u /\ Valued(t)
  BY <1>8, <1>9, <1>12 DEF Valued
<1>15. \A b \in Nat : b = (IF value[u] = "New" THEN 1 ELSE 0) => ModeOk(u, NoThread, b)'
  BY <1>1, <1>4, <1>7, <1>13 DEF ModeOk
<1>16. PlacesOk(u, NoThread)'
  <2>1. \A t \in Users : t # NoThread
    BY DEF Users, ThreadsDistinct
  <2>2. \A t \in Threads : t \in Users /\ t # c
    BY <1>1 DEF Users, ThreadsDistinct
  <2> QED BY <1>1, <1>3, <1>4, <1>5, <1>7, <1>13, <1>14, <2>1, <2>2, NowFacts DEF PlacesOk
<1>17. PointsOk(u)'
  <2>1. pc'[SignalHandler] = "loop" /\ value'[SignalHandler] = value[SignalHandler]
    BY <1>1, <1>3, <1>12, <1>13
  <2>2. /\ \A t \in Threads : pc'[t] \in {"run", "f", "start"}
        /\ \A w \in Workers : pc'[w] \in {"run", "f", "start", "none"}
    <3>1. c \notin Threads /\ c \notin Workers
      BY <1>1 DEF ThreadsDistinct
    <3> QED BY <1>3, <3>1, NowFacts DEF PointsOk, Users
  <2>3. \A t \in Users : Valued(t)' => value'[t] = value[t] /\ Valued(t) /\ pc'[t] = pc[t]
    BY <1>3, <1>12, <1>14
  <2>4. /\ \A t \in Users : Valued(t)' /\ value'[t] = "New" => t \in Threads /\ pc'[t] = "start"
        /\ \A t \in Users : Valued(t)' /\ value'[t] # "New" => pc'[t] = "run" /\ Depth(t)' = 0
    BY <1>7, <2>3, NowFacts DEF PointsOk
  <2> QED BY <1>3, <1>4, <1>7, <1>9, <2>1, <2>2, <2>4, NowFacts DEF PointsOk
<1>18. SwitchesOk' /\ rt' = "ml"
  BY <1>1, <1>4, <1>9, <1>11 DEF SwitchesOk
<1>19. TypeOK'
  <2>1. switching' \in BOOLEAN
    BY <1>11
  <2> QED BY <1>3, <1>4, <1>11, <1>12, <2>1 DEF Now, TypeOK, Lands, GCStates
<1>20. u \in All /\ NoThread \in All \cup {NoThread} /\ 0 \in Nat /\ 1 \in Nat
  BY DEF All
<1>21. CASE value[u] = "New"
  BY <1>7, <1>11, <1>15, <1>16, <1>17, <1>18, <1>19, <1>20, <1>21 DEF Landed, LandsOk, Inv
<1>22. CASE value[u] # "New"
  BY <1>7, <1>11, <1>15, <1>16, <1>17, <1>18, <1>19, <1>20, <1>22 DEF Landed, LandsOk, Inv
<1> QED BY <1>21, <1>22

-----------------------------------------------------------------------------
(***************************************************************************)
(* Steps of the calls of C.                                                *)
(***************************************************************************)
Own(F) == \A i, j \in DOMAIN F : F[i].worker # NoThread /\ F[i].worker = F[j].worker => i = j

\* Calls that other workers serve say nothing of a thread's depth.
LEMMA DepthSame ==
  ASSUME ThreadsDistinct, NEW F \in Seq(Frames), NEW G \in Seq(Frames), Own(F), Own(G),
         NEW t \in Users,
         \A i \in DOMAIN F : F[i].worker = t =>
           \E j \in DOMAIN G : G[j].worker = t /\ G[j].depth = F[i].depth,
         \A i \in DOMAIN G : G[i].worker = t => \E j \in DOMAIN F : F[j].worker = t
  PROVE  DepthIn(F, t) = DepthIn(G, t)
<1>1. CASE t = SignalHandler
  BY <1>1, DepthFacts
<1>2. CASE t # SignalHandler /\ \E i \in DOMAIN F : F[i].worker = t
  <2>1. PICK i \in DOMAIN F : F[i].worker = t
    BY <1>2
  <2>2. PICK j \in DOMAIN G : G[j].worker = t /\ G[j].depth = F[i].depth
    BY <2>1
  <2>3. t \in Workers /\ t # NoThread
    <3>1. F[i] \in Frames
      BY LenProperties
    <3>2. t # NoThread
      BY DEF Users, ThreadsDistinct
    <3> QED BY <2>1, <3>1, <3>2 DEF Frames
  <2>4. DepthIn(F, t) = F[i].depth
    BY <2>1, <2>3, DepthFacts DEF Own
  <2>5. DepthIn(G, t) = G[j].depth
    BY <2>2, <2>3, DepthFacts DEF Own
  <2> QED BY <2>2, <2>4, <2>5
<1>3. CASE t # SignalHandler /\ ~ \E i \in DOMAIN F : F[i].worker = t
  BY <1>3, DepthFacts
<1> QED BY <1>1, <1>2, <1>3

LEMMA CallFromCStep ==
  ASSUME ThreadsDistinct, NEW c, NEW s, NEW a, Now(c, s, a), c \in Users, CallFromC(c)
  PROVE  Now(c, c, a + 3)'
<1> DEFINE n == Len(frames)
           call == [caller |-> c, depth |-> a, worker |-> NoThread]
<1>1. /\ rt = "ml" /\ pc[c] \in {"run", "f"} /\ rt' = "called"
      /\ gc' = [SetSaved(gc, c) EXCEPT !.atomicState = @ + 3]
      /\ frames' = Append(frames, call)
      /\ UNCHANGED <<pc, value, switching, worker, savedRef>>
  BY NowFacts DEF CallFromC, InUserCode, At
<1>2. Served(c) /\ c \in All /\ ~ Served(c)'
  BY <1>1, NowFacts DEF Served, Users, ThreadsDistinct
<1>3. /\ s = NoThread
      /\ pc[c] = "run" => a = Depth(c)
      /\ pc[c] = "f" => a = Depth(c) + 1
      /\ ~ Valued(c) /\ ~ Kept(c) /\ c # worker /\ c # NoThread
  BY <1>1, <1>2, NowFacts DEF ModeOk, PlacesOk, Users, ThreadsDistinct
<1>4. /\ gc' \in GCStates /\ gc'.currentThread = c /\ gc'.savedThread = c
      /\ gc'.atomicState = a + 3 /\ ~ gc'.fault
  <2> DEFINE k == SetSaved(gc, c)
             m == k.atomicState + 3
  <2>1. k \in GCStates /\ ~ k.fault /\ k.savedThread = c /\ k.currentThread = c
        /\ k.atomicState = a
    BY <1>2, <1>3, NowFacts, SlotFacts
  <2>2. gc' = [k EXCEPT !.atomicState = m]
    BY <1>1
  <2> HIDE DEF k
  <2>3. m = a + 3 /\ m \in Nat
    BY <2>1 DEF GCStates
  <2> HIDE DEF m
  <2> QED BY <2>1, <2>2, <2>3 DEF GCStates
<1>5. frames \in Seq(Frames) /\ call \in Frames /\ n \in Nat /\ DOMAIN frames = 1..n
      /\ call.caller = c /\ call.depth = a /\ call.worker = NoThread
  BY NowFacts, TypeFacts DEF Frames
<1> HIDE DEF call
<1>6. /\ frames' \in Seq(Frames) /\ Len(frames') = n + 1 /\ DOMAIN frames' = 1..(n + 1)
      /\ \A i \in 1..n : frames'[i] = frames[i]
      /\ frames'[n + 1] = call
  <2>1. frames' \in Seq(Frames)
    BY <1>1, <1>5, AppendProperties
  <2> QED BY <1>1, <1>5, <2>1, AppendProperties, LenProperties
<1>7. \A i \in DOMAIN frames' : i = n + 1 \/ i \in DOMAIN frames
  BY <1>5, <1>6
<1>8. Held(c)' = DOMAIN frames /\ Held(c) = DOMAIN frames
  BY <1>2, <1>5, <1>6 DEF Held
<1>9. OwnWorkers'
  BY <1>5, <1>6, <1>7, NowFacts DEF FramesOk, OwnWorkers
<1>10. \A t \in Users : Depth(t)' = Depth(t)
  <2> SUFFICES ASSUME NEW t \in Users PROVE DepthIn(frames', t) = DepthIn(frames, t)
    BY DEF Depth
  <2>1. Own(frames) /\ Own(frames')
    BY <1>9, NowFacts DEF FramesOk, OwnWorkers, Own
  <2>2. t # NoThread
    BY DEF Users, ThreadsDistinct
  <2>3. \A i \in DOMAIN frames' : frames'[i].worker = t => i \in DOMAIN frames
    BY <1>5, <1>6, <1>7, <2>2
  <2>4. \A i \in DOMAIN frames : i \in DOMAIN frames' /\ frames'[i] = frames[i]
    BY <1>5, <1>6
  <2> QED BY <1>5, <1>6, <2>1, <2>3, <2>4, DepthSame
<1>11. \A i \in DOMAIN frames : frames[i].caller \in Users
  BY NowFacts, TypeFacts DEF Frames
<1>12. CallersOk'
  <2> SUFFICES ASSUME NEW i \in DOMAIN frames'
               PROVE  /\ pc[frames'[i].caller] \in {"run", "f"}
                      /\ pc[frames'[i].caller] = "run" =>
                           frames'[i].depth = DepthIn(frames', frames'[i].caller)
                      /\ pc[frames'[i].caller] = "f" =>
                           frames'[i].depth = DepthIn(frames', frames'[i].caller) + 1
    BY <1>1 DEF CallersOk, Depth
  <2>1. CASE i = n + 1
    BY <1>1, <1>3, <1>5, <1>6, <1>10, <2>1 DEF Depth
  <2>2. CASE i \in DOMAIN frames
    BY <1>5, <1>6, <1>10, <1>11, <2>2, NowFacts DEF FramesOk, CallersOk, Depth
  <2> QED BY <1>7, <2>1, <2>2
<1>13. FramesOk(c)'
  <2>1. (KeepCallers(c) /\ KeepOnlyCallers(c) /\ KeptOnce)'
    BY <1>1, <1>5, <1>6, <1>8, NowFacts DEF FramesOk, KeepCallers, KeepOnlyCallers, KeptOnce
  <2> QED BY <1>9, <1>12, <2>1 DEF FramesOk
<1>14. ChainOk(c)'
  <2>1. \A i \in DOMAIN frames : frames[i].depth > 0 => a > 0 /\ Top.depth > 0 /\ c = Top.worker
    BY <1>1, <1>2, <1>3, NowFacts, TopFacts
  <2>2. \A i, j \in DOMAIN frames' : i < j /\ frames'[i].depth > 0 => frames'[j].depth > 0
    <3> TAKE i, j \in DOMAIN frames'
    <3> HAVE i < j /\ frames'[i].depth > 0
    <3>1. i \in DOMAIN frames /\ frames'[i] = frames[i]
      BY <1>5, <1>6
    <3>2. CASE j = n + 1
      BY <1>5, <1>6, <2>1, <3>1, <3>2
    <3>3. CASE j \in DOMAIN frames
      BY <1>5, <1>6, <3>1, <3>3, NowFacts DEF ChainOk
    <3> QED BY <1>7, <3>2, <3>3
  <2>3. \A i, j \in DOMAIN frames' :
          j = i + 1 /\ frames'[i].depth > 0 => frames'[j].caller = frames'[i].worker
    <3> TAKE i, j \in DOMAIN frames'
    <3> HAVE j = i + 1 /\ frames'[i].depth > 0
    <3>1. i \in DOMAIN frames /\ frames'[i] = frames[i]
      BY <1>5, <1>6
    <3>2. CASE j = n + 1
      BY <1>5, <1>6, <2>1, <3>1, <3>2 DEF Top
    <3>3. CASE j \in DOMAIN frames
      BY <1>5, <1>6, <3>1, <3>3, NowFacts DEF ChainOk
    <3> QED BY <1>7, <3>2, <3>3
  <2> QED BY <1>2, <2>2, <2>3 DEF ChainOk
<1>15. PlacesOk(c, c)'
  <2>1. \A t \in Threads : t # NoThread
    BY DEF ThreadsDistinct
  <2> QED BY <1>1, <1>3, <2>1, NowFacts DEF PlacesOk, Valued, Kept
<1>16. PointsOk(c)'
  <2>1. \A t : Calls(t) => Calls(t)'
    BY <1>5, <1>6 DEF Calls
  <2> QED BY <1>1, <1>10, <2>1, NowFacts DEF PointsOk, Valued
<1>17. ModeOk(c, c, a + 3)'
  BY <1>1, <1>2, <1>5, <1>6 DEF ModeOk, Top
<1>18. (TypeOK /\ SwitchesOk /\ PendingIsArmed)'
  <2>1. gc' \in GCStates /\ frames' \in Seq(Frames)
    BY <1>4, <1>6
  <2>2. TypeOK'
    BY <1>1, <2>1 DEF Now, TypeOK, GCStates, Frames
  <2> QED BY <1>1, <2>2, NowFacts DEF SwitchesOk, PendingIsArmed
<1> QED BY <1>4, <1>13, <1>14, <1>15, <1>16, <1>17, <1>18 DEF Now, Inv

LEMMA EnterMLStep ==
  ASSUME ThreadsDistinct, NEW c, NEW s, NEW a, Now(c, s, a), EnterML
  PROVE  Landed'
<1> DEFINE d == Top.depth
           u == CallFromCHandler
<1>1. /\ rt = "called" /\ rt' = "ml"
      /\ UNCHANGED <<frames, pc, value, switching, worker, savedRef>>
      /\ gc' = SwitchToThread([gc EXCEPT !.limit = IF gc.signalIsPending THEN "heap" ELSE @], u)
  BY DEF EnterML
<1>2. ~ Served(c) /\ ~ Served(u)' /\ u \in All /\ u \notin Users
  BY <1>1 DEF Served, All, Users, ThreadsDistinct
<1>3. Len(frames) > 0 /\ Top.worker = NoThread /\ s = Top.caller /\ c = s /\ a = d + 3
  BY <1>1, <1>2, NowFacts DEF ModeOk
<1>4. Len(frames) \in DOMAIN frames /\ Top \in Frames
  BY <1>3, NowFacts, TypeFacts DEF Top
<1>5. PICK e \in Nat : e = d + 2 /\ a = e + 1 /\ e # 0
  <2>1. d \in Nat
    BY <1>4 DEF Frames
  <2> QED BY <1>3, <2>1
<1>6. Lands(gc', u, s, e)
  <2> DEFINE l == IF gc.signalIsPending THEN "heap" ELSE gc.limit
             g == [gc EXCEPT !.limit = l]
  <2>1. l \in {"zero", "heap"}
    BY NowFacts DEF GCStates
  <2> HIDE DEF l
  <2>2. g \in GCStates /\ ~ g.fault /\ g.atomicState = e + 1 /\ g.savedThread = s
    BY <1>5, <2>1, NowFacts DEF GCStates
  <2>3. gc' = SwitchToThread(g, u)
    BY <1>1 DEF l
  <2> HIDE DEF g
  <2> QED BY <1>2, <1>5, <2>2, <2>3, SwitchLands
<1>7. ModeOk(u, s, e)'
  BY <1>1, <1>2, <1>3, <1>5 DEF ModeOk, Top
<1>8. FramesOk(u)'
  <2>1. Held(u)' = Held(c)
    BY <1>1, <1>2 DEF Held
  <2> QED BY <1>1, <2>1, NowFacts
          DEF FramesOk, KeepCallers, OwnWorkers, KeepOnlyCallers, KeptOnce, CallersOk, Depth
<1>9. ChainOk(u)'
  BY <1>1, <1>2, NowFacts DEF ChainOk
<1>10. PlacesOk(u, s)'
  BY <1>1, <1>2, <1>3, NowFacts DEF PlacesOk, Valued, Kept
<1>11. PointsOk(u)'
  <2>1. Calls(c)
    BY <1>3, <1>4 DEF Calls, Top
  <2> QED BY <1>1, <2>1, NowFacts DEF PointsOk, Valued, Calls, Depth
<1>12. (TypeOK /\ SwitchesOk)'
  <2>1. TypeOK'
    BY <1>1, <1>6 DEF Now, TypeOK, Lands, GCStates
  <2> QED BY <1>1, <2>1, NowFacts DEF SwitchesOk
<1>13. LandsOk(u, s, e)'
  BY <1>1, <1>5, <1>6, <1>7, <1>8, <1>9, <1>10, <1>11, <1>12 DEF LandsOk, Inv
<1> QED BY <1>2, <1>5, <1>13, NowFacts DEF Landed

\* What handlerLoop has in hand.
LEMMA TakeFacts ==
  ASSUME ThreadsDistinct, NEW c, NEW s, NEW a, Now(c, s, a), At(CallFromCHandler, "take")
  PROVE  /\ rt = "ml" /\ c = CallFromCHandler /\ ~ Served(c)
         /\ Len(frames) > 0 /\ Len(frames) \in DOMAIN frames /\ Top \in Frames
         /\ Top.worker = NoThread /\ s = Top.caller /\ s \in Users /\ s \in All /\ s # NoThread
         /\ Top.depth \in Nat /\ a = Top.depth + 2 /\ Calls(s)
         /\ TakeSaved(gc) \in GCStates /\ ~ TakeSaved(gc).fault
         /\ TakeSaved(gc).savedThread = NoThread /\ TakeSaved(gc).atomicState = a
<1>1. rt = "ml" /\ c = CallFromCHandler /\ ~ Served(c)
  BY NowFacts DEF At, Served
<1>2. Len(frames) > 0 /\ Top.worker = NoThread /\ s = Top.caller /\ a = Top.depth + 2
  BY <1>1, NowFacts DEF ModeOk
<1>3. Len(frames) \in DOMAIN frames /\ Top \in Frames
  BY <1>2, NowFacts, TypeFacts DEF Top
<1>4. s \in Users /\ s \in All /\ s # NoThread /\ Top.depth \in Nat /\ Calls(s)
  BY <1>2, <1>3 DEF Frames, All, Users, ThreadsDistinct, Calls, Top
<1>5. TakeSaved(gc) \in GCStates /\ ~ TakeSaved(gc).fault
      /\ TakeSaved(gc).savedThread = NoThread /\ TakeSaved(gc).atomicState = a
  BY <1>4, NowFacts, SlotFacts
<1> QED BY <1>1, <1>2, <1>3, <1>4, <1>5

LEMMA ServeStep ==
  ASSUME ThreadsDistinct, NEW c, NEW s, NEW a, Now(c, s, a), At(CallFromCHandler, "take"),
         NEW w \in Workers, Serve(w), savedRef[w] = NoThread, pc[w] \in {"none", "start"},
         pc' = [pc EXCEPT ![w] = "start"], UNCHANGED <<rt, value, switching>>
  PROVE  Landed'
<1>below. \A m \in Nat : \A k \in 1..m : k # m => k < m
  OBVIOUS
<1> DEFINE n == Len(frames)
<1>1. /\ rt = "ml" /\ c = CallFromCHandler /\ ~ Served(c) /\ n > 0 /\ n \in DOMAIN frames
      /\ Top \in Frames /\ Top.worker = NoThread /\ s = Top.caller /\ s \in Users
      /\ s # NoThread /\ Calls(s)
      /\ TakeSaved(gc) \in GCStates /\ ~ TakeSaved(gc).fault
      /\ TakeSaved(gc).savedThread = NoThread /\ TakeSaved(gc).atomicState = a
      /\ rt' = "ml"
  BY TakeFacts
<1>2. PICK e \in Nat : e = Top.depth + 1 /\ a = e + 1 /\ e # 0
  <2>1. Top.depth \in Nat /\ a = Top.depth + 2
    BY TakeFacts
  <2> QED BY <2>1
<1>3. w \in Users /\ w \in All /\ w # NoThread /\ w # CallFromCHandler /\ w # SignalHandler
      /\ w \notin Threads
  BY DEF Users, All, ThreadsDistinct
<1>4. Lands(gc', w, NoThread, e)
  <2>1. gc' = SwitchToThread(TakeSaved(gc), w)
    BY DEF Serve
  <2> DEFINE g == TakeSaved(gc)
  <2>2. g \in GCStates /\ ~ g.fault /\ g.savedThread = NoThread /\ g.atomicState = e + 1
    BY <1>1, <1>2
  <2>3. gc' = SwitchToThread(g, w)
    BY <2>1
  <2> HIDE DEF g
  <2> QED BY <1>2, <1>3, <2>2, <2>3, SwitchLands
<1>5. ~ Calls(w) /\ ~ Kept(w) /\ w # s /\ ~ Valued(w)
  <2>1. ~ Calls(w)
    BY NowFacts, CallerFacts
  <2>2. ~ Kept(w)
    BY <1>3, <2>1, NowFacts, CallerFacts
  <2>3. ~ Valued(w)
    BY <1>3, NowFacts DEF PointsOk
  <2> QED BY <1>1, <2>1, <2>2, <2>3
<1>6. /\ savedRef' = [savedRef EXCEPT ![w] = s] /\ savedRef \in [Workers -> Users \cup {NoThread}]
      /\ savedRef'[w] = s
      /\ \A v \in Workers : v # w => savedRef'[v] = savedRef[v]
  BY NowFacts DEF Serve, TypeOK
<1>7. /\ pc \in [All -> Points] /\ pc' \in [All -> Points] /\ pc'[w] = "start"
      /\ \A t \in All : t # w => pc'[t] = pc[t]
  <2>1. "start" \in Points
    BY DEF Points
  <2> QED BY <1>3, <2>1, NowFacts DEF TypeOK
<1>8. /\ frames \in Seq(Frames) /\ n \in Nat /\ DOMAIN frames = 1..n
      /\ frames' \in Seq(Frames) /\ Len(frames') = n /\ DOMAIN frames' = 1..n
      /\ \A i \in 1..n : i # n => frames'[i] = frames[i]
      /\ frames'[n].worker = w /\ frames'[n].caller = s /\ frames'[n].depth = Top.depth
      /\ \A i \in 1..n : frames'[i].caller = frames[i].caller /\ frames'[i].depth = frames[i].depth
  <2> DEFINE f == [Top EXCEPT !.worker = w]
  <2>1. f \in Frames /\ f.worker = w /\ f.caller = s /\ f.depth = Top.depth
    BY <1>1 DEF Frames
  <2>2. frames \in Seq(Frames) /\ n \in Nat /\ DOMAIN frames = 1..n
    BY NowFacts, TypeFacts
  <2>3. frames' = [frames EXCEPT ![n] = f]
    BY DEF Serve, Top
  <2> HIDE DEF f
  <2>4. frames' \in Seq(Frames) /\ Len(frames') = n
        /\ \A i \in 1..n : frames'[i] = IF i = n THEN f ELSE frames[i]
    BY <1>1, <2>1, <2>2, <2>3, ExceptSeq
  <2>5. DOMAIN frames' = 1..n
    BY <2>4, LenProperties
  <2> QED BY <1>1, <2>1, <2>2, <2>4, <2>5 DEF Top
<1>dom. n \in Nat /\ DOMAIN frames = 1..n /\ DOMAIN frames' = 1..n /\ n \in 1..n
        /\ n = Len(frames) /\ n = Len(frames')
  BY <1>1, <1>8
<1> HIDE DEF n
<1>9. worker' = NoThread /\ Served(w)' /\ Held(w)' = 1..n
      /\ \A i \in 1..n : i # n => i \in Held(c) /\ frames[i].worker # w
  <2>1. worker' = NoThread /\ Served(w)' /\ Held(w)' = 1..n
    BY <1>1, <1>3, <1>8 DEF Serve, Served, Held
  <2>2. ASSUME NEW i \in 1..n, i # n PROVE i \in Held(c) /\ frames[i].worker # w
    <3>0. i < n
      BY <1>below, <1>dom, <2>2
    <3>1. i \in Held(c)
      BY <1>dom, <3>0 DEF Held
    <3>2. frames[i].caller # NoThread
      BY <1>8, NowFacts, TypeFacts DEF Frames, Users, ThreadsDistinct
    <3> QED BY <3>1, <3>2, NowFacts DEF FramesOk, KeepCallers
  <2> QED BY <2>1, <2>2
<1>10. OwnWorkers'
  <2>1. \A i \in 1..n : i # n => frames'[i] = frames[i] /\ frames'[i].worker # w
    BY <1>8, <1>9
  <2>2. frames'[n].worker = w /\ OwnWorkers
    BY <1>8, NowFacts DEF FramesOk
  <2> QED BY <1>dom, <2>1, <2>2 DEF OwnWorkers
<1>11. \A t \in Users : t # w => Depth(t)' = Depth(t)
  <2> SUFFICES ASSUME NEW t \in Users, t # w PROVE DepthIn(frames', t) = DepthIn(frames, t)
    BY DEF Depth
  <2>1. Own(frames) /\ Own(frames')
    BY <1>10, NowFacts DEF FramesOk, OwnWorkers, Own
  <2>2. t # NoThread
    BY DEF Users, ThreadsDistinct
  <2>3. \A i \in 1..n : frames'[i].worker = t => i # n /\ frames[i] = frames'[i]
    BY <1>8
  <2>4. \A i \in 1..n : frames[i].worker = t => i # n /\ frames[i] = frames'[i]
    BY <1>1, <1>8, <2>2 DEF Top
  <2> QED BY <1>8, <1>dom, <2>1, <2>3, <2>4, DepthSame
<1>12. Depth(w)' = Top.depth
  BY <1>1, <1>3, <1>8, <1>10, DepthFacts DEF Depth, OwnWorkers
<1>13. ModeOk(w, NoThread, e)'
  BY <1>1, <1>2, <1>3, <1>7, <1>9, <1>12 DEF ModeOk
<1>14. \A t : Calls(t)' = Calls(t)
  BY <1>8 DEF Calls
<1>15. \A i \in 1..n : frames[i].caller \in Users /\ frames[i].caller # w
                      /\ frames[i].caller # NoThread
  BY <1>5, <1>8, NowFacts, TypeFacts DEF Calls, Frames, Users, ThreadsDistinct
<1>16. FramesOk(w)'
  <2>1. KeepCallers(w)'
    <3> SUFFICES ASSUME NEW i \in 1..n
                 PROVE  frames'[i].worker \in Workers
                        /\ savedRef'[frames'[i].worker] = frames'[i].caller
      BY <1>9 DEF KeepCallers
    <3>1. CASE i = n
      BY <1>6, <1>8, <3>1
    <3>2. CASE i # n
      <4>1. frames'[i] = frames[i] /\ i \in Held(c) /\ frames[i].worker # w
        BY <1>8, <1>9, <3>2
      <4>2. frames[i].worker \in Workers /\ savedRef[frames[i].worker] = frames[i].caller
        BY <4>1, NowFacts DEF FramesOk, KeepCallers
      <4> QED BY <1>6, <4>1, <4>2
    <3> QED BY <3>1, <3>2
  <2>2. KeepOnlyCallers(w)'
    <3> SUFFICES ASSUME NEW v \in Workers, savedRef'[v] # NoThread
                 PROVE  \E i \in 1..n : frames'[i].worker = v
      BY <1>9 DEF KeepOnlyCallers
    <3>1. CASE v = w
      BY <1>1, <1>8, <3>1
    <3>2. CASE v # w
      <4>1. PICK i \in Held(c) : frames[i].worker = v
        BY <1>6, <3>2, NowFacts DEF FramesOk, KeepOnlyCallers
      <4>2. i \in 1..n /\ i # n
        BY <1>1, <1>dom, <4>1 DEF Held
      <4> QED BY <1>8, <4>1, <4>2
    <3> QED BY <3>1, <3>2
  <2>3. KeptOnce'
    <3>1. ~ Kept(s)
      BY <1>1, NowFacts DEF PlacesOk
    <3> QED BY <1>6, <3>1, NowFacts DEF FramesOk, KeptOnce, Kept
  <2>4. CallersOk'
    <3> SUFFICES ASSUME NEW i \in 1..n
                 PROVE  /\ pc'[frames[i].caller] \in {"run", "f"}
                        /\ pc'[frames[i].caller] = "run" =>
                             frames[i].depth = DepthIn(frames', frames[i].caller)
                        /\ pc'[frames[i].caller] = "f" =>
                             frames[i].depth = DepthIn(frames', frames[i].caller) + 1
      BY <1>8 DEF CallersOk, Depth
    <3>1. pc'[frames[i].caller] = pc[frames[i].caller]
      BY <1>7, <1>15 DEF All
    <3>2. DepthIn(frames', frames[i].caller) = DepthIn(frames, frames[i].caller)
      BY <1>11, <1>15 DEF Depth
    <3> QED BY <1>8, <3>1, <3>2, NowFacts DEF FramesOk, CallersOk, Depth
  <2> QED BY <1>10, <2>1, <2>2, <2>3, <2>4 DEF FramesOk
<1>17. ChainOk(w)'
  <2>1. \A i, j \in 1..n : i < j /\ frames'[i].depth > 0 => frames'[j].depth > 0
    BY <1>8, NowFacts DEF ChainOk
  <2>2. \A i, j \in 1..n :
          j = i + 1 /\ frames'[i].depth > 0 => frames'[j].caller = frames'[i].worker
    <3> TAKE i, j \in 1..n
    <3> HAVE j = i + 1 /\ frames'[i].depth > 0
    <3>1. i # n
      BY <1>dom
    <3>2. frames[j].caller = frames[i].worker
      BY <1>8, <1>dom, NowFacts DEF ChainOk
    <3> QED BY <1>8, <3>1, <3>2
  <2> QED BY <1>8, <1>dom, <2>1, <2>2 DEF ChainOk, Top
<1>18. \A t \in Users : /\ Valued(t)' <=> Valued(t)
                        /\ Kept(t)' <=> (t = s \/ Kept(t))
  <2> TAKE t \in Users
  <2>1. Valued(t)' <=> Valued(t)
    <3>1. pc'[t] = "f" <=> pc[t] = "f"
      BY <1>7 DEF All
    <3> QED BY <3>1 DEF Valued
  <2>2. Kept(t)' => t = s \/ Kept(t)
    BY <1>6 DEF Kept
  <2>3. Kept(t) \/ t = s => Kept(t)'
    <3>1. t # NoThread
      BY DEF Users, ThreadsDistinct
    <3> QED BY <1>6, <3>1 DEF Kept
  <2> QED BY <2>1, <2>2, <2>3
<1>19. PlacesOk(w, NoThread)'
  <2>1. \A t \in Users : t # NoThread /\ t # c
    BY <1>1 DEF Users, ThreadsDistinct
  <2>2. \A t \in Threads : t \in Users
    BY DEF Users
  <2>3. ~ Valued(w)'
    BY <1>3, <1>5, <1>18
  <2>4. ~ Kept(w)'
    BY <1>3, <1>5, <1>18
  <2> QED BY <1>1, <1>3, <1>9, <1>18, <2>1, <2>2, <2>3, <2>4, NowFacts DEF PlacesOk
<1>20. PointsOk(w)'
  <2>1. /\ \A t \in Threads : pc'[t] \in {"run", "f", "start"}
        /\ \A v \in Workers : pc'[v] \in {"run", "f", "start", "none"}
    BY <1>7, NowFacts DEF PointsOk, Users, All
  <2>2. pc'[SignalHandler] = pc[SignalHandler] /\ pc'[CallFromCHandler] = "take"
    BY <1>3, <1>7, NowFacts DEF PointsOk, Users, All
  <2>3. \A t \in Users : Valued(t)' => Valued(t) /\ t # w /\ pc'[t] = pc[t] /\ Depth(t)' = Depth(t)
    BY <1>5, <1>7, <1>11, <1>18 DEF All
  <2>4. \A t \in Users : pc'[t] = "f" => pc[t] = "f" /\ t # w /\ Depth(t)' = Depth(t)
    BY <1>7, <1>11 DEF All
  <2>5. c \notin Users
    BY <1>1 DEF Users, ThreadsDistinct
  <2>6. SignalHandler \in Users
    BY DEF Users
  <2> QED BY <1>9, <1>14, <2>1, <2>2, <2>3, <2>4, <2>5, <2>6, NowFacts DEF PointsOk
<1>21. SwitchesOk'
  <2>1. \A t \in Users : pc'[t] = "f" <=> pc[t] = "f"
    BY <1>7 DEF All
  <2>2. switching' = switching
    OBVIOUS
  <2> QED BY <1>1, <2>1, <2>2, NowFacts DEF SwitchesOk
<1>22. TypeOK'
  <2>1. savedRef' \in [Workers -> Users \cup {NoThread}]
    BY <1>1, <1>6
  <2> QED BY <1>1, <1>4, <1>7, <1>8, <1>9, <2>1 DEF Now, TypeOK, Lands, GCStates, Frames
<1> QED BY <1>1, <1>2, <1>3, <1>4, <1>13, <1>16, <1>17, <1>19, <1>20, <1>21, <1>22
        DEF Landed, LandsOk, Inv

LEMMA ServeIdleStep ==
  ASSUME ThreadsDistinct, NEW c, NEW s, NEW a, Now(c, s, a), ServeIdle
  PROVE  Landed'
<1>1. PICK w \in Workers : w = worker
  BY NowFacts DEF ServeIdle, TypeOK
<1>2. savedRef[w] = NoThread /\ pc[w] = "start"
  BY <1>1, NowFacts DEF ServeIdle, PointsOk
<1>3. pc' = [pc EXCEPT ![w] = "start"]
  <2>1. pc \in [All -> Points] /\ w \in All
    BY NowFacts DEF TypeOK, All, Users
  <2>2. pc' = pc
    BY DEF ServeIdle
  <2> QED BY <1>2, <2>1, <2>2
<1>4. At(CallFromCHandler, "take") /\ Serve(w) /\ UNCHANGED <<rt, value, switching>>
  BY <1>1 DEF ServeIdle
<1> QED BY <1>2, <1>3, <1>4, ServeStep

LEMMA ServeMadeStep ==
  ASSUME ThreadsDistinct, NEW c, NEW s, NEW a, Now(c, s, a), NEW w \in Workers, ServeMade(w)
  PROVE  Landed'
<1>1. At(CallFromCHandler, "take") /\ Serve(w) /\ UNCHANGED <<rt, value, switching>>
      /\ pc' = [pc EXCEPT ![w] = "start"]
  BY DEF ServeMade, Goto
<1>2. savedRef[w] = NoThread /\ pc[w] \in {"none", "start"}
  BY DEF ServeMade, Unmade
<1> QED BY <1>1, <1>2, ServeStep

LEMMA MakeFailsStep ==
  ASSUME ThreadsDistinct, NEW c, NEW s, NEW a, Now(c, s, a), MakeFails
  PROVE  CallsInv'
<1>1. /\ gc' = TakeSaved(gc) /\ rt' = "died"
      /\ UNCHANGED <<frames, pc, value, switching, worker, savedRef>>
  BY DEF MakeFails
<1>2. gc' \in GCStates /\ ~ gc'.fault /\ gc'.atomicState > 0
  <2>1. /\ TakeSaved(gc) \in GCStates /\ ~ TakeSaved(gc).fault
        /\ TakeSaved(gc).atomicState = a /\ a = Top.depth + 2 /\ Top.depth \in Nat
    BY TakeFacts DEF MakeFails
  <2>2. \A d \in Nat : d + 2 > 0
    OBVIOUS
  <2> QED BY <1>1, <2>1, <2>2
<1>3. TypeOK'
  BY <1>1, <1>2 DEF Now, TypeOK, GCStates
<1>4. SwitchesOk'
  <2>1. /\ switching = (\E t \in Users : pc[t] = "f")
        /\ \A t, u \in Users : pc[t] = "f" /\ pc[u] = "f" => t = u
    BY NowFacts DEF SwitchesOk
  <2> QED BY <1>1, <1>2, <2>1 DEF SwitchesOk
<1> QED BY <1>1, <1>2, <1>3, <1>4 DEF CallsInv, PendingIsArmed

SomebodyNow == \E c, s, a : Now(c, s, a)

LEMMA NowNext == ASSUME ThreadsDistinct PROVE SomebodyNow' => CallsInv'
<1>1. SomebodyNow => CallsInv
  BY DEF SomebodyNow, Now, CallsInv
<1> QED BY <1>1, PTL

LEMMA LeaveMLStep ==
  ASSUME ThreadsDistinct, NEW c, NEW s, NEW a, Now(c, s, a), LeaveML
  PROVE  Landed'
<1>1. /\ rt = "returned" /\ rt' = "back"
      /\ UNCHANGED <<frames, pc, value, switching, worker, savedRef>>
      /\ gc' = SwitchToThread([TakeSaved(gc) EXCEPT !.atomicState = @ + 1], s)
  BY NowFacts DEF LeaveML
<1>2. ~ Served(c) /\ ~ Served(s)'
  BY <1>1 DEF Served
<1>3. /\ Len(frames) > 0 /\ worker \in Workers /\ Top.worker = worker
      /\ c = worker /\ s = Top.caller /\ a = Top.depth + 1
  BY <1>1, <1>2, NowFacts DEF ModeOk
<1>4. Len(frames) \in DOMAIN frames /\ Top \in Frames
  BY <1>3, NowFacts, TypeFacts DEF Top
<1>5. s \in Users /\ s \in All /\ s # NoThread /\ c \notin Threads /\ c # SignalHandler
      /\ c \in Users
  BY <1>3, <1>4 DEF Frames, All, Users, ThreadsDistinct
<1>6. PICK e \in Nat : e = Top.depth + 1 /\ a = e /\ e # 0
  <2>1. Top.depth \in Nat
    BY <1>4 DEF Frames
  <2> QED BY <1>3, <2>1
<1>7. Lands(gc', s, NoThread, e)
  <2> DEFINE k == TakeSaved(gc)
             m == k.atomicState + 1
             g == [k EXCEPT !.atomicState = m]
  <2>1. k \in GCStates /\ ~ k.fault /\ k.savedThread = NoThread /\ k.atomicState = a
    BY <1>5, NowFacts, SlotFacts
  <2>2. gc' = SwitchToThread(g, s)
    BY <1>1
  <2> HIDE DEF k
  <2>3. m = e + 1 /\ m \in Nat
    BY <1>6, <2>1
  <2> HIDE DEF m
  <2>4. g \in GCStates /\ ~ g.fault /\ g.savedThread = NoThread /\ g.atomicState = e + 1
    BY <2>1, <2>3 DEF GCStates
  <2> HIDE DEF g
  <2> QED BY <1>5, <1>6, <2>2, <2>4, SwitchLands
<1>8. ModeOk(s, NoThread, e)'
  BY <1>1, <1>2, <1>3, <1>6 DEF ModeOk, Top
<1>9. FramesOk(s)'
  <2>1. Held(s)' = Held(c)
    BY <1>1, <1>2 DEF Held
  <2> QED BY <1>1, <2>1, NowFacts
          DEF FramesOk, KeepCallers, OwnWorkers, KeepOnlyCallers, KeptOnce, CallersOk, Depth
<1>10. ChainOk(s)'
  BY <1>1, <1>2, NowFacts DEF ChainOk
<1>11. PlacesOk(s, NoThread)'
  <2>1. \A t \in Users : t # NoThread
    BY DEF Users, ThreadsDistinct
  <2>2. \A t \in Users : (Valued(t)' <=> Valued(t)) /\ (Kept(t)' <=> Kept(t))
    BY <1>1 DEF Valued, Kept
  <2>3. worker' = worker /\ \A t \in Threads : t \in Users
    BY <1>1 DEF Users
  <2> QED BY <1>3, <1>5, <2>1, <2>2, <2>3, NowFacts DEF PlacesOk
<1>12. PointsOk(s)'
  <2>1. pc[c] = "start"
    BY <1>3, NowFacts DEF PointsOk, ThreadsDistinct
  <2>2. /\ pc[SignalHandler] = "run" => Calls(SignalHandler)
        /\ \A t \in Users : pc[t] = "f" => Calls(t)
    BY <1>5, <2>1, NowFacts DEF PointsOk
  <2> QED BY <1>1, <2>2, NowFacts DEF PointsOk, Valued, Calls, Depth
<1>13. (TypeOK /\ SwitchesOk)'
  <2>1. TypeOK'
    BY <1>1, <1>7 DEF Now, TypeOK, Lands, GCStates
  <2> QED BY <1>1, <2>1, NowFacts DEF SwitchesOk
<1>14. LandsOk(s, NoThread, e)'
  BY <1>1, <1>6, <1>7, <1>8, <1>9, <1>10, <1>11, <1>12, <1>13 DEF LandsOk, Inv
<1> QED BY <1>5, <1>6, <1>14, NowFacts DEF Landed

LEMMA LowerAtomicStateStep ==
  ASSUME ThreadsDistinct, NEW c, NEW s, NEW a, Now(c, s, a), LowerAtomicState
  PROVE  SomebodyNow'
<1>1. /\ rt = "back" /\ rt' = "lowered"
      /\ UNCHANGED <<frames, pc, value, switching, worker, savedRef>>
  BY DEF LowerAtomicState
<1>2. ~ Served(c) /\ ~ Served(c)'
  BY <1>1 DEF Served
<1>3. /\ Len(frames) > 0 /\ worker \in Workers /\ Top.worker = worker
      /\ c = Top.caller /\ s = NoThread /\ a = Top.depth + 1
  BY <1>1, <1>2, NowFacts DEF ModeOk
<1>4. PICK d \in Nat : d = Top.depth /\ a = d + 1 /\ a - 1 = d
  <2>1. Len(frames) \in DOMAIN frames /\ Top \in Frames
    BY <1>3, NowFacts, TypeFacts DEF Top
  <2>2. Top.depth \in Nat
    BY <2>1 DEF Frames
  <2> QED BY <1>3, <2>2
<1>5. /\ gc' \in GCStates /\ gc'.currentThread = c /\ gc'.savedThread = s
      /\ gc'.atomicState = d /\ ~ gc'.fault
  <2> DEFINE m == gc.atomicState - 1
  <2>1. gc' = [gc EXCEPT !.atomicState = m] /\ m = d
    BY <1>4, NowFacts DEF LowerAtomicState
  <2> HIDE DEF m
  <2> QED BY <2>1, NowFacts DEF GCStates
<1>6. ModeOk(c, s, d)'
  BY <1>1, <1>2, <1>3, <1>4 DEF ModeOk, Top
<1>7. (FramesOk(c) /\ ChainOk(c))'
  <2>1. Held(c)' = Held(c)
    BY <1>1, <1>2 DEF Held
  <2>2. FramesOk(c)'
    BY <1>1, <2>1, NowFacts
       DEF FramesOk, KeepCallers, OwnWorkers, KeepOnlyCallers, KeptOnce, CallersOk, Depth
  <2> QED BY <1>1, <1>2, <2>2, NowFacts DEF ChainOk
<1>8. PlacesOk(c, s)' /\ PointsOk(c)'
  BY <1>1, NowFacts DEF PlacesOk, PointsOk, Valued, Kept, Calls, Depth
<1>9. (TypeOK /\ SwitchesOk /\ PendingIsArmed)'
  <2>1. TypeOK'
    BY <1>1, <1>5 DEF Now, TypeOK, GCStates
  <2> QED BY <1>1, <2>1, NowFacts DEF SwitchesOk, PendingIsArmed
<1>10. Now(c, s, d)'
  BY <1>5, <1>6, <1>7, <1>8, <1>9 DEF Now, Inv
<1> QED BY <1>10 DEF SomebodyNow

LEMMA ReturnToCStep ==
  ASSUME ThreadsDistinct, NEW c, NEW s, NEW a, Now(c, s, a), NEW w \in Workers, ReturnToC(w)
  PROVE  SomebodyNow'
<1>below. \A m \in Nat : \A k \in 1..m : k # m => k < m
  OBVIOUS
<1>above. \A m \in Nat, k \in Nat : k < m => k # m
  OBVIOUS
<1> DEFINE n == Len(frames)
<1>1. /\ rt = "ml" /\ c = w /\ pc[w] = "run" /\ rt' = "returned" /\ worker' = w
      /\ Top.worker = w /\ a = Top.depth /\ frames # <<>>
      /\ gc' = SetSaved(AtomicBegin(gc), savedRef[w])
      /\ UNCHANGED <<frames, value, switching>>
      /\ Goto(w, "start") /\ savedRef' = [savedRef EXCEPT ![w] = NoThread]
  BY NowFacts DEF ReturnToC, At, Top
<1>2. /\ w \in Users /\ w \in All /\ w # SignalHandler /\ w # NoThread /\ w \notin Threads
      /\ Served(c) /\ ~ Served(c)'
  BY <1>1 DEF Served, Users, All, ThreadsDistinct
<1>3. "start" \in Points
  BY DEF Points
<1>4. /\ pc \in [All -> Points] /\ pc' \in [All -> Points] /\ pc'[w] = "start"
      /\ \A t \in Users : t # w => pc'[t] = pc[t]
      /\ pc'[CallFromCHandler] = "take" /\ pc'[SignalHandler] = pc[SignalHandler]
      /\ ~ Valued(w) /\ ~ Kept(w) /\ w # worker
  BY <1>1, <1>2, <1>3, GotoFacts
<1>5. s = NoThread
  BY <1>1, <1>2, NowFacts DEF ModeOk
<1>6. n \in 1..n /\ n \in Nat /\ DOMAIN frames = 1..n /\ DOMAIN frames' = 1..n /\ Top = frames[n]
      /\ Top \in Frames /\ n = Len(frames) /\ n = Len(frames') /\ n > 0
  <2>1. n \in Nat /\ DOMAIN frames = 1..n /\ frames \in Seq(Frames)
    BY NowFacts, TypeFacts
  <2>2. n # 0
    BY <1>1, <2>1, EmptySeq
  <2>3. n \in 1..n /\ n > 0
    BY <2>1, <2>2
  <2> QED BY <1>1, <2>1, <2>3, TypeFacts, NowFacts DEF Top
<1> HIDE DEF n
<1>7. PICK r \in Users : r = Top.caller /\ savedRef[w] = r /\ Kept(r) /\ r # w /\ Calls(r)
      /\ r # NoThread
  <2>1. n \in Held(c)
    BY <1>2, <1>6 DEF Held
  <2>2. savedRef[w] = Top.caller
    BY <1>1, <1>6, <2>1, NowFacts DEF FramesOk, KeepCallers
  <2>3. Kept(Top.caller) /\ Calls(Top.caller) /\ Top.caller \in Users
    BY <1>6, <2>2 DEF Kept, Calls, Frames
  <2>4. Top.caller # w /\ Top.caller # NoThread
    BY <1>4, <2>3 DEF Users, ThreadsDistinct
  <2> QED BY <2>2, <2>3, <2>4
<1>8. PICK e \in Nat : e = a + 1
  BY NowFacts
<1>9. /\ gc' \in GCStates /\ gc'.currentThread = c /\ gc'.savedThread = r
      /\ gc'.atomicState = e /\ ~ gc'.fault
  <2> DEFINE g == AtomicBegin(gc)
  <2>1. g \in GCStates /\ ~ g.fault /\ g.atomicState = e
        /\ g.currentThread = c /\ g.savedThread = NoThread
    BY <1>5, <1>8, NowFacts, AtomicBeginFacts
  <2>2. gc' = SetSaved(g, r) /\ r \in All
    BY <1>1, <1>7 DEF All
  <2> HIDE DEF g
  <2> QED BY <2>1, <2>2, SlotFacts
<1>10. /\ savedRef \in [Workers -> Users \cup {NoThread}]
       /\ savedRef' \in [Workers -> Users \cup {NoThread}] /\ savedRef'[w] = NoThread
       /\ \A v \in Workers : v # w => savedRef'[v] = savedRef[v]
  BY <1>1, NowFacts DEF TypeOK
<1>11. \A t : Depth(t)' = Depth(t)
  BY <1>1 DEF Depth
<1>12. \A t \in Users : /\ Valued(t)' <=> Valued(t)
                        /\ Kept(t)' <=> (Kept(t) /\ t # r)
  <2> TAKE t \in Users
  <2>1. Valued(t)' <=> Valued(t)
    <3>1. pc'[t] = "f" <=> pc[t] = "f"
      BY <1>1, <1>4
    <3> QED BY <1>1, <3>1 DEF Valued
  <2>2. Kept(t)' => Kept(t) /\ t # r
    <3> SUFFICES ASSUME NEW v \in Workers, savedRef'[v] = t PROVE Kept(t) /\ t # r
      BY DEF Kept
    <3>1. t # NoThread
      BY DEF Users, ThreadsDistinct
    <3>2. v # w /\ savedRef[v] = t
      BY <1>10, <3>1
    <3>3. t # r
      BY <1>7, <3>1, <3>2, NowFacts DEF FramesOk, KeptOnce
    <3> QED BY <3>2, <3>3 DEF Kept
  <2>3. Kept(t) /\ t # r => Kept(t)'
    <3> SUFFICES ASSUME NEW v \in Workers, savedRef[v] = t, t # r PROVE Kept(t)'
      BY DEF Kept
    <3>1. v # w /\ savedRef'[v] = t
      BY <1>7, <1>10
    <3> QED BY <3>1 DEF Kept
  <2> QED BY <2>1, <2>2, <2>3
<1>13. \A i \in 1..n : i \in Held(c)' <=> i # n
  BY <1>2, <1>6, <1>below, <1>above DEF Held
<1>14. Held(c) = 1..n /\ Held(c)' \subseteq 1..n
  BY <1>2, <1>6 DEF Held
<1>15. ModeOk(c, r, e)'
  BY <1>1, <1>2, <1>6, <1>7, <1>8 DEF ModeOk, Top
<1>16. FramesOk(c)'
  <2>1. \A i \in 1..n : frames[i].worker = w => i = n
    BY <1>1, <1>2, <1>6, NowFacts DEF FramesOk, OwnWorkers
  <2>2. KeepCallers(c)'
    <3> SUFFICES ASSUME NEW i \in 1..n, i # n
                 PROVE  frames[i].worker \in Workers /\ savedRef'[frames[i].worker] = frames[i].caller
      BY <1>1, <1>13, <1>14 DEF KeepCallers
    <3>1. frames[i].worker \in Workers /\ savedRef[frames[i].worker] = frames[i].caller
      BY <1>14, NowFacts DEF FramesOk, KeepCallers
    <3> QED BY <1>10, <2>1, <3>1
  <2>3. KeepOnlyCallers(c)'
    <3> SUFFICES ASSUME NEW v \in Workers, savedRef'[v] # NoThread
                 PROVE  \E i \in 1..n : i # n /\ frames[i].worker = v
      BY <1>1, <1>13 DEF KeepOnlyCallers
    <3>1. v # w /\ savedRef[v] # NoThread
      BY <1>10
    <3>2. PICK i \in 1..n : frames[i].worker = v
      BY <1>14, <3>1, NowFacts DEF FramesOk, KeepOnlyCallers
    <3> QED BY <1>1, <1>6, <3>1, <3>2
  <2>4. OwnWorkers' /\ KeptOnce'
    BY <1>1, <1>10, NowFacts DEF FramesOk, OwnWorkers, KeptOnce
  <2>5. CallersOk'
    <3>1. \A i \in 1..n : frames[i].caller # w /\ frames[i].caller \in Users
      BY <1>4, <1>6, <1>14, NowFacts, CallerFacts, TypeFacts DEF Frames
    <3>2. \A i \in 1..n : pc'[frames[i].caller] = pc[frames[i].caller]
      BY <1>4, <3>1
    <3> QED BY <1>1, <1>6, <1>11, <3>2, NowFacts DEF FramesOk, CallersOk, Depth
  <2> QED BY <2>2, <2>3, <2>4, <2>5 DEF FramesOk
<1>17. ChainOk(c)'
  BY <1>1, <1>2, NowFacts DEF ChainOk
<1>18. PlacesOk(c, r)'
  <2>1. \A t \in Users : t # NoThread
    BY DEF Users, ThreadsDistinct
  <2>2. \A t \in Threads : t \in Users
    BY DEF Users
  <2>3. ~ Valued(r)
    BY <1>7, NowFacts DEF PlacesOk
  <2> QED BY <1>1, <1>2, <1>4, <1>5, <1>7, <1>12, <2>1, <2>2, <2>3, NowFacts DEF PlacesOk
<1>19. PointsOk(c)'
  <2>1. /\ \A t \in Threads : pc'[t] \in {"run", "f", "start"}
        /\ \A v \in Workers : pc'[v] \in {"run", "f", "start", "none"}
    BY <1>4, NowFacts DEF PointsOk, Users
  <2>2. \A t \in Users : Valued(t)' => Valued(t) /\ t # w /\ pc'[t] = pc[t]
    BY <1>4, <1>12
  <2>3. \A t \in Users : pc'[t] = "f" => pc[t] = "f" /\ t # w
    BY <1>4
  <2>4. \A t : Calls(t)' = Calls(t)
    BY <1>1 DEF Calls
  <2> QED BY <1>1, <1>4, <1>10, <1>11, <2>1, <2>2, <2>3, <2>4, NowFacts DEF PointsOk
<1>20. (TypeOK /\ SwitchesOk /\ PendingIsArmed)'
  <2>1. TypeOK'
    BY <1>1, <1>4, <1>9, <1>10 DEF Now, TypeOK, GCStates
  <2>2. \A t \in Users : pc'[t] = "f" <=> pc[t] = "f"
    BY <1>1, <1>4
  <2>3. switching' = switching
    BY <1>1
  <2> QED BY <1>1, <2>1, <2>2, <2>3, NowFacts DEF SwitchesOk, PendingIsArmed
<1>21. Now(c, r, e)'
  BY <1>9, <1>15, <1>16, <1>17, <1>18, <1>19, <1>20 DEF Now, Inv
<1> QED BY <1>21 DEF SomebodyNow

\* What the way back to the code that called C finds.
LEMMA EndFacts ==
  ASSUME ThreadsDistinct, NEW c, NEW s, NEW a, Now(c, s, a), EndCallFromC
  PROVE  /\ rt = "lowered" /\ ~ Served(c) /\ Len(frames) > 0 /\ worker \in Workers
         /\ Top = frames[Len(frames)] /\ Top.worker = worker /\ c = Top.caller
         /\ s = NoThread /\ a = Top.depth
         /\ gc' \in GCStates /\ gc'.currentThread = c /\ gc'.savedThread = s
         /\ gc'.atomicState = a /\ ~ gc'.fault
         /\ gc'.atomicState = 0 /\ gc'.signalIsPending => gc'.limit = "zero"
<1>1. rt = "lowered" /\ ~ Served(c)
  BY DEF EndCallFromC, Served
<1>2. /\ Len(frames) > 0 /\ worker \in Workers /\ Top.worker = worker /\ c = Top.caller
      /\ s = NoThread /\ a = Top.depth
  BY <1>1, NowFacts DEF ModeOk
<1>3. gc' = IF gc.atomicState = 0 /\ gc.signalIsPending
            THEN [gc EXCEPT !.limit = "zero"] ELSE gc
  BY DEF EndCallFromC
<1>4. CASE gc.atomicState = 0 /\ gc.signalIsPending
  BY <1>1, <1>2, <1>3, <1>4, NowFacts DEF GCStates, Top
<1>5. CASE ~ (gc.atomicState = 0 /\ gc.signalIsPending)
  <2>1. gc' = gc
    BY <1>3, <1>5
  <2> QED BY <1>1, <1>2, <1>5, <2>1, NowFacts DEF Top
<1> QED BY <1>4, <1>5

LEMMA EndCallFromCStep ==
  ASSUME ThreadsDistinct, NEW c, NEW s, NEW a, Now(c, s, a), EndCallFromC
  PROVE  SomebodyNow'
<1>below. \A m \in Nat : \A k \in 1..m : k # m => k < m
  OBVIOUS
<1>pred. \A m \in Nat : m > 0 =>
           /\ m - 1 \in Nat /\ m \in 1..m /\ m \notin 1..(m - 1)
           /\ \A k \in 1..m : k # m => k \in 1..(m - 1)
           /\ \A k \in 1..(m - 1) : k \in 1..m /\ k < m /\ k # m
           /\ m - 1 > 0 => m - 1 \in 1..m /\ m = (m - 1) + 1
           /\ (m - 1) - 1 + 1 = m - 1
  OBVIOUS
<1> DEFINE n == Len(frames)
           m == n - 1
<1>1. /\ rt = "lowered" /\ rt' = "ml" /\ n > 0 /\ worker \in Workers
      /\ Top = frames[n] /\ Top.worker = worker /\ c = Top.caller
      /\ s = NoThread /\ a = Top.depth /\ ~ Served(c)
      /\ gc' \in GCStates /\ gc'.currentThread = c /\ gc'.savedThread = s
      /\ gc'.atomicState = a /\ ~ gc'.fault
      /\ gc'.atomicState = 0 /\ gc'.signalIsPending => gc'.limit = "zero"
      /\ UNCHANGED <<pc, value, switching, worker, savedRef>>
  BY EndFacts DEF EndCallFromC
<1>len. n \in Nat /\ n = Len(frames) /\ DOMAIN frames = 1..n /\ frames \in Seq(Frames)
        /\ (\A k \in 1..n : frames[k] \in Frames) /\ frames' = SubSeq(frames, 1, m)
  BY NowFacts, TypeFacts DEF EndCallFromC
<1> HIDE DEF n
<1>2. /\ n \in Nat /\ DOMAIN frames = 1..n /\ frames \in Seq(Frames) /\ m \in Nat
      /\ n \in 1..n /\ n \notin 1..m
      /\ \A k \in 1..n : frames[k] \in Frames
      /\ \A k \in 1..n : k # n => k \in 1..m
      /\ \A k \in 1..m : k \in 1..n /\ k < n /\ k # n
  BY <1>1, <1>len, <1>pred
<1>n. n = Len(frames)
  BY <1>len
<1>last. m > 0 => m \in 1..n /\ n = m + 1
  BY <1>1, <1>len, <1>pred
<1>back. m - 1 + 1 = m
  BY <1>1, <1>len, <1>pred
<1> HIDE DEF m
<1>3. /\ frames' \in Seq(Frames) /\ Len(frames') = m /\ DOMAIN frames' = 1..m
      /\ \A k \in 1..m : frames'[k] = frames[k]
  <2>1. frames' = SubSeq(frames, 1, m)
    BY <1>len
  <2>2. /\ \A k \in 1..m : frames[k] \in Frames
        /\ 1 \in Int /\ m \in Int
    BY <1>2
  <2>3. /\ frames' \in Seq(Frames) /\ Len(frames') = IF 1 <= m THEN m - 1 + 1 ELSE 0
        /\ \A k \in 1..(m - 1 + 1) : frames'[k] = frames[1 + k - 1]
    BY <2>1, <2>2, SubSeqProperties
  <2>4. Len(frames') = m
    <3>1. (IF 1 <= m THEN m ELSE 0) = m
      BY <1>2
    <3> QED BY <1>back, <2>3, <3>1
  <2>5. \A k \in 1..m : frames'[k] = frames[k]
    <3>1. \A k \in 1..m : 1 + k - 1 = k
      BY <1>2
    <3> QED BY <1>back, <2>3, <3>1
  <2> QED BY <2>3, <2>4, <2>5, LenProperties
<1>4. /\ c \in Users /\ c # worker /\ c # CallFromCHandler /\ worker \in Users
      /\ worker # NoThread /\ worker # SignalHandler
  <2>1. c \in Users
    BY <1>1, <1>2 DEF Frames
  <2>2. c # worker
    BY <1>1, <2>1, NowFacts DEF PlacesOk
  <2> QED BY <1>1, <2>1, <2>2 DEF Users, ThreadsDistinct
<1>5. Served(c)' /\ Held(c)' = 1..m /\ Held(c) = 1..m
  <2>1. Served(c)'
    BY <1>1, <1>4 DEF Served
  <2> QED BY <1>1, <1>2, <1>n, <1>3, <1>below, <2>1 DEF Held
<1>6. \A i \in 1..m : frames[i].worker # worker
  BY <1>1, <1>2, <1>4, NowFacts DEF FramesOk, OwnWorkers
<1>7. OwnWorkers'
  BY <1>2, <1>3, NowFacts DEF FramesOk, OwnWorkers
<1>8. \A t \in Users : t # worker => Depth(t)' = Depth(t)
  <2> SUFFICES ASSUME NEW t \in Users, t # worker PROVE DepthIn(frames', t) = DepthIn(frames, t)
    BY DEF Depth
  <2>1. Own(frames) /\ Own(frames')
    BY <1>7, NowFacts DEF FramesOk, OwnWorkers, Own
  <2>2. \A i \in 1..m : frames'[i].worker = t => i \in 1..n /\ frames'[i] = frames[i]
    BY <1>2, <1>3
  <2>3. \A i \in 1..n : frames[i].worker = t => i \in 1..m /\ frames'[i] = frames[i]
    BY <1>1, <1>2, <1>3
  <2> QED BY <1>2, <1>3, <2>1, <2>2, <2>3, DepthSame
<1>9. /\ pc[c] \in {"run", "f"}
      /\ pc[c] = "run" => a = Depth(c)'
      /\ pc[c] = "f" => a = Depth(c)' + 1
  BY <1>1, <1>2, <1>4, <1>8, NowFacts DEF FramesOk, CallersOk
<1>10. ModeOk(c, s, a)'
  BY <1>1, <1>4, <1>5, <1>9 DEF ModeOk
<1>11. FramesOk(c)'
  <2>1. (KeepCallers(c) /\ KeptOnce)'
    BY <1>1, <1>3, <1>5, NowFacts DEF FramesOk, KeepCallers, KeptOnce
  <2>2. KeepOnlyCallers(c)'
    BY <1>1, <1>3, <1>5, NowFacts DEF FramesOk, KeepOnlyCallers
  <2>3. CallersOk'
    <3>1. \A i \in 1..m : frames[i].caller \in Users /\ Kept(frames[i].caller)
      BY <1>2, <1>5, NowFacts, CallerFacts DEF Frames
    <3>2. \A i \in 1..m : frames[i].caller # worker
      BY <1>4, <3>1, NowFacts DEF PlacesOk
    <3>3. \A i \in 1..m : DepthIn(frames', frames[i].caller) = DepthIn(frames, frames[i].caller)
      BY <1>8, <3>1, <3>2 DEF Depth
    <3> QED BY <1>1, <1>2, <1>3, <3>3, NowFacts DEF FramesOk, CallersOk, Depth
  <2> QED BY <1>7, <2>1, <2>2, <2>3 DEF FramesOk
<1>12. ChainOk(c)'
  <2>1. \A i, j \in 1..m : i < j /\ frames'[i].depth > 0 => frames'[j].depth > 0
    BY <1>2, <1>3, NowFacts DEF ChainOk
  <2>2. \A i, j \in 1..m :
          j = i + 1 /\ frames'[i].depth > 0 => frames'[j].caller = frames'[i].worker
    <3>1. \A i, j \in 1..n :
            j = i + 1 /\ frames[i].depth > 0 => frames[j].caller = frames[i].worker
      BY <1>2, NowFacts DEF ChainOk
    <3> QED BY <1>2, <1>3, <3>1
  <2>3. m > 0 /\ frames'[m].depth > 0 => c = frames'[m].worker
    <3> SUFFICES ASSUME m > 0, frames'[m].depth > 0 PROVE c = frames'[m].worker
      OBVIOUS
    <3>1. m \in 1..n /\ n \in 1..n /\ n = m + 1 /\ m \in 1..m
      BY <1>2, <1>last
    <3>2. frames[n].caller = frames[m].worker
      BY <1>2, <1>3, <3>1, NowFacts DEF ChainOk
    <3> QED BY <1>1, <1>3, <3>1, <3>2
  <2> QED BY <1>3, <2>1, <2>2, <2>3 DEF ChainOk, Top
<1>13. \A t \in Users : (Valued(t)' <=> Valued(t)) /\ (Kept(t)' <=> Kept(t))
  BY <1>1 DEF Valued, Kept
<1>14. PlacesOk(c, s)'
  <2>1. \A t \in Threads : t \in Users
    BY DEF Users
  <2>2. c # NoThread
    BY <1>4 DEF Users, ThreadsDistinct
  <2> QED BY <1>1, <1>4, <1>13, <2>1, <2>2, NowFacts DEF PlacesOk
<1>15. PointsOk(c)'
  <2>1. \A t \in Users : Calls(t) => t = c \/ Calls(t)'
    BY <1>1, <1>2, <1>3 DEF Calls
  <2>2. /\ pc'[SignalHandler] = "run" => c = SignalHandler \/ Calls(SignalHandler)'
        /\ \A t \in Users : pc'[t] = "f" => c = t \/ Calls(t)'
    <3>1. SignalHandler \in Users
      BY DEF Users
    <3> QED BY <1>1, <2>1, <3>1, NowFacts DEF PointsOk
  <2>3. pc[worker] = "start"
    BY <1>4, NowFacts DEF PointsOk
  <2>4. \A t \in Users : Valued(t)' => t # worker /\ Valued(t) /\ Depth(t)' = Depth(t)
    BY <1>8, <1>13, NowFacts DEF PlacesOk
  <2>5. \A t \in Users : pc'[t] = "f" => t # worker /\ pc[t] = "f" /\ Depth(t)' = Depth(t)
    BY <1>1, <1>8, <2>3
  <2> QED BY <1>1, <2>2, <2>4, <2>5, NowFacts DEF PointsOk
<1>16. (TypeOK /\ SwitchesOk /\ PendingIsArmed)'
  <2>1. TypeOK'
    BY <1>1, <1>3 DEF Now, TypeOK, GCStates, Frames
  <2> QED BY <1>1, <2>1, NowFacts DEF SwitchesOk, PendingIsArmed
<1>17. Now(c, s, a)'
  BY <1>1, <1>10, <1>11, <1>12, <1>14, <1>15, <1>16 DEF Now, Inv
<1> QED BY <1>17 DEF SomebodyNow

-----------------------------------------------------------------------------
(***************************************************************************)
(* The invariance, and what it is for.                                     *)
(***************************************************************************)
LEMMA CallsInit ==
  ASSUME ThreadsDistinct, Init
  PROVE  CallsInv
<1>1. PICK t \in Threads :
        /\ gc = [currentThread |-> t, savedThread |-> NoThread, atomicState |-> 0,
                 limit |-> "heap", signalIsPending |-> FALSE, amInSignalHandler |-> FALSE,
                 fault |-> FALSE]
        /\ value = [x \in Users |-> IF x \in Threads \ {t} THEN "New" ELSE "Dead"]
        /\ pc = [x \in All |-> CASE x = t -> "run"
                                 [] x \in Threads \ {t} -> "start"
                                 [] x \in Workers -> "none"
                                 [] x = SignalHandler -> "loop"
                                 [] x = CallFromCHandler -> "take"]
  BY DEF Init
<1>2. /\ rt = "ml" /\ frames = <<>> /\ switching = FALSE
      /\ worker = NoThread /\ savedRef = [w \in Workers |-> NoThread]
  BY DEF Init
<1>3. /\ gc \in GCStates /\ gc.currentThread = t /\ gc.savedThread = NoThread
      /\ gc.atomicState = 0 /\ ~ gc.fault /\ ~ gc.signalIsPending
  <2>1. t \in All
    BY DEF All, Users
  <2> QED BY <1>1, <2>1 DEF GCStates
<1>4. frames \in Seq(Frames) /\ DOMAIN frames = {} /\ Len(frames) = 0
  BY <1>2
<1>5. /\ pc[t] = "run"
      /\ \A x \in Threads : x # t => pc[x] = "start"
      /\ \A x \in Workers : pc[x] = "none"
      /\ pc[SignalHandler] = "loop" /\ pc[CallFromCHandler] = "take"
      /\ pc \in [All -> Points]
  <2> DEFINE P(x) == CASE x = t -> "run"
                       [] x \in Threads \ {t} -> "start"
                       [] x \in Workers -> "none"
                       [] x = SignalHandler -> "loop"
                       [] x = CallFromCHandler -> "take"
  <2>1. pc = [x \in All |-> P(x)]
    BY <1>1
  <2>2. \A x \in Threads : x # t => P(x) = "start"
    BY DEF ThreadsDistinct
  <2>3. P(t) = "run"
    BY DEF ThreadsDistinct
  <2>4. \A x \in Workers : P(x) = "none"
    BY DEF ThreadsDistinct
  <2>5. P(SignalHandler) = "loop"
    BY DEF ThreadsDistinct
  <2>6. P(CallFromCHandler) = "take"
    BY DEF ThreadsDistinct
  <2> HIDE DEF P
  <2>7. \A x \in All : P(x) \in Points
    BY <2>2, <2>3, <2>4, <2>5, <2>6 DEF Points, All, Users
  <2>8. pc \in [All -> Points]
    BY <2>1, <2>7
  <2>9. \A x \in All : pc[x] = P(x)
    BY <2>1
  <2> QED BY <2>2, <2>3, <2>4, <2>5, <2>6, <2>8, <2>9 DEF All, Users
<1>6. /\ value \in [Users -> Values]
      /\ \A x \in Users : value[x] = IF x \in Threads \ {t} THEN "New" ELSE "Dead"
  BY <1>1 DEF Values
<1>7. savedRef \in [Workers -> Users \cup {NoThread}] /\ \A w \in Workers : savedRef[w] = NoThread
  BY <1>2
<1>8. \A x \in Users : pc[x] # "f"
  BY <1>5 DEF Users
<1>9. /\ \A x \in Users : Valued(x) <=> x \in Threads \ {t}
      /\ \A x \in Users : ~ Kept(x)
      /\ t # NoThread /\ t \in Users /\ t # CallFromCHandler /\ t # SignalHandler /\ t \notin Workers
  BY <1>6, <1>7, <1>8 DEF Valued, Kept, Users, ThreadsDistinct
<1>10. Depth(t) = 0
  BY <1>4, <1>9, DepthFacts DEF Depth
<1>11. TypeOK
  BY <1>2, <1>3, <1>4, <1>5, <1>6, <1>7 DEF TypeOK, GCStates, Frames
<1>12. SwitchesOk /\ PendingIsArmed
  BY <1>2, <1>3, <1>8 DEF SwitchesOk, PendingIsArmed
<1>13. Served(t)
  BY <1>2, <1>9 DEF Served
<1>14. ModeOk(t, NoThread, 0)
  BY <1>2, <1>5, <1>9, <1>10, <1>13 DEF ModeOk
<1>15. FramesOk(t) /\ ChainOk(t)
  BY <1>4, <1>7 DEF FramesOk, KeepCallers, OwnWorkers, KeepOnlyCallers, KeptOnce, CallersOk,
                    Held, ChainOk
<1>16. PlacesOk(t, NoThread)
  BY <1>2, <1>9 DEF PlacesOk, Users, ThreadsDistinct
<1>17. PointsOk(t)
  <2>1. SignalHandler \in Users /\ SignalHandler \notin Threads
    BY DEF Users, ThreadsDistinct
  <2> QED BY <1>2, <1>5, <1>6, <1>8, <1>9, <2>1 DEF PointsOk
<1> QED BY <1>2, <1>3, <1>11, <1>12, <1>14, <1>15, <1>16, <1>17 DEF CallsInv, Inv

LEMMA CallsStep ==
  ASSUME ThreadsDistinct, CallsInv, [Next]_vars
  PROVE  CallsInv'
<1>1. CASE UNCHANGED vars
  BY <1>1 DEF vars, CallsInv, TypeOK, SwitchesOk, PendingIsArmed, Inv, ModeOk, FramesOk, ChainOk,
         PlacesOk, PointsOk, KeepCallers, OwnWorkers, KeepOnlyCallers, KeptOnce, CallersOk, Held,
         Served, Top, Depth, Valued, Kept, Calls
<1>2. CASE Next
  <2>1. rt # "died"
    BY <1>2 DEF Next, Program, GC_handler, LimitCheck, Begin, Switch, MaySwitch, InUserCode,
           NestedSwitch, SwitchFails, CallFromC, AtomicSwitch, TakeInterrupted,
           FinishSignalHandler, EnterML, ServeIdle, MakeFails, ServeMade, Work, ReturnToC,
           LeaveML, LowerAtomicState, EndCallFromC, At
  <2>2. PICK c, s, a : Now(c, s, a)
    BY <2>1 DEF CallsInv, Now
  <2>3. \A t, p : At(t, p) => t = c
    BY <2>2, NowFacts DEF At
  <2>4. Landed' \/ SomebodyNow' \/ CallsInv'
    <3>1. CASE GC_handler
      BY <2>2, <3>1, HandlerStep DEF SomebodyNow
    <3>2. CASE LimitCheck
      BY <2>2, <3>2, LimitCheckStep
    <3>3. CASE \E t \in Threads : Begin(t)
      BY <2>2, <2>3, <3>3, StartStep DEF Begin, Users
    <3>4. CASE \E t \in Users : Program(t)
      <4>1. PICK t \in Users : Program(t)
        BY <3>4
      <4>2. t = c
        BY <2>3, <4>1 DEF Program, Switch, MaySwitch, NestedSwitch, SwitchFails, CallFromC,
              InUserCode
      <4>3. CASE Switch(t)
        BY <2>2, <4>2, <4>3, SwitchStep
      <4>4. CASE NestedSwitch(t)
        BY <2>2, <4>2, <4>4, NestedSwitchStep
      <4>5. CASE SwitchFails(t)
        BY <2>2, <4>2, <4>5, SwitchFailsStep
      <4>6. CASE CallFromC(t)
        BY <2>2, <4>2, <4>6, CallFromCStep DEF SomebodyNow
      <4> QED BY <4>1, <4>3, <4>4, <4>5, <4>6 DEF Program
    <3>5. CASE \E t \in Users, u \in Users : AtomicSwitch(t, u)
      BY <2>2, <2>3, <3>5, AtomicSwitchStep DEF AtomicSwitch
    <3>6. CASE TakeInterrupted
      BY <2>2, <3>6, TakeInterruptedStep
    <3>7. CASE \E u \in Users : FinishSignalHandler(u)
      BY <2>2, <3>7, FinishSignalHandlerStep
    <3>8. CASE EnterML
      BY <2>2, <3>8, EnterMLStep
    <3>9. CASE ServeIdle
      BY <2>2, <3>9, ServeIdleStep
    <3>10. CASE MakeFails
      BY <2>2, <3>10, MakeFailsStep
    <3>11. CASE \E w \in Workers : ServeMade(w) \/ Work(w) \/ ReturnToC(w)
      <4>1. PICK w \in Workers : ServeMade(w) \/ Work(w) \/ ReturnToC(w)
        BY <3>11
      <4>2. CASE ServeMade(w)
        BY <2>2, <4>2, ServeMadeStep
      <4>3. CASE Work(w)
        BY <2>2, <2>3, <4>3, StartStep DEF Work, Users
      <4>4. CASE ReturnToC(w)
        BY <2>2, <4>4, ReturnToCStep
      <4> QED BY <4>1, <4>2, <4>3, <4>4
    <3>12. CASE LeaveML
      BY <2>2, <3>12, LeaveMLStep
    <3>13. CASE LowerAtomicState
      BY <2>2, <3>13, LowerAtomicStateStep
    <3>14. CASE EndCallFromC
      BY <2>2, <3>14, EndCallFromCStep
    <3> QED BY <1>2, <3>1, <3>2, <3>3, <3>4, <3>5, <3>6, <3>7, <3>8, <3>9, <3>10, <3>11, <3>12,
               <3>13, <3>14 DEF Next
  <2> QED BY <2>4, LandedNext, NowNext
<1> QED BY <1>1, <1>2

\* The invariant holds of every behaviour.
LEMMA CallsInvariance == ASSUME ThreadsDistinct PROVE Spec => []CallsInv
<1>1. Init => CallsInv
  BY CallsInit
<1>2. CallsInv /\ [Next]_vars => CallsInv'
  BY CallsStep
<1> QED BY <1>1, <1>2, PTL DEF Spec

\* A thread is kept by one worker or by none.
LEMMA KeepersFacts ==
  ASSUME ThreadsDistinct, KeptOnce, NEW t \in Users
  PROVE  /\ Kept(t) => Cardinality({w \in Workers : savedRef[w] = t}) = 1
         /\ ~ Kept(t) => Cardinality({w \in Workers : savedRef[w] = t}) = 0
<1> DEFINE K == {w \in Workers : savedRef[w] = t}
<1>1. t # NoThread
  BY DEF Users, ThreadsDistinct
<1>2. ASSUME Kept(t) PROVE Cardinality(K) = 1
  <2>1. PICK w \in Workers : savedRef[w] = t
    BY <1>2 DEF Kept
  <2>2. K = {w}
    BY <1>1, <2>1 DEF KeptOnce
  <2> QED BY <2>2, FS_Singleton
<1>3. ASSUME ~ Kept(t) PROVE Cardinality(K) = 0
  <2>1. K = {}
    BY <1>3 DEF Kept
  <2> QED BY <2>1, FS_EmptySet
<1> QED BY <1>2, <1>3

LEMMA OneShotOk ==
  ASSUME ThreadsDistinct, NEW c, NEW s, NEW a, Now(c, s, a)
  PROVE  OneShot
<1> SUFFICES ASSUME rt = "ml" PROVE OneShot
  BY DEF OneShot
<1>1. ASSUME NEW t \in Users
      PROVE  /\ Holders(t) = 0 \/ Holders(t) = 1
             /\ t = c \/ Valued(t) \/ t = s \/ Kept(t) => Holders(t) = 1
  <2> DEFINE one(b) == IF b THEN 1 ELSE 0
             k == Cardinality({w \in Workers : savedRef[w] = t})
  <2>1. Holders(t) = one(c = t) + one(Valued(t)) + one(s = t) + one(worker = t) + k
    BY NowFacts DEF Holders, Valued
  <2>2. (Kept(t) => k = 1) /\ (~ Kept(t) => k = 0)
    BY NowFacts, KeepersFacts DEF FramesOk
  <2>3. one(TRUE) = 1 /\ one(FALSE) = 0
    OBVIOUS
  <2>4. /\ t = c => ~ Valued(t) /\ ~ Kept(t) /\ t # s /\ t # worker
        /\ Valued(t) => t # s /\ t # worker /\ ~ Kept(t)
        /\ t = s => t # worker /\ ~ Kept(t)
        /\ t = worker => ~ Kept(t)
    BY NowFacts DEF PlacesOk
  <2> HIDE DEF k
  <2>5. CASE t = c
    BY <2>1, <2>2, <2>4, <2>5
  <2>6. CASE t # c /\ Valued(t)
    BY <2>1, <2>2, <2>4, <2>6
  <2>7. CASE t # c /\ ~ Valued(t) /\ t = s
    BY <2>1, <2>2, <2>4, <2>7
  <2>8. CASE t # c /\ ~ Valued(t) /\ t # s /\ t = worker
    BY <2>1, <2>2, <2>4, <2>8
  <2>9. CASE t # c /\ ~ Valued(t) /\ t # s /\ t # worker
    BY <2>1, <2>2, <2>4, <2>9
  <2> QED BY <2>5, <2>6, <2>7, <2>8, <2>9
<1>2. \A t \in Users : Holders(t) <= 1
  BY <1>1
<1>3. \A t \in Threads : Holders(t) = 1
  BY <1>1, NowFacts DEF PlacesOk, Users
<1>4. ASSUME NEW i \in DOMAIN frames, frames[i].worker # NoThread
      PROVE  savedRef[frames[i].worker] = frames[i].caller
  <2>1. CASE i \in Held(c)
    BY <2>1, NowFacts DEF FramesOk, KeepCallers
  <2>2. CASE i \notin Held(c)
    <3>1. ~ Served(c) /\ ~ i < Len(frames)
      BY <2>2 DEF Held
    <3>2. i = Len(frames)
      BY <3>1, NowFacts, TypeFacts
    <3> QED BY <1>4, <3>1, <3>2, NowFacts DEF ModeOk, Top
  <2> QED BY <2>1, <2>2
<1>5. \A w \in Workers : savedRef[w] # NoThread => \E i \in DOMAIN frames : frames[i].worker = w
  BY NowFacts DEF FramesOk, KeepOnlyCallers, Held
<1> QED BY <1>2, <1>3, <1>4, <1>5 DEF OneShot

LEMMA AtomicOk ==
  ASSUME ThreadsDistinct, NEW c, NEW s, NEW a, Now(c, s, a)
  PROVE  AtomicAsCommented
<1> SUFFICES ASSUME rt = "ml" PROVE AtomicAsCommented
  BY DEF AtomicAsCommented
<1>1. gc.currentThread = c /\ gc.atomicState = a /\ ModeOk(c, s, a) /\ PointsOk(c) /\ c \in All
  BY NowFacts
<1>2. CASE Served(c)
  <2>1. pc[c] \in {"run", "f", "start", "loop"}
    BY <1>1, <1>2 DEF ModeOk, PointsOk, Users
  <2>2. /\ pc[c] = "run" => a = BaseDepth(c)
        /\ pc[c] \in {"f", "start"} => a = BaseDepth(c) + 1
        /\ pc[c] = "loop" => a = 1
    BY <1>1, <1>2, BaseDepthIsDepth DEF ModeOk
  <2> QED BY <1>1, <2>1, <2>2 DEF AtomicAsCommented
<1>3. CASE ~ Served(c)
  <2>1. pc[c] = "take"
    BY <1>1, <1>3 DEF Served, PointsOk
  <2>2. a = frames[Len(frames)].depth + 2
    BY <1>1, <1>3 DEF ModeOk, Top
  <2> QED BY <1>1, <2>1, <2>2 DEF AtomicAsCommented
<1> QED BY <1>2, <1>3

\* A function given to atomicSwitch runs, or waits for C, in a critical section.
LEMMA SwitchingOk ==
  ASSUME ThreadsDistinct, NEW c, NEW s, NEW a, Now(c, s, a), rt # "died"
  PROVE  switching => gc.atomicState > 0
<1>n. \A m \in Nat : m + 1 > 0 /\ m + 2 > 0 /\ m + 3 > 0
  OBVIOUS
<1> SUFFICES ASSUME switching PROVE a > 0
  BY NowFacts
<1>1. PICK t \in Users : pc[t] = "f"
  BY NowFacts DEF SwitchesOk
<1>2. /\ ModeOk(c, s, a) /\ FramesOk(c) /\ ChainOk(c) /\ TypeOK /\ c \in All /\ a \in Nat
      /\ Depth(t) = 0 /\ (c = t \/ Calls(t))
  BY <1>1, NowFacts DEF PointsOk
<1>3. CASE Served(c)
  <2>1. CASE c = t
    BY <1>1, <1>2, <1>3, <2>1 DEF ModeOk
  <2>2. CASE Calls(t)
    <3>1. PICK i \in DOMAIN frames : frames[i].caller = t
      BY <2>2 DEF Calls
    <3>2. frames[i].depth > 0
      BY <1>1, <1>2, <3>1 DEF FramesOk, CallersOk
    <3>3. c \in Workers /\ Depth(c) > 0 /\ Depth(c) \in Nat
      BY <1>2, <1>3, <3>2, TopFacts, NowFacts
    <3>4. pc[c] \in {"run", "f", "start"}
      BY <1>2, <1>3, <3>3, NowFacts DEF ModeOk, PointsOk
    <3> QED BY <1>2, <1>3, <3>3, <3>4 DEF ModeOk
  <2> QED BY <1>2, <2>1, <2>2
<1>4. CASE ~ Served(c)
  <2>1. Len(frames) > 0 /\ Len(frames) \in DOMAIN frames /\ Top \in Frames
    BY <1>2, <1>4, TypeFacts DEF ModeOk, Top
  <2>2. Top.depth \in Nat
    BY <2>1 DEF Frames
  <2>3. rt \in {"ml", "called", "returned", "back"} => a > 0
    BY <1>2, <1>4, <1>n, <2>2 DEF ModeOk
  <2>4. rt = "lowered" => c = Top.caller /\ a = Top.depth
    BY <1>2, <1>4 DEF ModeOk
  <2>5. CASE rt = "lowered"
    <3>1. Calls(t)
      BY <1>2, <2>1, <2>4, <2>5 DEF Calls, Top
    <3>2. PICK i \in DOMAIN frames : frames[i].caller = t
      BY <3>1 DEF Calls
    <3>3. frames[i].depth > 0
      BY <1>1, <1>2, <3>2 DEF FramesOk, CallersOk
    <3>4. CASE i = Len(frames)
      BY <2>4, <2>5, <3>3, <3>4 DEF Top
    <3>5. CASE i < Len(frames)
      BY <1>2, <2>1, <2>4, <2>5, <3>3, <3>5 DEF ChainOk, Top
    <3> QED BY <1>2, <3>4, <3>5, TypeFacts
  <2> QED BY <1>2, <2>3, <2>5 DEF TypeOK
<1> QED BY <1>3, <1>4

LEMMA InvariantsHold == ASSUME ThreadsDistinct PROVE CallsInv => ThreadsOk
<1> SUFFICES ASSUME CallsInv PROVE ThreadsOk
  OBVIOUS
<1>1. TypeOK /\ SlotFree /\ PendingIsArmed
  BY DEF CallsInv, SlotFree
<1>2. OneShot /\ AtomicAsCommented /\ (switching => gc.atomicState > 0)
  <2>1. CASE rt = "died"
    BY <2>1 DEF CallsInv, OneShot, AtomicAsCommented, SwitchesOk
  <2>2. CASE rt # "died"
    <3>1. PICK c, s, a : Now(c, s, a)
      BY <2>2 DEF CallsInv, Now
    <3> QED BY <2>2, <3>1, OneShotOk, AtomicOk, SwitchingOk
  <2> QED BY <2>1, <2>2
<1>3. SwitchingIsExclusive
  BY <1>2 DEF CallsInv, SwitchesOk, SwitchingIsExclusive
<1> QED BY <1>1, <1>2, <1>3 DEF ThreadsOk

\* The calls on the C stack end only in EndCallFromC.
LEMMA ReturnStep ==
  ASSUME ThreadsDistinct, CallsInv, Next, Len(frames') < Len(frames)
  PROVE  gc'.currentThread = frames[Len(frames)].caller
         /\ gc'.atomicState = frames[Len(frames)].depth
<1>1. frames \in Seq(Frames) /\ Len(frames) \in Nat /\ frames' # frames
  BY TypeFacts DEF CallsInv
<1>2. EndCallFromC
  <2>1. ASSUME NEW t \in Users, CallFromC(t) PROVE FALSE
    <3> DEFINE call == [caller |-> t, depth |-> gc.atomicState, worker |-> NoThread]
    <3>1. call \in Frames
      BY TypeFacts DEF CallsInv, GCStates, Frames
    <3>2. frames' = Append(frames, call)
      BY <2>1 DEF CallFromC
    <3> HIDE DEF call
    <3>3. Len(frames') = Len(frames) + 1
      BY <1>1, <3>1, <3>2, AppendProperties
    <3> QED BY <1>1, <3>3
  <2>2. ASSUME NEW w, Serve(w) PROVE FALSE
    <3>1. frames' = [frames EXCEPT ![Len(frames)].worker = w]
      BY <2>2 DEF Serve
    <3>2. DOMAIN frames' = DOMAIN frames
      BY <3>1
    <3>3. Len(frames') = Len(frames)
      BY <1>1, <3>1, <3>2
    <3> QED BY <1>1, <3>3
  <2>3. frames' = frames \/ EndCallFromC \/ (\E t \in Users : CallFromC(t)) \/ \E w : Serve(w)
    BY DEF Next, Program, GC_handler, LimitCheck, Begin, Switch,
           NestedSwitch, SwitchFails, AtomicSwitch, TakeInterrupted,
           FinishSignalHandler, EnterML, ServeIdle, MakeFails, ServeMade, Work, ReturnToC,
           LeaveML, LowerAtomicState
  <2> QED BY <1>1, <2>1, <2>2, <2>3
<1>3. rt # "died"
  BY <1>2 DEF EndCallFromC
<1>4. PICK c, s, a : Now(c, s, a)
  BY <1>3 DEF CallsInv, Now
<1>5. gc'.currentThread = Top.caller /\ gc'.atomicState = Top.depth
  BY <1>2, <1>4, EndFacts
<1> QED BY <1>5 DEF Top

-----------------------------------------------------------------------------
(***************************************************************************)
(* The theorems.                                                           *)
(***************************************************************************)

\* Whatever switches, signals and calls from C come together, of any number of threads: the
\* assertions of handler.c, gc_state.c and copy-thread.c on savedThread do not fail; a
\* thread is held in exactly one place, so that it is never resumed twice and never lost; the
\* critical sections are as deep as the comments of thread.sml say; the flag of
\* atomicSwitch is up exactly while its function runs; and a pending signal arms the limit.
THEOREM ThreadsAndCallsOk == ASSUME ThreadsDistinct PROVE Spec => []ThreadsOk
<1>1. CallsInv => ThreadsOk
  BY InvariantsHold
<1>2. Spec => []CallsInv
  BY CallsInvariance
<1> QED BY <1>1, <1>2, PTL

\* MLton_callFromC returns to the thread that called it, at the depth of critical sections
\* it was called at, however deep the calls are nested and whatever ran in between.
THEOREM CallsReturnToCaller == ASSUME ThreadsDistinct PROVE Spec => CallsReturn
<1> DEFINE Returns == Len(frames') < Len(frames) =>
                        LET call == frames[Len(frames)]
                        IN gc'.currentThread = call.caller /\ gc'.atomicState = call.depth
<1>1. Spec => []CallsInv
  BY CallsInvariance
<1>2. CallsInv /\ [Next]_vars => [Returns]_vars
  <2>1. CallsInv /\ Next => Returns
    BY ReturnStep
  <2> QED BY <2>1
<1>3. [][Returns]_vars <=> CallsReturn
  BY DEF CallsReturn
<1> HIDE DEF Returns
<1> QED BY <1>1, <1>2, <1>3, PTL DEF Spec
=============================================================================
