--------------------------- MODULE SignalDelivery ---------------------------
(***************************************************************************)
(* Asynchronous signals in the MLton runtime.                              *)
(*                                                                         *)
(* An SML program runs on one OS thread.  A Unix signal is caught by the C *)
(* function GC_handler, which may only record it (signalsPending,          *)
(* signalIsPending) and ask for attention by setting the heap limit to 0:  *)
(* the next limit check of the mutator then fails and enters GC_collect,   *)
(* which switches to the SML signal-handler thread unless the mutator is   *)
(* in a critical section (atomicState > 0).                                *)
(*                                                                         *)
(* The module follows the one control point of the process, rt, through    *)
(* the inlined atomicBegin/atomicEnd, GC_collect and GC_switchToThread,    *)
(* and lets Deliver -- the kernel running GC_handler -- happen between any *)
(* two of their steps.  GC_handler itself is one step: it runs with every  *)
(* signal masked (Posix_Signal_handlee).                                   *)
(***************************************************************************)
EXTENDS Integers, FiniteSets

CONSTANTS
  Signals,     \* the signals the program manages
  Threads,     \* SML threads other than the signal-handler thread
  Handler,     \* the SML signal-handler thread
  NoThread,    \* BOGUS_OBJPTR
  GC,          \* the pseudo-signal "a garbage collection happened"
  HandlesGC,   \* was MLton.Signal.handleGC called (gcSignalHandled)?
  Kinds,       \* the dispositions the program installs
  MaxAtomic    \* bound on the nesting of critical sections

ASSUME ThreadsAssumption ==
  /\ Handler \notin Threads
  /\ NoThread \notin Threads \cup {Handler}
  /\ Threads # {}

ASSUME SignalsAssumption ==
  /\ Signals # {} /\ GC \notin Signals
  /\ HandlesGC \in BOOLEAN
  /\ Kinds \subseteq {"Default", "Ignore", "Handler"}
  /\ MaxAtomic \in Nat \ {0}

VARIABLES
  \* fields of struct GC_state and its signalsInfo
  atomicState, limit, currentThread, savedThread,
  signalIsPending, amInSignalHandler, gcSignalPending,
  signalsHandled, signalsPending,
  \* the kernel's view of the process
  raised, blocked, disposition,
  \* the SML library's table of handlers, MLtonSignal.handlers
  handlers,
  \* control: where the process is in the runtime, and where each thread is
  rt, target, pc, request,
  \* locals of the handler loop and of sigsuspend
  todo, mask, interrupted,
  \* history: how many critical sections the current thread is inside
  depth

info    == <<signalIsPending, amInSignalHandler, gcSignalPending,
             signalsHandled, signalsPending>>
kernel  == <<raised, blocked, disposition>>
sml     == <<handlers, pc, request, todo, mask, interrupted>>
vars    == <<atomicState, limit, currentThread, savedThread, info, kernel,
             rt, target, depth, sml>>

AllThreads == Threads \cup {Handler}

\* Control points of the process.  "ml" is SML code of currentThread; the
\* others are inside inlined or runtime C code, where no thread may switch.
RuntimePoints ==
  {"ml",
   "begin",      \* inlined atomicBegin, counter bumped, pending not tested
   "end",        \* inlined atomicEnd, counter reached 0, pending not tested
   "enter",      \* beginAtomic, counter bumped, limit not restored
   "switch",     \* GC_switchToThread, before switchToThread
   "poll",       \* before switchToSignalHandlerThreadIfNonAtomic...
   "ensure",     \* before ensureInvariantForMutator
   "leave",      \* before endAtomic
   "left",       \* endAtomic, counter dropped, pending not tested
   "sigaction",  \* Posix_Signal_*, signalsHandled updated, sigaction not called
   "sigsuspend"} \* suspended in the kernel

\* Program points of an SML thread in the operations modelled.
ThreadPoints  == {"run", "set1", "set2", "set3", "woken1", "woken2"}
HandlerPoints == {"take", "block", "sampleGC", "sample", "reset", "unblock",
                  "run", "resume"}

\* The arguments of a setHandler call that has not reached sigaction yet.
Dispositions == {"Default", "Ignore", "Handler"}
NoRequest == [sig |-> GC, kind |-> "Default"]
HandlerRequests == [sig : Signals, kind : Dispositions] \cup {NoRequest}

RuntimeTypes ==
  /\ atomicState \in Nat
  /\ limit \in {"zero", "heap"}
  /\ currentThread \in AllThreads
  /\ savedThread \in AllThreads \cup {NoThread}
  /\ signalIsPending \in BOOLEAN
  /\ amInSignalHandler \in BOOLEAN
  /\ gcSignalPending \in BOOLEAN
  /\ signalsHandled \subseteq Signals
  /\ signalsPending \subseteq Signals

ControlTypes ==
  /\ rt \in RuntimePoints
  /\ target \in AllThreads \cup {NoThread}
  /\ depth \in Nat
  /\ pc \in [AllThreads -> ThreadPoints \cup HandlerPoints]
  /\ pc[Handler] \in HandlerPoints
  /\ \A t \in Threads : pc[t] \in ThreadPoints

DataTypes ==
  /\ raised \subseteq Signals
  /\ blocked \subseteq Signals
  /\ disposition \in [Signals -> Dispositions]
  /\ handlers \in [Signals -> Dispositions]
  /\ request \in [Threads -> HandlerRequests]
  /\ todo \subseteq Signals \cup {GC}
  /\ mask \subseteq Signals
  /\ interrupted \in AllThreads \cup {NoThread}

\* The fields of GC_state, the control points, and the tables of the kernel and
\* of MLtonSignal hold values of their C and SML types.
TypeOK == RuntimeTypes /\ ControlTypes /\ DataTypes

\* The handler thread is installed and idle, every signal has its default
\* action, and one thread is running outside every critical section.
Init ==
  /\ atomicState = 0 /\ depth = 0
  /\ limit = "heap"
  /\ currentThread \in Threads
  /\ savedThread = NoThread
  /\ signalIsPending = FALSE
  /\ amInSignalHandler = FALSE
  /\ gcSignalPending = FALSE
  /\ signalsHandled = {} /\ signalsPending = {}
  /\ raised = {} /\ blocked = {}
  /\ disposition = [s \in Signals |-> "Default"]
  /\ handlers = [s \in Signals |-> "Default"]
  /\ rt = "ml" /\ target = NoThread
  /\ pc = [t \in AllThreads |-> IF t = Handler THEN "take" ELSE "run"]
  /\ request = [t \in Threads |-> NoRequest]
  /\ todo = {} /\ mask = {} /\ interrupted = NoThread

-----------------------------------------------------------------------------
(* WrongX is a variant of the definition X after it, with one plausible    *)
(* mistake: the properties below are checked to tell the two apart.        *)
(*                                                                         *)
(* The runtime: GC_collect, GC_switchToThread and what they share.         *)

Heap == "heap"   \* limitPlusSlop - GC_HEAP_LIMIT_SLOP

\* Where control goes next; a thread's own program point moves with it.
Goto(point) == rt' = point
Step(t, from, to) == pc[t] = from /\ pc' = [pc EXCEPT ![t] = to]

\* The current thread is executing SML code at one of the given points.
Executing(t, points) == rt = "ml" /\ currentThread = t /\ pc[t] \in points

\* The call of GC_collect (p = NoThread) or of GC_switchToThread (s, p, 0),
\* up to and including the counter bump of beginAtomic.
CallRuntime(p) ==
  /\ atomicState' = atomicState + 1
  /\ target' = p
  /\ Goto("enter")

\* beginAtomic, second half: critical sections run with the real limit.
BeginAtomic ==
  /\ rt = "enter"
  /\ limit' = Heap
  /\ Goto(IF target = NoThread THEN "poll" ELSE "switch")
  /\ UNCHANGED <<atomicState, currentThread, savedThread, info, kernel, target,
                 depth, sml>>

WrongSwitchReleased == atomicState
SwitchReleased == atomicState - 1

\* GC_switchToThread: switchToThread and the decrement that undoes the
\* atomicBegin of the thread that switches.  Ordinary threads resume outside
\* every critical section, the handler thread inside one.
SwitchToThread ==
  /\ rt = "switch"
  /\ currentThread' = target
  /\ target' = NoThread
  /\ atomicState' = SwitchReleased
  /\ depth' = IF target = Handler THEN 1 ELSE 0
  /\ Goto("poll")
  /\ UNCHANGED <<limit, savedThread, info, kernel, sml>>

WrongHandlerAtomicState == 1
HandlerAtomicState == 2

\* GC_startSignalHandler.  What the code asserts here is no guard: it is
\* stated among the properties.
StartSignalHandler ==
  /\ signalIsPending' = FALSE
  /\ amInSignalHandler' = TRUE
  /\ savedThread' = currentThread
  /\ atomicState' = HandlerAtomicState

WrongNonAtomicAndPending == signalIsPending
NonAtomicAndPending == atomicState = 1 /\ signalIsPending

\* switchToSignalHandlerThreadIfNonAtomicAndSignalPending.
Poll ==
  /\ rt = "poll"
  /\ Goto("ensure")
  /\ IF NonAtomicAndPending
     THEN /\ StartSignalHandler
          /\ currentThread' = Handler
          /\ depth' = 1
     ELSE UNCHANGED <<signalIsPending, amInSignalHandler, savedThread,
                      atomicState, currentThread, depth>>
  /\ UNCHANGED <<limit, gcSignalPending, signalsHandled, signalsPending, kernel,
                 target, sml>>

\* performGC: setGCStateCurrentHeap recomputes the limit, and at the end the
\* GC signal is posted.
PerformGC ==
  /\ limit' = Heap
  /\ gcSignalPending' = (HandlesGC \/ gcSignalPending)
  /\ signalIsPending' = ((HandlesGC /\ ~amInSignalHandler) \/ signalIsPending)

\* ensureInvariantForMutator: a collection, unless there is room without one.
Ensure ==
  /\ rt = "ensure"
  /\ Goto("leave")
  /\ \/ PerformGC
     \/ UNCHANGED <<limit, gcSignalPending, signalIsPending>>
  /\ UNCHANGED <<atomicState, currentThread, savedThread, amInSignalHandler,
                 signalsHandled, signalsPending, kernel, target, depth, sml>>

\* endAtomic, first half.
Leave ==
  /\ rt = "leave"
  /\ atomicState' = atomicState - 1
  /\ Goto("left")
  /\ UNCHANGED <<limit, currentThread, savedThread, info, kernel, target, depth,
                 sml>>

WrongRearmedLimit == limit
RearmedLimit == IF atomicState = 0 /\ signalIsPending THEN "zero" ELSE limit

\* endAtomic, second half: the test that re-arms the limit.
EndAtomic ==
  /\ rt = "left"
  /\ limit' = RearmedLimit
  /\ Goto("ml")
  /\ UNCHANGED <<atomicState, currentThread, savedThread, info, kernel, target,
                 depth, sml>>

Runtime == BeginAtomic \/ SwitchToThread \/ Poll \/ Ensure \/ Leave \/ EndAtomic

-----------------------------------------------------------------------------
(* The mutator.                                                            *)

\* A limit check that fails because GC_handler zeroed the limit.
LimitCheck ==
  /\ rt = "ml" /\ limit = "zero"
  /\ CallRuntime(NoThread)
  /\ UNCHANGED <<limit, currentThread, savedThread, info, kernel, depth, sml>>

\* A limit check that fails because the nursery is full.
NurseryFull ==
  /\ rt = "ml" /\ limit # "zero"
  /\ CallRuntime(NoThread)
  /\ UNCHANGED <<limit, currentThread, savedThread, info, kernel, depth, sml>>

\* Inlined Thread_atomicBegin, first half, in a thread that goes from one
\* program point to another.
AtomicBeginAt(t, from, to) ==
  /\ Executing(t, {from}) /\ Step(t, from, to)
  /\ atomicState' = atomicState + 1 /\ depth' = depth + 1
  /\ Goto("begin")
  /\ UNCHANGED <<limit, currentThread, savedThread, info, kernel, target,
                 handlers, request, todo, mask, interrupted>>

AtomicBeginTest ==
  /\ rt = "begin"
  /\ limit' = IF signalIsPending THEN Heap ELSE limit
  /\ Goto("ml")
  /\ UNCHANGED <<atomicState, currentThread, savedThread, info, kernel, target,
                 depth, sml>>

\* Inlined Thread_atomicEnd, first half.
AtomicEndAt(t, from, to) ==
  /\ Executing(t, {from}) /\ Step(t, from, to)
  /\ depth > 0
  /\ atomicState' = atomicState - 1 /\ depth' = depth - 1
  /\ Goto(IF atomicState = 1 THEN "end" ELSE "ml")
  /\ UNCHANGED <<limit, currentThread, savedThread, info, kernel, target,
                 handlers, request, todo, mask, interrupted>>

WrongAtomicEndCollect ==
  /\ limit' = RearmedLimit
  /\ Goto("ml") /\ UNCHANGED <<atomicState, target>>
AtomicEndCollect ==
  /\ IF signalIsPending THEN CallRuntime(NoThread)
     ELSE Goto("ml") /\ UNCHANGED <<atomicState, target>>
  /\ UNCHANGED limit

\* Inlined Thread_atomicEnd, second half: the outermost one calls GC_collect.
AtomicEndTest ==
  /\ rt = "end"
  /\ AtomicEndCollect
  /\ UNCHANGED <<currentThread, savedThread, info, kernel, depth, sml>>

AtomicBegin(t) == depth < MaxAtomic /\ AtomicBeginAt(t, "run", "run")
AtomicEnd(t)   == AtomicEndAt(t, "run", "run")

\* Thread.atomicSwitch to a ready thread, called inside one critical section.
Switch(t, p) ==
  /\ Executing(t, {"run"}) /\ depth = 1
  /\ p # t
  /\ CallRuntime(p)
  /\ UNCHANGED <<limit, currentThread, savedThread, info, kernel, depth, sml>>

-----------------------------------------------------------------------------
(* Signal.setHandler, Signal.Mask.setBlocked and Signal.suspend.           *)

\* setHandler changes the SML table first, then calls C in the critical section
\* of SysCall.simpleRestart.  A call that leaves the kind of the disposition as
\* it is (one SML function for another) changes nothing the model can see.
SetHandler(t, s, k) ==
  /\ Executing(t, {"run"})
  /\ handlers[s] # k
  /\ handlers' = [handlers EXCEPT ![s] = k]
  /\ request' = [request EXCEPT ![t] = [sig |-> s, kind |-> k]]
  /\ Step(t, "run", "set1")
  /\ UNCHANGED <<atomicState, limit, currentThread, savedThread, info, kernel,
                 rt, target, depth, todo, mask, interrupted>>

SetHandlerBegin(t) == AtomicBeginAt(t, "set1", "set2")

\* Posix_Signal_default, _ignore and _handlee: the runtime's set first ...
UpdateSignalsHandled(t) ==
  /\ Executing(t, {"set2"})
  /\ signalsHandled' = IF request[t].kind = "Handler"
                       THEN signalsHandled \cup {request[t].sig}
                       ELSE signalsHandled \ {request[t].sig}
  /\ Goto("sigaction")
  /\ UNCHANGED <<atomicState, limit, currentThread, savedThread,
                 signalIsPending, amInSignalHandler, gcSignalPending,
                 signalsPending, kernel, target, depth, sml>>

\* ... then the kernel's disposition.  Ignoring a signal discards it.
Sigaction(t) ==
  /\ rt = "sigaction" /\ currentThread = t
  /\ disposition' = [disposition EXCEPT ![request[t].sig] = request[t].kind]
  /\ raised' = IF request[t].kind = "Ignore" THEN raised \ {request[t].sig} ELSE raised
  /\ Step(t, "set2", "set3")
  /\ request' = [request EXCEPT ![t] = NoRequest]
  /\ Goto("ml")
  /\ UNCHANGED <<atomicState, limit, currentThread, savedThread, info, blocked,
                 target, depth, handlers, todo, mask, interrupted>>

SetHandlerEnd(t) == AtomicEndAt(t, "set3", "run")

\* Mask.setBlocked, block and unblock, in the critical section of
\* SysCall.simpleRestart (the program's own AtomicBegin and AtomicEnd here).
SetBlocked(t, m) ==
  /\ Executing(t, {"run"}) /\ depth > 0
  /\ blocked' = m
  /\ UNCHANGED <<atomicState, limit, currentThread, savedThread, info, raised,
                 disposition, rt, target, depth, sml>>

\* Signal.suspend: sigsuspend replaces the mask while it waits.
Suspend(t, m) ==
  /\ Executing(t, {"run"}) /\ depth = 0
  /\ Step(t, "run", "woken1")
  /\ mask' = blocked /\ blocked' = m
  /\ Goto("sigsuspend")
  /\ UNCHANGED <<atomicState, limit, currentThread, savedThread, info, raised,
                 disposition, target, depth, handlers, request, todo, interrupted>>

\* Thread.switchToSignalHandler, after sigsuspend has returned.
SuspendBegin(t) == AtomicBeginAt(t, "woken1", "woken2")

SwitchToSignalHandler(t) ==
  /\ Executing(t, {"woken2"}) /\ Step(t, "woken2", "run")
  /\ signalIsPending' = FALSE          \* GC_startSignalHandler ...
  /\ amInSignalHandler' = TRUE
  /\ savedThread' = currentThread
  /\ atomicState' = 3                  \* ... = 2, and beginAtomic
  /\ target' = Handler
  /\ Goto("enter")
  /\ UNCHANGED <<limit, currentThread, gcSignalPending, signalsHandled,
                 signalsPending, kernel, depth, handlers, request, todo, mask,
                 interrupted>>

-----------------------------------------------------------------------------
(* The signal-handler thread: the loop of Thread.setSignalHandler around   *)
(* the function that MLtonSignal installs.  It runs in a critical section. *)

Handled == {s \in Signals : handlers[s] = "Handler"}

HandlerStep(from, to) ==
  /\ Executing(Handler, {from}) /\ Step(Handler, from, to)
  /\ UNCHANGED <<atomicState, limit, currentThread, rt, target, depth, raised,
                 disposition, handlers, request>>

WrongSavedCleared == savedThread
SavedCleared == NoThread

\* Prim.saved: take the interrupted thread from the runtime.
TakeSaved ==
  /\ HandlerStep("take", "block")
  /\ interrupted' = savedThread /\ savedThread' = SavedCleared
  /\ UNCHANGED <<info, blocked, todo, mask>>

HandledBlocked == blocked \cup Handled

BlockHandled ==
  /\ HandlerStep("block", "sampleGC")
  /\ mask' = blocked /\ blocked' = HandledBlocked
  /\ UNCHANGED <<savedThread, info, todo, interrupted>>

WrongGCSampled == {}
GCSampled == IF HandlesGC /\ gcSignalPending THEN {GC} ELSE {}

SampleGC ==
  /\ HandlerStep("sampleGC", "sample")
  /\ todo' = GCSampled
  /\ UNCHANGED <<savedThread, info, blocked, mask, interrupted>>

SamplePending ==
  /\ HandlerStep("sample", "reset")
  /\ todo' = todo \cup (signalsPending \cap Handled)
  /\ UNCHANGED <<savedThread, info, blocked, mask, interrupted>>

ResetPending ==
  /\ HandlerStep("reset", "unblock")
  /\ signalsPending' = {} /\ gcSignalPending' = FALSE
  /\ UNCHANGED <<savedThread, signalIsPending, amInSignalHandler, signalsHandled,
                 blocked, todo, mask, interrupted>>

RestoreMask ==
  /\ HandlerStep("unblock", "run")
  /\ blocked' = mask /\ mask' = {}
  /\ UNCHANGED <<savedThread, info, todo, interrupted>>

\* One SML handler function f: it maps the thread to resume to another one
\* (a scheduler) or to the same one; the finalizers of the GC never switch.
RunHandler(f) ==
  /\ HandlerStep("run", "run")
  /\ f \in todo /\ todo' = todo \ {f}
  /\ IF f = GC THEN UNCHANGED interrupted ELSE interrupted' \in Threads
  /\ UNCHANGED <<savedThread, info, blocked, mask>>

WrongAllHandlersRun == TRUE
AllHandlersRun == todo = {}

WrongPendingKept == FALSE
PendingKept == signalIsPending

FinishSignalHandler ==
  /\ AllHandlersRun
  /\ HandlerStep("run", "resume")
  /\ amInSignalHandler' = FALSE
  /\ signalIsPending' = PendingKept
  /\ UNCHANGED <<savedThread, gcSignalPending, signalsHandled,
                 signalsPending, blocked, todo, mask, interrupted>>

ThreadChosen == interrupted

\* atomicSwitch to the thread chosen.
ResumeInterrupted ==
  /\ Executing(Handler, {"resume"}) /\ Step(Handler, "resume", "take")
  /\ CallRuntime(ThreadChosen) /\ interrupted' = NoThread
  /\ UNCHANGED <<limit, currentThread, savedThread, info, kernel, depth, handlers,
                 request, todo, mask>>

HandlerLoop ==
  \/ TakeSaved \/ BlockHandled \/ SampleGC \/ SamplePending \/ ResetPending
  \/ RestoreMask \/ (\E f \in Signals \cup {GC} : RunHandler(f))
  \/ FinishSignalHandler \/ ResumeInterrupted

-----------------------------------------------------------------------------
(* The environment: signals are raised, and the kernel delivers them.      *)

Raise(s) ==
  /\ raised' = raised \cup {s}
  /\ UNCHANGED <<atomicState, limit, currentThread, savedThread, info, blocked,
                 disposition, rt, target, depth, sml>>

ZeroLimitOutside == IF atomicState = 0 THEN "zero" ELSE limit

GC_handler(s) ==
  /\ limit' = ZeroLimitOutside
  /\ signalIsPending' = TRUE
  /\ signalsPending' = signalsPending \cup {s}

\* An unblocked signal reaches the process: its handler runs and sigsuspend
\* returns, or it is discarded (a default action that kills the process ends
\* the behaviour instead).
Deliver(s) ==
  /\ s \in raised \ blocked
  /\ raised' = raised \ {s}
  /\ IF disposition[s] = "Handler"
     THEN /\ GC_handler(s)
          /\ IF rt = "sigsuspend"
             THEN Goto("ml") /\ blocked' = mask /\ mask' = {}
             ELSE UNCHANGED <<rt, blocked, mask>>
     ELSE UNCHANGED <<limit, signalIsPending, signalsPending, rt, blocked, mask>>
  /\ UNCHANGED <<atomicState, currentThread, savedThread, amInSignalHandler,
                 gcSignalPending, signalsHandled, disposition, target, depth,
                 handlers, pc, request, todo, interrupted>>

-----------------------------------------------------------------------------
ThreadStep(t) ==
  \/ AtomicBegin(t) \/ AtomicEnd(t)
  \/ \E p \in Threads : Switch(t, p)
  \/ \E s \in Signals, k \in Kinds : SetHandler(t, s, k)
  \/ SetHandlerBegin(t) \/ UpdateSignalsHandled(t) \/ Sigaction(t) \/ SetHandlerEnd(t)
  \/ \E m \in SUBSET Signals : SetBlocked(t, m) \/ Suspend(t, m)
  \/ SuspendBegin(t) \/ SwitchToSignalHandler(t)

Next ==
  \/ Runtime
  \/ LimitCheck \/ NurseryFull \/ AtomicBeginTest \/ AtomicEndTest
  \/ \E t \in Threads : ThreadStep(t)
  \/ HandlerLoop
  \/ \E s \in Signals : Raise(s) \/ Deliver(s)

Spec == Init /\ [][Next]_vars

\* Code that runs on to its end once entered: the handler loop, the library
\* calls in progress, and a limit check, which every loop header and function
\* entry has (signalCheck in insert-checks.fun).
MLProgress ==
  \/ LimitCheck
  \/ HandlerLoop
  \/ \E t \in Threads :
       \/ SetHandlerBegin(t) \/ UpdateSignalsHandled(t) \/ SetHandlerEnd(t)
       \/ SuspendBegin(t) \/ SwitchToSignalHandler(t)

\* C code is never left half-way.  SML code runs on although a full nursery may
\* intervene any number of times: a collection leaves room (hasHeapBytesFree).
\* The program owes one thing: it does not stay in critical sections for ever.
Fairness ==
  /\ WF_vars(Runtime \/ AtomicBeginTest \/ AtomicEndTest \/ \E t \in Threads : Sigaction(t))
  /\ SF_vars(MLProgress)
  /\ SF_vars(\E t \in Threads : AtomicEnd(t))
  /\ SF_vars(depth = 1 /\ \E t \in Threads : AtomicEnd(t))

FairSpec == Spec /\ Fairness

-----------------------------------------------------------------------------
(* Invariants.                                                             *)

\* How much of atomicState the runtime itself holds at each control point.
RuntimeDepth ==
  IF rt \in {"enter", "switch"} /\ target = Handler THEN 2
  ELSE IF rt \in {"enter", "switch", "poll", "ensure", "leave"} THEN 1 ELSE 0

\* Every path through the runtime and the handler thread returns the counter
\* of critical sections as the SML code left it (atomic.c, GC_startSignalHandler's
\* assignment of 2, the decrement in GC_switchToThread).
AtomicBalance == atomicState = depth + RuntimeDepth

\* No lost wake-up: a recorded signal that may be handled has the limit check
\* armed, whatever the point of endAtomic or atomicEnd GC_handler interrupted.
PendingIsArmed ==
  (signalIsPending /\ atomicState = 0 /\ rt \notin {"end", "left"}) => limit = "zero"

\* A critical section never sees the zeroed limit, or it would enter
\* GC_collect at every limit check (invariantForGC asserts it, invariant.c:80).
CriticalHasLimit ==
  (atomicState > 0 /\ rt \notin {"enter", "begin"}) => limit = "heap"

\* A recorded signal keeps either the flag or a handler run that has yet to
\* look at it: the flag is cleared before the set is read and reset.
NoOrphanedSignal ==
  signalsPending # {} =>
    signalIsPending \/ (amInSignalHandler /\ pc[Handler] \in {"take", "block", "sampleGC", "sample", "reset"})

\* The handler loop always knows whom to resume: the interrupted thread is in
\* savedThread until it is taken and in the loop's variable afterwards.
InterruptedThreadKept ==
  IF amInSignalHandler /\ pc[Handler] = "take"
  THEN savedThread \in Threads /\ interrupted = NoThread
  ELSE savedThread = NoThread /\ (currentThread = Handler /\ rt = "ml" => interrupted \in Threads)

\* A program that blocks the signals it handles before it decides to suspend
\* never sleeps on a signal that is already recorded: leaving the critical
\* section of the sigprocmask call has handled it.
SuspendNotMissed ==
  (rt = "sigsuspend" /\ Handled \subseteq mask) => signalsPending \cap Handled = {}

-----------------------------------------------------------------------------
(* Action properties.                                                      *)

\* A signal leaves the recorded set only into the handler functions about to
\* run, unless the program has removed its handler meanwhile.
NoSignalDropped ==
  [][\A s \in signalsPending \ signalsPending' : s \in todo \/ s \notin Handled]_vars

\* Signal.Handler: "a signal handler is never interrupted by another signal
\* handler" and "never invoked while the running thread is in a critical
\* section"; suspend's own critical section is the one exception.
HandlerStartsOutside ==
  [][savedThread' # NoThread /\ savedThread = NoThread =>
       /\ ~amInSignalHandler
       /\ savedThread' \in Threads
       /\ depth = 0 \/ (depth = 1 /\ pc[currentThread] = "woken2")]_vars

-----------------------------------------------------------------------------
(* Liveness.                                                               *)

\* A recorded signal reaches its SML handler, unless the handler is removed or
\* the process is put to sleep in sigsuspend.
SignalsAreHandled ==
  \A s \in Signals :
    (s \in signalsPending /\ s \in Handled) ~> (s \in todo \/ s \notin Handled \/ rt = "sigsuspend")

\* A GC signal posted outside the handler runs the GC handler (finalizers).
GCSignalIsHandled ==
  (gcSignalPending /\ signalIsPending /\ ~amInSignalHandler) ~> (GC \in todo \/ rt = "sigsuspend")

-----------------------------------------------------------------------------
(* The runtime keeps the promise.                                          *)

Collected == pc[Handler] \in {"unblock", "run"}

\* A critical section of the program itself: neither the handler thread's nor
\* the one suspend is in when it starts the handler.
InUserCritical ==
  /\ ~amInSignalHandler
  /\ depth > IF pc[currentThread] = "woken2" THEN 1 ELSE 0

Promise == INSTANCE SignalPromise WITH
  waiting   <- signalsPending,
  running   <- IF Collected THEN todo \ {GC} ELSE {},
  phase     <- IF ~amInSignalHandler THEN "user" ELSE IF Collected THEN "run" ELSE "collect",
  installed <- Handled,
  critical  <- InUserCritical

\* Every step of the runtime, of the kernel and of the SML library is a step of
\* the promise of MLtonSignal.adoc, or none.
KeepsPromise == Promise!PromiseSpec
=============================================================================
