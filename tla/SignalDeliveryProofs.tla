------------------------ MODULE SignalDeliveryProofs ------------------------
(***************************************************************************)
(* The safety of signal delivery, for any set of signals and of threads.   *)
(*                                                                         *)
(* The invariants of SignalDelivery are not inductive one by one: that the *)
(* handler is not started twice rests on the balance of atomicState, which *)
(* rests on where the handler thread is.  IInv joins them with the facts   *)
(* they need.                                                              *)
(***************************************************************************)
EXTENDS MCSignalDelivery, SequencesExt, FiniteSetTheorems, SequenceTheorems, TLAPS

\* Which thread is at which control point, and how deep.
PointInv ==
  /\ rt = "switch" => target # NoThread
  /\ target # NoThread => rt \in {"enter", "switch"} /\ depth = 1
  /\ rt = "begin" => depth > 0
  /\ rt = "end" => depth = 0
  /\ rt \in {"begin", "end", "sigaction", "sigsuspend"} => currentThread \in Threads
  /\ currentThread = Handler => depth = 1
  /\ \A t \in Threads : pc[t] = "woken1" /\ currentThread = t => depth = 0 /\ target = NoThread
  /\ \A t \in Threads : pc[t] = "woken2" => currentThread = t /\ depth = 1 /\ target = NoThread

\* The four situations of the handler thread.
Idle ==
  /\ ~amInSignalHandler /\ pc[Handler] = "take"
  /\ savedThread = NoThread /\ interrupted = NoThread
  /\ \/ currentThread \in Threads /\ target # Handler
     \/ currentThread = Handler /\ target \in Threads
Starting ==
  /\ amInSignalHandler /\ pc[Handler] = "take"
  /\ savedThread \in Threads /\ interrupted = NoThread
  /\ \/ currentThread = Handler /\ target = NoThread
     \/ currentThread \in Threads /\ target = Handler
Working ==
  /\ amInSignalHandler /\ pc[Handler] \notin {"take", "resume"}
  /\ savedThread = NoThread /\ interrupted \in Threads
  /\ currentThread = Handler /\ target = NoThread
Resuming ==
  /\ ~amInSignalHandler /\ pc[Handler] = "resume"
  /\ savedThread = NoThread /\ interrupted \in Threads
  /\ currentThread = Handler /\ target = NoThread

HandlerInv == Idle \/ Starting \/ Working \/ Resuming

\* The limit is zeroed only for a signal that is pending.
ZeroMeansPending == limit = "zero" => signalIsPending

\* Handled signals stay blocked while the handler loop samples and resets, so
\* that it resets exactly what it has sampled.
SampleInv ==
  /\ pc[Handler] \in {"sampleGC", "sample", "reset", "unblock"} => Handled \subseteq blocked
  /\ pc[Handler] = "sample" => todo \subseteq {GC}
  /\ pc[Handler] = "reset" => todo \ {GC} = signalsPending \cap Handled

IInv ==
  /\ TypeOK
  /\ AtomicBalance
  /\ PointInv
  /\ HandlerInv
  /\ PendingIsArmed
  /\ CriticalHasLimit
  /\ ZeroMeansPending
  /\ NoOrphanedSignal
  /\ SampleInv

-----------------------------------------------------------------------------
\* What setHandler leaves for sigaction: a signal and its disposition, or nothing.
LEMMA RequestTypes ==
  /\ NoRequest \in HandlerRequests
  /\ \A req \in HandlerRequests :
       /\ req.kind \in Dispositions
       /\ req.kind = "Handler" => req.sig \in Signals
BY DEF HandlerRequests, NoRequest, Dispositions

(* The steps of the program, component by component.                       *)

\* Every step of the runtime's C code preserves the invariant.
LEMMA RuntimeInv ==
  ASSUME IInv, Runtime
  PROVE  IInv'
<1> USE ThreadsAssumption, SignalsAssumption DEF IInv, TypeOK, RuntimeTypes, ControlTypes,
    DataTypes, AtomicBalance, RuntimeDepth, PointInv, HandlerInv, Idle, Starting, Working,
    Resuming, PendingIsArmed, CriticalHasLimit, ZeroMeansPending, NoOrphanedSignal,
    SampleInv, AllThreads, RuntimePoints, Goto, info, kernel, sml
<1>1. CASE BeginAtomic
  <2>1. TypeOK'
    BY <1>1 DEF BeginAtomic, Heap, Handled
  <2>2. AtomicBalance' /\ PointInv' /\ HandlerInv'
    BY <1>1 DEF BeginAtomic, Heap, Handled
  <2>3. PendingIsArmed' /\ CriticalHasLimit' /\ ZeroMeansPending'
    BY <1>1 DEF BeginAtomic, Heap, Handled
  <2>4. NoOrphanedSignal' /\ SampleInv'
    BY <1>1 DEF BeginAtomic, Heap, Handled
  <2> QED BY <2>1, <2>2, <2>3, <2>4
<1>2. CASE SwitchToThread
  BY <1>2 DEF SwitchToThread, SwitchReleased
<1>3. CASE Poll
  <2>1. CASE ~NonAtomicAndPending
    BY <1>3, <2>1 DEF Poll, Handled
  <2>2. CASE NonAtomicAndPending
    <3>1. /\ UNCHANGED <<limit, gcSignalPending, signalsHandled, signalsPending, target>>
          /\ UNCHANGED <<kernel, sml>>
      BY <1>3 DEF Poll
    <3>2. /\ signalIsPending' = FALSE /\ amInSignalHandler' = TRUE
          /\ savedThread' = currentThread /\ currentThread' = Handler
          /\ atomicState' = 2 /\ depth' = 1 /\ rt' = "ensure"
      BY <1>3, <2>2 DEF Poll, StartSignalHandler, HandlerAtomicState
    <3>3. rt = "poll" /\ depth = 0 /\ Idle
      BY <1>3, <2>2 DEF Poll, NonAtomicAndPending
    <3>4. TypeOK'
      BY <3>1, <3>2
    <3>5. AtomicBalance' /\ PointInv' /\ HandlerInv'
      BY <3>1, <3>2, <3>3
    <3>6. PendingIsArmed' /\ CriticalHasLimit' /\ ZeroMeansPending'
      BY <3>1, <3>2, <3>3
    <3>7. NoOrphanedSignal' /\ SampleInv'
      BY <3>1, <3>2, <3>3
    <3> QED BY <3>4, <3>5, <3>6, <3>7
  <2> QED BY <2>1, <2>2
<1>4. CASE Ensure
  <2>1. TypeOK'
    BY <1>4 DEF Ensure, PerformGC, Heap, Handled
  <2>2. AtomicBalance' /\ PointInv' /\ HandlerInv'
    BY <1>4 DEF Ensure, PerformGC, Heap, Handled
  <2>3. PendingIsArmed' /\ CriticalHasLimit' /\ ZeroMeansPending'
    BY <1>4 DEF Ensure, PerformGC, Heap, Handled
  <2>4. NoOrphanedSignal' /\ SampleInv'
    BY <1>4 DEF Ensure, PerformGC, Heap, Handled
  <2> QED BY <2>1, <2>2, <2>3, <2>4
<1>5. CASE Leave
  <2>1. TypeOK'
    BY <1>5 DEF Leave, Handled
  <2>2. AtomicBalance' /\ PointInv' /\ HandlerInv'
    BY <1>5 DEF Leave, Handled
  <2>3. PendingIsArmed' /\ CriticalHasLimit' /\ ZeroMeansPending'
    BY <1>5 DEF Leave, Handled
  <2>4. NoOrphanedSignal' /\ SampleInv'
    BY <1>5 DEF Leave, Handled
  <2> QED BY <2>1, <2>2, <2>3, <2>4
<1>6. CASE EndAtomic
  <2>1. TypeOK'
    BY <1>6 DEF EndAtomic, RearmedLimit, Handled
  <2>2. AtomicBalance' /\ PointInv' /\ HandlerInv'
    BY <1>6 DEF EndAtomic, RearmedLimit, Handled
  <2>3. PendingIsArmed' /\ CriticalHasLimit' /\ ZeroMeansPending'
    BY <1>6 DEF EndAtomic, RearmedLimit, Handled
  <2>4. NoOrphanedSignal' /\ SampleInv'
    BY <1>6 DEF EndAtomic, RearmedLimit, Handled
  <2> QED BY <2>1, <2>2, <2>3, <2>4
<1> QED BY <1>1, <1>2, <1>3, <1>4, <1>5, <1>6 DEF Runtime

\* So do a limit check and the inlined atomicBegin and atomicEnd.
LEMMA MutatorInv ==
  ASSUME IInv,
         LimitCheck \/ NurseryFull \/ AtomicBeginTest \/ AtomicEndTest
  PROVE  IInv'
<1> USE ThreadsAssumption, SignalsAssumption DEF IInv, TypeOK, RuntimeTypes, ControlTypes,
    DataTypes, AtomicBalance, RuntimeDepth, PointInv, HandlerInv, Idle, Starting, Working,
    Resuming, PendingIsArmed, CriticalHasLimit, ZeroMeansPending, NoOrphanedSignal,
    SampleInv, AllThreads, RuntimePoints, Goto, info, kernel, sml
<1>1. CASE LimitCheck
  BY <1>1 DEF LimitCheck, CallRuntime
<1>2. CASE NurseryFull
  <2>1. TypeOK'
    BY <1>2 DEF NurseryFull, CallRuntime, Handled
  <2>2. AtomicBalance' /\ PointInv' /\ HandlerInv'
    BY <1>2 DEF NurseryFull, CallRuntime, Handled
  <2>3. PendingIsArmed' /\ CriticalHasLimit' /\ ZeroMeansPending'
    BY <1>2 DEF NurseryFull, CallRuntime, Handled
  <2>4. NoOrphanedSignal' /\ SampleInv'
    BY <1>2 DEF NurseryFull, CallRuntime, Handled
  <2> QED BY <2>1, <2>2, <2>3, <2>4
<1>3. CASE AtomicBeginTest
  BY <1>3 DEF AtomicBeginTest, Heap
<1>4. CASE AtomicEndTest
  BY <1>4 DEF AtomicEndTest, AtomicEndCollect, CallRuntime
<1> QED BY <1>1, <1>2, <1>3, <1>4

\* So does every step of an ordinary thread.
LEMMA ThreadStepInv ==
  ASSUME IInv, NEW t \in Threads, ThreadStep(t)
  PROVE  IInv'
<1> USE ThreadsAssumption, SignalsAssumption DEF IInv, TypeOK, RuntimeTypes, ControlTypes,
    DataTypes, AtomicBalance, RuntimeDepth, PointInv, HandlerInv, Idle, Starting, Working,
    Resuming, PendingIsArmed, CriticalHasLimit, ZeroMeansPending, NoOrphanedSignal,
    SampleInv, AllThreads, RuntimePoints, Goto, info, kernel, sml, ThreadPoints,
    HandlerPoints, Executing, Step, Handled
<1>1. CASE AtomicBegin(t)
  BY <1>1 DEF AtomicBegin, AtomicBeginAt
<1>2. CASE AtomicEnd(t)
  BY <1>2 DEF AtomicEnd, AtomicEndAt
<1>3. CASE \E p \in Threads : Switch(t, p)
  BY <1>3 DEF Switch, CallRuntime
<1>4. CASE \E s \in Signals, k \in Kinds : SetHandler(t, s, k)
  BY <1>4 DEF SetHandler, HandlerRequests, Dispositions, NoRequest
<1>5. CASE SetHandlerBegin(t)
  BY <1>5 DEF SetHandlerBegin, AtomicBeginAt
<1>6. CASE UpdateSignalsHandled(t)
  <2>1. TypeOK'
    BY <1>6, RequestTypes DEF UpdateSignalsHandled
  <2>2. AtomicBalance' /\ PointInv' /\ HandlerInv'
    BY <1>6 DEF UpdateSignalsHandled
  <2>3. PendingIsArmed' /\ CriticalHasLimit' /\ ZeroMeansPending'
    BY <1>6 DEF UpdateSignalsHandled
  <2>4. NoOrphanedSignal' /\ SampleInv'
    BY <1>6 DEF UpdateSignalsHandled
  <2> QED BY <2>1, <2>2, <2>3, <2>4
<1>7. CASE Sigaction(t)
  <2>1. TypeOK'
    BY <1>7, RequestTypes DEF Sigaction
  <2>2. AtomicBalance' /\ PointInv' /\ HandlerInv'
    BY <1>7 DEF Sigaction, HandlerRequests, Dispositions, NoRequest
  <2>3. PendingIsArmed' /\ CriticalHasLimit' /\ ZeroMeansPending'
    BY <1>7 DEF Sigaction, HandlerRequests, Dispositions, NoRequest
  <2>4. NoOrphanedSignal' /\ SampleInv'
    BY <1>7 DEF Sigaction, HandlerRequests, Dispositions, NoRequest
  <2> QED BY <2>1, <2>2, <2>3, <2>4
<1>8. CASE SetHandlerEnd(t)
  BY <1>8 DEF SetHandlerEnd, AtomicEndAt
<1>9. CASE \E m \in SUBSET Signals : SetBlocked(t, m)
  BY <1>9 DEF SetBlocked
<1>10. CASE \E m \in SUBSET Signals : Suspend(t, m)
  BY <1>10 DEF Suspend
<1>11. CASE SuspendBegin(t)
  <2>1. TypeOK'
    BY <1>11 DEF SuspendBegin, AtomicBeginAt
  <2>2. AtomicBalance' /\ PointInv' /\ HandlerInv'
    BY <1>11 DEF SuspendBegin, AtomicBeginAt
  <2>3. PendingIsArmed' /\ CriticalHasLimit' /\ ZeroMeansPending'
    BY <1>11 DEF SuspendBegin, AtomicBeginAt
  <2>4. NoOrphanedSignal' /\ SampleInv'
    BY <1>11 DEF SuspendBegin, AtomicBeginAt
  <2> QED BY <2>1, <2>2, <2>3, <2>4
<1>12. CASE SwitchToSignalHandler(t)
  <2>1. TypeOK'
    BY <1>12 DEF SwitchToSignalHandler
  <2>2. AtomicBalance' /\ PointInv' /\ HandlerInv'
    BY <1>12 DEF SwitchToSignalHandler
  <2>3. PendingIsArmed' /\ CriticalHasLimit' /\ ZeroMeansPending'
    BY <1>12 DEF SwitchToSignalHandler
  <2>4. NoOrphanedSignal' /\ SampleInv'
    BY <1>12 DEF SwitchToSignalHandler
  <2> QED BY <2>1, <2>2, <2>3, <2>4
<1> QED BY <1>1, <1>2, <1>3, <1>4, <1>5, <1>6, <1>7, <1>8, <1>9, <1>10, <1>11, <1>12 DEF
    ThreadStep

\* So does every step of the signal-handler thread.
LEMMA HandlerLoopInv ==
  ASSUME IInv, HandlerLoop
  PROVE  IInv'
<1> USE ThreadsAssumption, SignalsAssumption DEF IInv, TypeOK, RuntimeTypes, ControlTypes,
    DataTypes, AtomicBalance, RuntimeDepth, PointInv, HandlerInv, Idle, Starting, Working,
    Resuming, PendingIsArmed, CriticalHasLimit, ZeroMeansPending, NoOrphanedSignal,
    SampleInv, AllThreads, RuntimePoints, Goto, info, kernel, sml, ThreadPoints,
    HandlerPoints, Executing, Step, Handled, HandlerStep
<1>1. CASE TakeSaved
  BY <1>1 DEF TakeSaved, SavedCleared
<1>2. CASE BlockHandled
  BY <1>2 DEF BlockHandled, HandledBlocked
<1>3. CASE SampleGC
  BY <1>3 DEF SampleGC, GCSampled
<1>4. CASE SamplePending
  BY <1>4 DEF SamplePending
<1>5. CASE ResetPending
  <2>1. TypeOK'
    BY <1>5 DEF ResetPending
  <2>2. AtomicBalance' /\ PointInv' /\ HandlerInv'
    BY <1>5 DEF ResetPending
  <2>3. PendingIsArmed' /\ CriticalHasLimit' /\ ZeroMeansPending'
    BY <1>5 DEF ResetPending
  <2>4. NoOrphanedSignal' /\ SampleInv'
    BY <1>5 DEF ResetPending
  <2> QED BY <2>1, <2>2, <2>3, <2>4
<1>6. CASE RestoreMask
  BY <1>6 DEF RestoreMask
<1>7. CASE \E f \in Signals \cup {GC} : RunHandler(f)
  BY <1>7 DEF RunHandler
<1>8. CASE FinishSignalHandler
  <2>1. TypeOK'
    BY <1>8 DEF FinishSignalHandler, AllHandlersRun, PendingKept
  <2>2. AtomicBalance' /\ PointInv' /\ HandlerInv'
    BY <1>8 DEF FinishSignalHandler, AllHandlersRun, PendingKept
  <2>3. PendingIsArmed' /\ CriticalHasLimit' /\ ZeroMeansPending'
    BY <1>8 DEF FinishSignalHandler, AllHandlersRun, PendingKept
  <2>4. NoOrphanedSignal' /\ SampleInv'
    BY <1>8 DEF FinishSignalHandler, AllHandlersRun, PendingKept
  <2> QED BY <2>1, <2>2, <2>3, <2>4
<1>9. CASE ResumeInterrupted
  BY <1>9 DEF ResumeInterrupted, CallRuntime, ThreadChosen
<1> QED BY <1>1, <1>2, <1>3, <1>4, <1>5, <1>6, <1>7, <1>8, <1>9 DEF HandlerLoop

\* And so does a signal, raised or delivered at any moment.
LEMMA EnvironmentInv ==
  ASSUME IInv, NEW s \in Signals, Raise(s) \/ Deliver(s)
  PROVE  IInv'
<1> USE ThreadsAssumption, SignalsAssumption DEF IInv, TypeOK, RuntimeTypes, ControlTypes,
    DataTypes, AtomicBalance, RuntimeDepth, PointInv, HandlerInv, Idle, Starting, Working,
    Resuming, PendingIsArmed, CriticalHasLimit, ZeroMeansPending, NoOrphanedSignal,
    SampleInv, AllThreads, RuntimePoints, Goto, info, kernel, sml, Handled
<1>1. CASE Raise(s)
  <2>1. TypeOK'
    BY <1>1 DEF Raise
  <2>2. AtomicBalance' /\ PointInv' /\ HandlerInv'
    BY <1>1 DEF Raise
  <2>3. PendingIsArmed' /\ CriticalHasLimit' /\ ZeroMeansPending'
    BY <1>1 DEF Raise
  <2>4. NoOrphanedSignal' /\ SampleInv'
    BY <1>1 DEF Raise
  <2> QED BY <2>1, <2>2, <2>3, <2>4
<1>2. CASE Deliver(s)
  <2>1. TypeOK'
    <3>1. RuntimeTypes'
      BY <1>2 DEF Deliver, GC_handler, ZeroLimitOutside
    <3>2. ControlTypes'
      BY <1>2 DEF Deliver
    <3>3. DataTypes'
      BY <1>2 DEF Deliver
    <3> QED BY <3>1, <3>2, <3>3
  <2>2. AtomicBalance' /\ PointInv' /\ HandlerInv'
    BY <1>2 DEF Deliver, GC_handler, ZeroLimitOutside
  <2>3. PendingIsArmed' /\ CriticalHasLimit' /\ ZeroMeansPending'
    BY <1>2 DEF Deliver, GC_handler, ZeroLimitOutside
  <2>4. NoOrphanedSignal' /\ SampleInv'
    BY <1>2 DEF Deliver, GC_handler, ZeroLimitOutside
  <2> QED BY <2>1, <2>2, <2>3, <2>4
<1> QED BY <1>1, <1>2

\* Initially the handler thread is idle and nothing is pending.
LEMMA InitInv == Init => IInv
<1> SUFFICES ASSUME Init PROVE IInv
  OBVIOUS
<1> USE ThreadsAssumption, SignalsAssumption DEF Init, AllThreads
<1>1. TypeOK
  BY DEF TypeOK, RuntimeTypes, ControlTypes, DataTypes, RuntimePoints, ThreadPoints,
     HandlerPoints, HandlerRequests, NoRequest, Dispositions
<1>2. AtomicBalance /\ PointInv /\ HandlerInv
  BY DEF AtomicBalance, RuntimeDepth, PointInv, HandlerInv, Idle
<1>3. PendingIsArmed /\ CriticalHasLimit /\ ZeroMeansPending
  BY DEF PendingIsArmed, CriticalHasLimit, ZeroMeansPending
<1>4. NoOrphanedSignal /\ SampleInv
  BY DEF NoOrphanedSignal, SampleInv
<1> QED BY <1>1, <1>2, <1>3, <1>4 DEF IInv

\* A stutter preserves the invariant.
LEMMA StutterInv == IInv /\ UNCHANGED vars => IInv'
BY DEF IInv, TypeOK, RuntimeTypes, ControlTypes, DataTypes, AtomicBalance, RuntimeDepth,
   PointInv, HandlerInv, Idle, Starting, Working, Resuming, PendingIsArmed, CriticalHasLimit,
   ZeroMeansPending, NoOrphanedSignal, SampleInv, Handled, vars, info, kernel, sml

\* The inductive invariant holds in every behaviour.
THEOREM Invariance == Spec => []IInv
<1>1. IInv /\ [Next]_vars => IInv'
  <2> SUFFICES ASSUME IInv, [Next]_vars PROVE IInv'
    OBVIOUS
  <2>1. CASE Runtime
    BY <2>1, RuntimeInv
  <2>2. CASE LimitCheck \/ NurseryFull \/ AtomicBeginTest \/ AtomicEndTest
    BY <2>2, MutatorInv
  <2>3. CASE \E t \in Threads : ThreadStep(t)
    BY <2>3, ThreadStepInv
  <2>4. CASE HandlerLoop
    BY <2>4, HandlerLoopInv
  <2>5. CASE \E s \in Signals : Raise(s) \/ Deliver(s)
    BY <2>5, EnvironmentInv
  <2>6. CASE UNCHANGED vars
    BY <2>6, StutterInv
  <2> QED BY <2>1, <2>2, <2>3, <2>4, <2>5, <2>6 DEF Next
<1> QED BY InitInv, <1>1, PTL DEF Spec

-----------------------------------------------------------------------------
(* What the inductive invariant says of the runtime.                       *)

\* Every field of the runtime state keeps a value of its type.
THEOREM TypeCorrect == Spec => []TypeOK
BY Invariance, PTL DEF IInv

\* The runtime and the handler thread give atomicState back as they found it.
THEOREM CriticalSectionsBalance == Spec => []AtomicBalance
BY Invariance, PTL DEF IInv

\* A recorded signal that may be handled has the limit check armed, whichever
\* two steps of atomicEnd or endAtomic GC_handler comes between.
THEOREM NoLostWakeup == Spec => []PendingIsArmed
BY Invariance, PTL DEF IInv

\* Critical sections run with the real limit.
THEOREM CriticalSectionsHaveLimit == Spec => []CriticalHasLimit
BY Invariance, PTL DEF IInv

\* A recorded signal always has the flag or a handler run ahead of it.
THEOREM RecordedSignalsAreSeen == Spec => []NoOrphanedSignal
BY Invariance, PTL DEF IInv

\* The handler loop always knows which thread to resume.
THEOREM SomeoneToResume == Spec => []InterruptedThreadKept
<1>1. IInv => InterruptedThreadKept
  BY ThreadsAssumption DEF IInv, TypeOK, ControlTypes, PointInv, HandlerInv, Idle, Starting,
     Working, Resuming, InterruptedThreadKept
<1> QED BY Invariance, <1>1, PTL

-----------------------------------------------------------------------------
(* No sleep on a signal that is recorded already.                          *)

\* Outside critical sections no blocked signal is recorded: whoever blocks it is in one,
\* and its end collects.  A thread that sigsuspend has woken is the exception, and a
\* thread that sleeps in it has left no such signal under its own mask.
SuspendInv ==
  /\ rt = "sigsuspend" => pc[currentThread] = "woken1" /\ signalsPending \cap mask = {}
  /\ signalsPending \cap blocked # {} =>
       depth > 0 \/ rt \in {"end", "enter", "poll"} \/ pc[currentThread] = "woken1"

\* The runtime's C code ends a critical section with blocked signals by a handler run.
LEMMA RuntimeSuspend == ASSUME IInv, SuspendInv, Runtime PROVE SuspendInv'
<1> USE ThreadsAssumption DEF IInv, TypeOK, RuntimeTypes, ControlTypes, AtomicBalance,
    RuntimeDepth, PointInv, SuspendInv, Goto, info, kernel, sml
<1>1. CASE BeginAtomic
  BY <1>1 DEF BeginAtomic
<1>2. CASE SwitchToThread
  BY <1>2 DEF SwitchToThread
<1>3. CASE Poll
  <2>1. CASE NonAtomicAndPending
    BY <1>3, <2>1 DEF Poll, StartSignalHandler
  <2>2. CASE ~NonAtomicAndPending
    <3>1. depth = 0 => signalsPending = {}
      BY <1>3, <2>2 DEF Poll, NonAtomicAndPending, NoOrphanedSignal, HandlerInv, Idle,
         Starting, Working, Resuming, AllThreads
    <3>2. UNCHANGED <<depth, currentThread, pc, signalsPending, blocked>> /\ rt' = "ensure"
      BY <1>3, <2>2 DEF Poll
    <3> QED BY <3>1, <3>2
  <2> QED BY <2>1, <2>2
<1>4. CASE Ensure
  BY <1>4 DEF Ensure
<1>5. CASE Leave
  BY <1>5 DEF Leave
<1>6. CASE EndAtomic
  BY <1>6 DEF EndAtomic
<1> QED BY <1>1, <1>2, <1>3, <1>4, <1>5, <1>6 DEF Runtime

\* So does the outermost atomicEnd.
LEMMA MutatorSuspend ==
  ASSUME IInv, SuspendInv, LimitCheck \/ NurseryFull \/ AtomicBeginTest \/ AtomicEndTest
  PROVE  SuspendInv'
<1> USE ThreadsAssumption DEF IInv, TypeOK, RuntimeTypes, ControlTypes, PointInv, SuspendInv,
    Goto, info, kernel, sml
<1>1. CASE LimitCheck \/ NurseryFull
  BY <1>1 DEF LimitCheck, NurseryFull, CallRuntime
<1>2. CASE AtomicBeginTest
  BY <1>2 DEF AtomicBeginTest
<1>3. CASE AtomicEndTest
  <2>1. CASE signalIsPending
    BY <1>3, <2>1 DEF AtomicEndTest, AtomicEndCollect, CallRuntime
  <2>2. CASE ~signalIsPending
    <3>1. signalsPending = {}
      BY <1>3, <2>2 DEF AtomicEndTest, NoOrphanedSignal, HandlerInv, Idle, Starting, Working,
         Resuming
    <3> QED BY <1>3, <2>2, <3>1 DEF AtomicEndTest, AtomicEndCollect
  <2> QED BY <2>1, <2>2
<1> QED BY <1>1, <1>2, <1>3

\* Threads block signals in critical sections, and sleep outside them.
LEMMA ThreadSuspend == ASSUME IInv, SuspendInv, NEW t \in Threads, ThreadStep(t) PROVE SuspendInv'
<1> USE ThreadsAssumption DEF IInv, TypeOK, RuntimeTypes, ControlTypes, PointInv, SuspendInv,
    Goto, Executing, Step, AllThreads, info, kernel, sml
<1>1. CASE AtomicBegin(t) \/ SetHandlerBegin(t) \/ SuspendBegin(t)
  BY <1>1 DEF AtomicBegin, SetHandlerBegin, SuspendBegin, AtomicBeginAt
<1>2. CASE AtomicEnd(t) \/ SetHandlerEnd(t)
  BY <1>2 DEF AtomicEnd, SetHandlerEnd, AtomicEndAt, AtomicBalance, RuntimeDepth
<1>3. CASE \E p \in Threads : Switch(t, p)
  BY <1>3 DEF Switch, CallRuntime
<1>4. CASE \E s \in Signals, k \in Kinds : SetHandler(t, s, k)
  BY <1>4 DEF SetHandler
<1>5. CASE UpdateSignalsHandled(t) \/ Sigaction(t)
  BY <1>5 DEF UpdateSignalsHandled, Sigaction, AtomicBalance, RuntimeDepth
<1>6. CASE \E m \in SUBSET Signals : SetBlocked(t, m)
  BY <1>6 DEF SetBlocked
<1>7. CASE \E m \in SUBSET Signals : Suspend(t, m)
  BY <1>7 DEF Suspend
<1>8. CASE SwitchToSignalHandler(t)
  BY <1>8 DEF SwitchToSignalHandler
<1> QED BY <1>1, <1>2, <1>3, <1>4, <1>5, <1>6, <1>7, <1>8 DEF ThreadStep

\* The handler runs in a critical section.
LEMMA HandlerLoopSuspend == ASSUME IInv, SuspendInv, HandlerLoop PROVE SuspendInv'
<1>1. rt = "ml" /\ depth' = depth /\ depth = 1 /\ rt' \in {"ml", "enter"}
  BY DEF IInv, TypeOK, ControlTypes, PointInv, HandlerLoop, HandlerStep, TakeSaved, BlockHandled,
     SampleGC, SamplePending, ResetPending, RestoreMask, RunHandler, FinishSignalHandler,
     ResumeInterrupted, Executing, CallRuntime, Goto
<1> QED BY <1>1 DEF SuspendInv

\* A signal that is delivered is not blocked, unless by the mask that sigsuspend puts back.
LEMMA EnvironmentSuspend ==
  ASSUME IInv, SuspendInv, NEW s \in Signals, Raise(s) \/ Deliver(s)
  PROVE  SuspendInv'
<1> USE DEF SuspendInv, Goto, info, sml
<1>1. CASE Raise(s)
  BY <1>1 DEF Raise
<1>2. CASE Deliver(s)
  <2>1. CASE rt = "sigsuspend" /\ disposition[s] = "Handler"
    BY <1>2, <2>1 DEF Deliver, GC_handler
  <2>2. CASE ~(rt = "sigsuspend" /\ disposition[s] = "Handler")
    <3>1. UNCHANGED <<rt, blocked, mask, pc, currentThread, depth>>
      BY <1>2, <2>2 DEF Deliver
    <3>2. signalsPending' \cap blocked \subseteq signalsPending \cap blocked
      BY <1>2, <2>2 DEF Deliver, GC_handler
    <3>3. rt = "sigsuspend" => signalsPending' = signalsPending
      BY <1>2, <2>2 DEF Deliver
    <3> QED BY <3>1, <3>2, <3>3
  <2> QED BY <2>1, <2>2
<1> QED BY <1>1, <1>2

\* Signal.suspend does not sleep on a recorded signal: a program that blocks the signals it
\* handles before it decides to suspend has had all that came before handled.
THEOREM SuspendMissesNothing == Spec => []SuspendNotMissed
<1>1. Init => SuspendInv
  BY DEF Init, SuspendInv
<1>2. IInv /\ SuspendInv /\ [Next]_vars => SuspendInv'
  <2> SUFFICES ASSUME IInv, SuspendInv, [Next]_vars PROVE SuspendInv'
    OBVIOUS
  <2>1. CASE Runtime
    BY <2>1, RuntimeSuspend
  <2>2. CASE LimitCheck \/ NurseryFull \/ AtomicBeginTest \/ AtomicEndTest
    BY <2>2, MutatorSuspend
  <2>3. CASE \E t \in Threads : ThreadStep(t)
    BY <2>3, ThreadSuspend
  <2>4. CASE HandlerLoop
    BY <2>4, HandlerLoopSuspend
  <2>5. CASE \E s \in Signals : Raise(s) \/ Deliver(s)
    BY <2>5, EnvironmentSuspend
  <2>6. CASE UNCHANGED vars
    BY <2>6 DEF SuspendInv, vars, info, kernel, sml
  <2> QED BY <2>1, <2>2, <2>3, <2>4, <2>5, <2>6 DEF Next
<1>3. SuspendInv => SuspendNotMissed
  BY DEF SuspendInv, SuspendNotMissed
<1> QED BY Invariance, <1>1, <1>2, <1>3, PTL DEF Spec

-----------------------------------------------------------------------------
(* What a step may never do.                                               *)

\* Only the reset of the handler loop takes signals out of the recorded set.
LEMMA OnlyResetDrops ==
  ASSUME Next, ~ResetPending
  PROVE  signalsPending \subseteq signalsPending'
<1>1. CASE Runtime \/ LimitCheck \/ NurseryFull \/ AtomicBeginTest \/ AtomicEndTest
  BY <1>1 DEF Runtime, BeginAtomic, SwitchToThread, Poll, Ensure, Leave, EndAtomic,
     LimitCheck, NurseryFull, AtomicBeginTest, AtomicEndTest, info
<1>2. CASE \E t \in Threads : ThreadStep(t)
  BY <1>2 DEF ThreadStep, AtomicBegin, AtomicEnd, AtomicBeginAt, AtomicEndAt, Switch,
     SetHandler, SetHandlerBegin, UpdateSignalsHandled, Sigaction, SetHandlerEnd,
     SetBlocked, Suspend, SuspendBegin, SwitchToSignalHandler, info
<1>3. CASE HandlerLoop
  BY <1>3 DEF HandlerLoop, TakeSaved, BlockHandled, SampleGC, SamplePending, RestoreMask,
     RunHandler, FinishSignalHandler, ResumeInterrupted, info
<1>4. CASE \E s \in Signals : Raise(s) \/ Deliver(s)
  BY <1>4 DEF Raise, Deliver, GC_handler, info
<1> QED BY <1>1, <1>2, <1>3, <1>4 DEF Next

\* The handler loop forgets no signal that it has not sampled.
THEOREM SignalsAreNotDropped == Spec => NoSignalDropped
<1> DEFINE Kept == \A s \in signalsPending \ signalsPending' : s \in todo \/ s \notin Handled
<1>1. IInv /\ [Next]_vars => [Kept]_vars
  <2> SUFFICES ASSUME IInv, Next PROVE Kept
    OBVIOUS
  <2>1. CASE ResetPending
    BY <2>1 DEF IInv, SampleInv, ResetPending, HandlerStep, Step
  <2>2. CASE ~ResetPending
    BY <2>2, OnlyResetDrops
  <2> QED BY <2>1, <2>2
<1>2. [][Kept]_vars => NoSignalDropped
  BY PTL DEF NoSignalDropped
<1> QED BY Invariance, <1>1, <1>2, PTL DEF Spec

\* Only GC_startSignalHandler, called at two places, fills savedThread.
LEMMA OnlyStartSaves ==
  ASSUME Next, ~Poll, \A t \in Threads : ~SwitchToSignalHandler(t), savedThread = NoThread
  PROVE  savedThread' = NoThread
<1>1. CASE Runtime \/ LimitCheck \/ NurseryFull \/ AtomicBeginTest \/ AtomicEndTest
  BY <1>1 DEF Runtime, BeginAtomic, SwitchToThread, Ensure, Leave, EndAtomic,
     LimitCheck, NurseryFull, AtomicBeginTest, AtomicEndTest
<1>2. CASE \E t \in Threads : ThreadStep(t)
  BY <1>2 DEF ThreadStep, AtomicBegin, AtomicEnd, AtomicBeginAt, AtomicEndAt, Switch,
     SetHandler, SetHandlerBegin, UpdateSignalsHandled, Sigaction, SetHandlerEnd,
     SetBlocked, Suspend, SuspendBegin
<1>3. CASE HandlerLoop
  BY <1>3 DEF HandlerLoop, TakeSaved, SavedCleared, BlockHandled, SampleGC, SamplePending,
     ResetPending, RestoreMask, RunHandler, FinishSignalHandler, ResumeInterrupted
<1>4. CASE \E s \in Signals : Raise(s) \/ Deliver(s)
  BY <1>4 DEF Raise, Deliver
<1> QED BY <1>1, <1>2, <1>3, <1>4 DEF Next

\* The signal handler never interrupts itself or a critical section.
THEOREM HandlerNeverIntrudes == Spec => HandlerStartsOutside
<1> DEFINE Outside ==
      savedThread' # NoThread /\ savedThread = NoThread =>
        /\ ~amInSignalHandler
        /\ savedThread' \in Threads
        /\ depth = 0 \/ (depth = 1 /\ pc[currentThread] = "woken2")
<1>1. IInv /\ [Next]_vars => [Outside]_vars
  <2> SUFFICES ASSUME IInv, Next PROVE Outside
    OBVIOUS
  <2> USE ThreadsAssumption DEF IInv, TypeOK, RuntimeTypes, ControlTypes, AllThreads, PointInv,
          HandlerInv, Idle, Starting, Working, Resuming
  <2>1. CASE Poll
    BY <2>1 DEF Poll, NonAtomicAndPending, StartSignalHandler, AtomicBalance, RuntimeDepth
  <2>2. ASSUME NEW t \in Threads, SwitchToSignalHandler(t) PROVE Outside
    BY <2>2 DEF SwitchToSignalHandler, Executing, Step
  <2>3. CASE ~Poll /\ \A t \in Threads : ~SwitchToSignalHandler(t)
    BY <2>3, OnlyStartSaves
  <2> QED BY <2>1, <2>2, <2>3
<1>2. [][Outside]_vars => HandlerStartsOutside
  BY PTL DEF HandlerStartsOutside
<1> QED BY Invariance, <1>1, <1>2, PTL DEF Spec

-----------------------------------------------------------------------------
(* The runtime implements SignalPromise.                                   *)

\* The step leaves alone what the promise sees, except for the critical section.
Quiet == UNCHANGED <<signalsPending, handlers, amInSignalHandler, todo>> /\ Collected' = Collected

PromiseStep == [Promise!PromiseNext]_(Promise!pvars)

\* A step that touches neither the recorded signals nor the handler run is no
\* step of the promise, or the program entering or leaving a critical section.
LEMMA QuietStep ==
  ASSUME Quiet
  PROVE  PromiseStep
<1> USE DEF Quiet, PromiseStep, Handled, InUserCritical, Promise!PromiseNext, Promise!Program,
        Promise!pvars
<1>1. CASE amInSignalHandler
  BY <1>1
<1>2. CASE ~amInSignalHandler
  BY <1>2
<1> QED BY <1>1, <1>2

\* The runtime starts the handler outside the program's critical sections.
LEMMA InterruptStep ==
  ASSUME ~amInSignalHandler, ~InUserCritical, amInSignalHandler',
         UNCHANGED <<signalsPending, handlers>>, ~Collected, ~Collected'
  PROVE  PromiseStep
BY DEF PromiseStep, Promise!PromiseNext, Promise!Interrupt, Promise!pvars, Handled,
   InUserCritical

\* The runtime's C code takes no step of the promise but Interrupt.
LEMMA RuntimeKeeps == ASSUME IInv, Runtime PROVE PromiseStep
<1> USE DEF info, kernel, sml, Quiet, Collected
<1>1. CASE Runtime /\ ~(Poll /\ NonAtomicAndPending)
  <2>1. Quiet
    BY <1>1 DEF Runtime, BeginAtomic, SwitchToThread, Poll, Ensure, PerformGC, Leave, EndAtomic
  <2> QED BY <2>1, QuietStep
<1>2. CASE Poll /\ NonAtomicAndPending
  <2>1. ~amInSignalHandler /\ ~InUserCritical /\ ~Collected
    BY <1>2, ThreadsAssumption DEF IInv, TypeOK, RuntimeTypes, ControlTypes, AllThreads,
       PointInv, AtomicBalance, RuntimeDepth, HandlerInv, Idle, Starting, Working, Resuming,
       Poll, NonAtomicAndPending, InUserCritical
  <2>2. amInSignalHandler' /\ UNCHANGED <<signalsPending, handlers, pc>>
    BY <1>2 DEF Poll, StartSignalHandler
  <2> QED BY <2>1, <2>2, InterruptStep
<1> QED BY <1>1, <1>2

\* A limit check and the inlined counter tests take no step of the promise.
LEMMA MutatorKeeps ==
  ASSUME LimitCheck \/ NurseryFull \/ AtomicBeginTest \/ AtomicEndTest
  PROVE  PromiseStep
<1>1. Quiet
  BY DEF LimitCheck, NurseryFull, AtomicBeginTest, AtomicEndTest, info, sml, Quiet, Collected
<1> QED BY <1>1, QuietStep

\* A thread installs handlers, or starts them itself after sigsuspend.
LEMMA ThreadKeeps == ASSUME IInv, NEW t \in Threads, ThreadStep(t) PROVE PromiseStep
<1> USE ThreadsAssumption DEF IInv, TypeOK, ControlTypes, info, sml, Executing, Step, AllThreads
<1>1. Collected' = Collected
  BY DEF ThreadStep, AtomicBegin, AtomicEnd, AtomicBeginAt, AtomicEndAt, Switch,
     SetHandler, SetHandlerBegin, UpdateSignalsHandled, Sigaction, SetHandlerEnd,
     SetBlocked, Suspend, SuspendBegin, SwitchToSignalHandler, Collected
<1>2. CASE \E s \in Signals, k \in Kinds : SetHandler(t, s, k)
  <2>1. PICK s \in Signals, k \in Kinds : SetHandler(t, s, k)
    BY <1>2
  <2>2. ~amInSignalHandler /\ ~Collected
    BY <2>1 DEF SetHandler, HandlerInv, Idle, Starting, Working, Resuming, PointInv, Collected
  <2>3. UNCHANGED <<amInSignalHandler, signalsPending, currentThread, depth>>
    BY <2>1 DEF SetHandler
  <2>4. pc[currentThread] # "woken2" /\ pc'[currentThread'] # "woken2"
    BY <2>1 DEF SetHandler
  <2>5. Handled' \in {Handled \cup {s}, Handled \ {s}}
    BY <2>1, SignalsAssumption DEF SetHandler, Handled, DataTypes, Dispositions
  <2>6. UNCHANGED InUserCritical
    BY <2>3, <2>4 DEF InUserCritical
  <2> QED BY <1>1, <2>2, <2>3, <2>5, <2>6
          DEF PromiseStep, Promise!PromiseNext, Promise!Program, Promise!pvars
<1>3. CASE SwitchToSignalHandler(t)
  <2>1. ~amInSignalHandler /\ ~InUserCritical /\ ~Collected
    BY <1>3 DEF SwitchToSignalHandler, HandlerInv, Idle, Starting, Working, Resuming, PointInv,
       Collected, InUserCritical
  <2>2. amInSignalHandler' /\ UNCHANGED <<signalsPending, handlers>>
    BY <1>3 DEF SwitchToSignalHandler
  <2> QED BY <1>1, <2>1, <2>2, InterruptStep
<1>4. CASE /\ ~SwitchToSignalHandler(t)
           /\ ~ \E s \in Signals, k \in Kinds : SetHandler(t, s, k)
  <2>1. UNCHANGED <<signalsPending, handlers, amInSignalHandler, todo>>
    BY <1>4 DEF ThreadStep, AtomicBegin, AtomicEnd, AtomicBeginAt, AtomicEndAt, Switch,
       SetHandlerBegin, UpdateSignalsHandled, Sigaction, SetHandlerEnd,
       SetBlocked, Suspend, SuspendBegin
  <2> QED BY <1>1, <2>1, QuietStep DEF Quiet
<1> QED BY <1>2, <1>3, <1>4

\* The handler loop collects at its reset and runs each handler once.
LEMMA HandlerLoopKeeps == ASSUME IInv, HandlerLoop PROVE PromiseStep
<1> USE ThreadsAssumption, SignalsAssumption
        DEF IInv, TypeOK, ControlTypes, HandlerPoints, AllThreads, info,
            HandlerStep, Executing, Step, Collected
<1>1. UNCHANGED handlers
  BY DEF HandlerLoop, TakeSaved, BlockHandled, SampleGC, SamplePending, ResetPending,
     RestoreMask, RunHandler, FinishSignalHandler, ResumeInterrupted
<1>2. CASE TakeSaved \/ BlockHandled \/ RestoreMask \/ ResumeInterrupted
  <2>1. Quiet
    BY <1>2, <1>1 DEF TakeSaved, BlockHandled, RestoreMask, ResumeInterrupted, Quiet
  <2> QED BY <2>1, QuietStep
<1>3. CASE SampleGC \/ SamplePending
  <2>1. ~Collected /\ ~Collected' /\ amInSignalHandler /\ amInSignalHandler'
    BY <1>3 DEF SampleGC, SamplePending, HandlerInv, Idle, Starting, Working, Resuming
  <2>2. UNCHANGED signalsPending
    BY <1>3 DEF SampleGC, SamplePending
  <2> QED BY <1>1, <2>1, <2>2 DEF PromiseStep, Promise!pvars, Handled, InUserCritical
<1>4. CASE ResetPending
  <2>1. ~Collected /\ Collected' /\ amInSignalHandler /\ amInSignalHandler'
    BY <1>4 DEF ResetPending, HandlerInv, Idle, Starting, Working, Resuming
  <2>2. todo' \ {GC} = signalsPending \cap Handled /\ signalsPending' = {}
    BY <1>4 DEF ResetPending, SampleInv
  <2> QED BY <1>1, <2>1, <2>2 DEF PromiseStep, Promise!PromiseNext, Promise!Collect,
          Promise!pvars, Handled, InUserCritical
<1>5. ASSUME NEW f \in Signals \cup {GC}, RunHandler(f) PROVE PromiseStep
  <2>1. Collected /\ Collected' /\ amInSignalHandler /\ amInSignalHandler'
    BY <1>5 DEF RunHandler, HandlerInv, Idle, Starting, Working, Resuming
  <2>2. f \in todo /\ todo' = todo \ {f} /\ UNCHANGED signalsPending
    BY <1>5 DEF RunHandler
  <2>3. CASE f = GC
    BY <1>1, <2>1, <2>2, <2>3 DEF PromiseStep, Promise!pvars, Handled, InUserCritical
  <2>4. CASE f \in Signals
    <3>1. (todo \ {GC})' = (todo \ {GC}) \ {f} /\ f \in todo \ {GC}
      BY <2>2, <2>4
    <3> QED BY <1>1, <2>1, <2>2, <2>4, <3>1 DEF PromiseStep, Promise!PromiseNext, Promise!RunOne,
            Promise!pvars, Handled, InUserCritical
  <2> QED BY <2>3, <2>4
<1>6. CASE FinishSignalHandler
  <2>1. Collected /\ ~Collected' /\ amInSignalHandler /\ ~amInSignalHandler'
    BY <1>6 DEF FinishSignalHandler, HandlerInv, Idle, Starting, Working, Resuming
  <2>2. todo = {} /\ UNCHANGED signalsPending
    BY <1>6 DEF FinishSignalHandler, AllHandlersRun
  <2> QED BY <1>1, <2>1, <2>2 DEF PromiseStep, Promise!PromiseNext, Promise!Return,
          Promise!pvars, Handled, InUserCritical
<1> QED BY <1>2, <1>3, <1>4, <1>5, <1>6 DEF HandlerLoop

\* GC_handler is the arrival of a signal.
LEMMA EnvironmentKeeps ==
  ASSUME NEW s \in Signals, Raise(s) \/ Deliver(s)
  PROVE  PromiseStep
<1> USE DEF info, sml, Collected
<1>1. UNCHANGED <<handlers, amInSignalHandler, todo, pc, currentThread, depth>>
  BY DEF Raise, Deliver
<1>2. CASE UNCHANGED signalsPending
  BY <1>1, <1>2, QuietStep DEF Quiet
<1>3. CASE signalsPending' = signalsPending \cup {s}
  BY <1>1, <1>3 DEF PromiseStep, Promise!PromiseNext, Promise!Arrive, Promise!pvars, Handled,
     InUserCritical
<1> QED BY <1>2, <1>3 DEF Raise, Deliver, GC_handler

\* The runtime, the kernel and the signal library together do what
\* MLtonSignal.adoc promises, for any number of signals and threads.
THEOREM ImplementsPromise == Spec => KeepsPromise
<1>1. Init => Promise!PromiseInit
  BY SignalsAssumption DEF Init, Promise!PromiseInit, Handled, Collected, AllThreads, InUserCritical
<1>2. IInv /\ [Next]_vars => [Promise!PromiseNext]_(Promise!pvars)
  <2> SUFFICES ASSUME IInv, [Next]_vars PROVE PromiseStep
    BY DEF PromiseStep
  <2>1. CASE Runtime
    BY <2>1, RuntimeKeeps
  <2>2. CASE LimitCheck \/ NurseryFull \/ AtomicBeginTest \/ AtomicEndTest
    BY <2>2, MutatorKeeps
  <2>3. CASE \E t \in Threads : ThreadStep(t)
    BY <2>3, ThreadKeeps
  <2>4. CASE HandlerLoop
    BY <2>4, HandlerLoopKeeps
  <2>5. CASE \E s \in Signals : Raise(s) \/ Deliver(s)
    BY <2>5, EnvironmentKeeps
  <2>6. CASE UNCHANGED vars
    BY <2>6, QuietStep DEF vars, info, sml, Quiet, Collected
  <2> QED BY <2>1, <2>2, <2>3, <2>4, <2>5, <2>6 DEF Next
<1> QED BY Invariance, <1>1, <1>2, PTL DEF Spec, KeepsPromise, Promise!PromiseSpec

-----------------------------------------------------------------------------
(***************************************************************************)
(* The inductive invariant.                                                *)
(***************************************************************************)
Ids     == SysThreads \cup {Handler}
Base(t) == IF t = Handler THEN 1 ELSE program.depth[t]

\* All calls of a thread but the innermost are in post.
Nested ==
  \A t \in Ids : \A i \in DOMAIN calls[t] : i < Len(calls[t]) => calls[t][i].at = "post"

\* So that the critical sections of a thread can be counted by the calls it is in.
Level(t) ==
  IF calls[t] = <<>> THEN Base(t)
  ELSE IF Sys!InSection(Sys!Last(calls[t])) THEN Len(calls[t]) + Base(t)
  ELSE Len(calls[t]) - 1 + Base(t)

LevelsOk ==
  /\ sAtomicState = Level(current)
  /\ \A t \in SysThreads : t # current => Level(t) = 0
  /\ current # Handler => calls[Handler] = <<>>

\* The i-th call of t is made in a critical section of its thread.
Inside(t, i) == i > 1 \/ Base(t) > 0

\* What holds of every call: errno is still its own; what the mask is put back to; calls
\* repeated with the signals blocked, and those that go on before the handler has run,
\* are inside a critical section; and the handler of a signal just seen is to come.
CallOk(t, i, c) ==
  /\ c.at \in {"read", "decide", "block"} => c.errno = c.reported
  /\ c.at = "failed" => errno = c.reported
  /\ c.at = "f" /\ c.kind.clear => errno = "cleared"
  /\ c.masked \/ c.at = "block" => Inside(t, i)
  /\ c.masked => c.at # "block"
  /\ c.masked => c.mask = (program.blocked \/ \E j \in 1 .. (i - 1) : calls[t][j].masked)
  /\ c.masked /\ c.at \in {"failed", "read", "decide"} => c.reported # "intr"
  /\ c.unseen => IF c.at \in {"failed", "read"} THEN signals.pending ELSE Inside(t, i)

CallsOk == \A t \in Ids : \A i \in DOMAIN calls[t] : CallOk(t, i, calls[t][i])

MaskOk == signals.blocked = (program.blocked \/ Sys!Masked(current))

SysInv == Sys!TypeOK /\ Nested /\ LevelsOk /\ CallsOk /\ MaskOk

-----------------------------------------------------------------------------
(***************************************************************************)
(* Calls and stacks of calls.                                              *)
(***************************************************************************)
\* The call c with other fields at, and errno or reported and unseen or the mask.
LEMMA CallFields ==
  ASSUME NEW c \in Sys!CallStates, NEW p \in Sys!Points, NEW e \in Sys!Errors, NEW b \in BOOLEAN
  PROVE  /\ c.at \in Sys!Points /\ c.errno \in Sys!Errors /\ c.reported \in Sys!Errors
         /\ c.masked \in BOOLEAN /\ c.mask \in BOOLEAN /\ c.unseen \in BOOLEAN
         /\ [c EXCEPT !.at = p] \in Sys!CallStates
         /\ [c EXCEPT !.unseen = b] \in Sys!CallStates
         /\ [c EXCEPT !.at = p, !.errno = e] \in Sys!CallStates
         /\ [c EXCEPT !.at = p, !.reported = e, !.unseen = b] \in Sys!CallStates
         /\ [c EXCEPT !.at = p, !.masked = TRUE, !.mask = b] \in Sys!CallStates
BY DEF Sys!CallStates

LEMMA RemoveLast ==
  ASSUME NEW S, NEW s \in Seq(S), s # <<>>
  PROVE  /\ Sys!Front(s) \in Seq(S) /\ Len(s) \in Nat \ {0} /\ Len(Sys!Front(s)) = Len(s) - 1
         /\ \A i \in 1 .. (Len(s) - 1) : Sys!Front(s)[i] = s[i]
<1>1. Len(s) \in Nat \ {0} /\ \A i \in 1 .. Len(s) : s[i] \in S
  BY EmptySeq, LenProperties
<1>2. \A i \in 1 .. (Len(s) - 1) : s[i] \in S
  BY <1>1
<1>3. /\ SubSeq(s, 1, Len(s) - 1) \in Seq(S)
      /\ Len(SubSeq(s, 1, Len(s) - 1)) = IF 1 <= Len(s) - 1 THEN Len(s) - 1 - 1 + 1 ELSE 0
      /\ \A i \in 1 .. (Len(s) - 1 - 1 + 1) : SubSeq(s, 1, Len(s) - 1)[i] = s[1 + i - 1]
  BY <1>1, <1>2, SubSeqProperties
<1>4. \A i \in 1 .. (Len(s) - 1) : i \in 1 .. (Len(s) - 1 - 1 + 1) /\ 1 + i - 1 = i
  BY <1>1
<1>5. \A i \in 1 .. (Len(s) - 1) : SubSeq(s, 1, Len(s) - 1)[i] = s[i]
  <2> TAKE i \in 1 .. (Len(s) - 1)
  <2>1. SubSeq(s, 1, Len(s) - 1)[i] = s[1 + i - 1] /\ 1 + i - 1 = i
    BY <1>3, <1>4
  <2> QED BY <2>1
<1> DEFINE f == SubSeq(s, 1, Len(s) - 1)
<1>6. f \in Seq(S) /\ Len(f) = IF 1 <= Len(s) - 1 THEN Len(s) - 1 - 1 + 1 ELSE 0
  BY <1>3
<1> HIDE DEF f
<1>7. Len(f) = Len(s) - 1
  BY <1>1, <1>6
<1> QED BY <1>1, <1>5, <1>6, <1>7 DEF Sys!Front, f

LEMMA ReplaceLast ==
  ASSUME NEW S, NEW s \in Seq(S), s # <<>>, NEW c \in S
  PROVE  LET q == Append(Sys!Front(s), c) IN
         /\ q \in Seq(S) /\ q # <<>> /\ Len(q) = Len(s) /\ Sys!Last(q) = c
         /\ \A i \in 1 .. Len(s) : q[i] = IF i = Len(s) THEN c ELSE s[i]
<1> DEFINE f == Sys!Front(s)
           q == Append(f, c)
<1>1. /\ f \in Seq(S) /\ Len(s) \in Nat \ {0} /\ Len(f) = Len(s) - 1
      /\ \A i \in 1 .. (Len(s) - 1) : f[i] = s[i]
  BY RemoveLast
<1> HIDE DEF f
<1>2. /\ q \in Seq(S) /\ q # <<>> /\ Len(q) = Len(f) + 1
      /\ \A i \in 1 .. Len(f) : q[i] = f[i]
      /\ q[Len(f) + 1] = c
  BY <1>1, AppendProperties
<1> HIDE DEF q
<1>3. Len(q) = Len(s) /\ q[Len(s)] = c
  BY <1>1, <1>2
<1>4. \A i \in 1 .. Len(s) : q[i] = IF i = Len(s) THEN c ELSE s[i]
  BY <1>1, <1>2
<1> QED BY <1>2, <1>3, <1>4 DEF q, f, Sys!Last

\* The innermost call of a thread.
LEMMA Innermost ==
  ASSUME Sys!TypeOK, NEW t \in Ids
  PROVE  /\ calls[t] \in Seq(Sys!CallStates) /\ Len(calls[t]) \in Nat
         /\ DOMAIN calls[t] = 1 .. Len(calls[t])
         /\ \A i \in DOMAIN calls[t] : calls[t][i] \in Sys!CallStates
         /\ calls[t] # <<>> => /\ Len(calls[t]) \in DOMAIN calls[t] /\ Len(calls[t]) >= 1
                               /\ Sys!Last(calls[t]) = calls[t][Len(calls[t])]
BY DEF Sys!TypeOK, Ids, Sys!Last

LEMMA BaseType ==
  ASSUME Sys!TypeOK
  PROVE  /\ current \in Ids /\ Handler \in Ids
         /\ \A t \in Ids : Base(t) \in 0 .. 1 /\ Level(t) \in Nat
<1>1. \A t \in Ids : Base(t) \in 0 .. 1
  BY DEF Sys!TypeOK, Base, Ids
<1>2. \A t \in Ids : Level(t) \in Nat
  <2> TAKE t \in Ids
  <2>1. Base(t) \in 0 .. 1 /\ Len(calls[t]) \in Nat /\ (calls[t] # <<>> => Len(calls[t]) >= 1)
    BY <1>1, Innermost
  <2> QED BY <2>1 DEF Level
<1> QED BY <1>1, <1>2 DEF Sys!TypeOK, Ids

LEMMA IntervalSize == \A n \in Nat : Cardinality(1 .. n) = n
<1>1. ASSUME NEW n \in Nat PROVE Cardinality(1 .. n) = n
  <2>1. Cardinality(1 .. n) = IF 1 > n THEN 0 ELSE n - 1 + 1
    BY FS_Interval
  <2> QED BY <2>1
<1> QED BY <1>1

LEMMA SameCardinality == ASSUME NEW S PROVE Sys!Cardinality(S) = Cardinality(S)
BY Zenon DEF Sys!Cardinality, Cardinality

\* Level counts the critical sections.
LEMMA DepthIsLevel ==
  ASSUME Sys!TypeOK, Nested, NEW t \in Ids
  PROVE  Sys!Depth(t) = Level(t)
<1> DEFINE n == Len(calls[t])
           I == {i \in DOMAIN calls[t] : Sys!InSection(calls[t][i])}
<1>1. n \in Nat /\ DOMAIN calls[t] = 1 .. n
  BY Innermost
<1>2. \A i \in 1 .. n : i < n => Sys!InSection(calls[t][i])
  BY <1>1 DEF Nested, Sys!InSection
<1>3. CASE calls[t] = <<>>
  <2>1. DOMAIN calls[t] = {}
    BY <1>3
  <2>2. I = {}
    BY <2>1
  <2>3. Cardinality(I) = 0
    BY <2>2, FS_EmptySet
  <2>4. Base(t) \in 0 .. 1
    BY BaseType
  <2> QED BY <1>3, <2>2, <2>3, <2>4, SameCardinality DEF Sys!Depth, Level, Base
<1>4. CASE calls[t] # <<>> /\ Sys!InSection(Sys!Last(calls[t]))
  <2>1. n >= 1 /\ Sys!InSection(calls[t][n])
    BY <1>4, Innermost DEF Sys!Last
  <2>2. I = 1 .. n
    BY <1>1, <1>2, <2>1
  <2>3. Cardinality(1 .. n) = n
    BY <1>1, IntervalSize
  <2>4. Sys!Depth(t) = n + Base(t)
    BY <2>2, <2>3, SameCardinality DEF Sys!Depth, Base
  <2> QED BY <1>4, <2>4 DEF Level
<1>5. CASE calls[t] # <<>> /\ ~ Sys!InSection(Sys!Last(calls[t]))
  <2>1. n >= 1 /\ ~ Sys!InSection(calls[t][n])
    BY <1>5, Innermost DEF Sys!Last
  <2>2. I = 1 .. (n - 1)
    BY <1>1, <1>2, <2>1
  <2>3. Cardinality(1 .. (n - 1)) = n - 1
    <3>1. n - 1 \in Nat
      BY <1>1, <2>1
    <3> QED BY <3>1, IntervalSize
  <2>4. Sys!Depth(t) = n - 1 + Base(t)
    BY <2>2, <2>3, SameCardinality DEF Sys!Depth, Base
  <2> QED BY <1>5, <2>4 DEF Level
<1> QED BY <1>3, <1>4, <1>5

\* A thread that is at level 0 is in one call at most, outside the critical section of it.
LEMMA LevelZero ==
  ASSUME Sys!TypeOK, NEW t \in Ids, Level(t) = 0
  PROVE  /\ t # Handler /\ Base(t) = 0 /\ Len(calls[t]) <= 1
         /\ \A i \in DOMAIN calls[t] :
              i = 1 /\ i = Len(calls[t]) /\ ~ Inside(t, i) /\ ~ Sys!InSection(calls[t][i])
<1>1. Base(t) \in 0 .. 1 /\ Len(calls[t]) \in Nat /\ DOMAIN calls[t] = 1 .. Len(calls[t])
  BY BaseType, Innermost
<1>2. CASE calls[t] = <<>>
  BY <1>1, <1>2 DEF Level, Base
<1>3. CASE calls[t] # <<>>
  <2>2. Len(calls[t]) >= 1 /\ Sys!Last(calls[t]) = calls[t][Len(calls[t])]
    BY <1>3, Innermost
  <2>3. ~ Sys!InSection(Sys!Last(calls[t]))
    BY <1>1, <1>3, <2>2 DEF Level
  <2>4. Len(calls[t]) - 1 + Base(t) = 0
    BY <1>3, <2>3 DEF Level
  <2>5. \A n \in Nat, b \in 0 .. 1 : n >= 1 /\ n - 1 + b = 0 => n = 1 /\ b = 0
    OBVIOUS
  <2>6. Len(calls[t]) = 1 /\ Base(t) = 0
    BY <1>1, <2>2, <2>4, <2>5
  <2>1. Len(calls[t]) = 1 /\ ~ Sys!InSection(calls[t][1]) /\ Base(t) = 0
    BY <2>2, <2>3, <2>6
  <2> QED BY <1>1, <2>1 DEF Inside, Base
<1> QED BY <1>2, <1>3

\* Only the innermost call of the running thread is between its attempt and the end of
\* its critical section.
LEMMA OthersOutside ==
  ASSUME SysInv, NEW t \in Ids, NEW i \in DOMAIN calls[t],
         t # current \/ i < Len(calls[t])
  PROVE  calls[t][i].at \notin {"f", "failed", "read"}
<1>1. CASE i < Len(calls[t])
  BY <1>1 DEF SysInv, Nested
<1>2. CASE t # current /\ t = Handler
  <2>1. calls[t] = <<>>
    BY <1>2 DEF SysInv, LevelsOk
  <2> QED BY <2>1
<1>3. CASE t # current /\ t # Handler
  <2>1. Level(t) = 0
    BY <1>3 DEF SysInv, LevelsOk, Ids
  <2> QED BY <2>1, LevelZero DEF SysInv, Sys!InSection
<1> QED BY <1>1, <1>2, <1>3

-----------------------------------------------------------------------------
(***************************************************************************)
(* A step that moves the innermost call of the running thread.             *)
(***************************************************************************)
\* What the innermost call may become.
Fits(c) ==
  LET n == Len(calls[current]) IN
  /\ c.at \in {"read", "decide", "block"} => c.errno = c.reported
  /\ c.at = "failed" => errno' = c.reported
  /\ c.at = "f" /\ c.kind.clear => errno' = "cleared"
  /\ c.masked \/ c.at = "block" => Inside(current, n)
  /\ c.masked => c.at # "block"
  /\ c.masked =>
       c.mask = (program.blocked \/ \E j \in 1 .. (n - 1) : calls[current][j].masked)
  /\ c.masked /\ c.at \in {"failed", "read", "decide"} => c.reported # "intr"
  /\ c.unseen => IF c.at \in {"failed", "read"} THEN signals'.pending ELSE Inside(current, n)

One(b) == IF b THEN 1 ELSE 0

LEMMA GotoFacts ==
  ASSUME Sys!TypeOK, NEW c \in Sys!CallStates, calls[current] # <<>>, Sys!Goto(c)
  PROVE  /\ calls' \in [Ids -> Seq(Sys!CallStates)]
         /\ \A t \in Ids : t # current => calls'[t] = calls[t]
         /\ \A t \in Ids : /\ Len(calls'[t]) = Len(calls[t])
                           /\ DOMAIN calls'[t] = DOMAIN calls[t]
                           /\ calls'[t] = <<>> <=> calls[t] = <<>>
         /\ Sys!Last(calls'[current]) = c
         /\ \A i \in DOMAIN calls[current] :
              calls'[current][i] = IF i = Len(calls[current]) THEN c ELSE calls[current][i]
<1> DEFINE s == calls[current]
           q == Append(Sys!Front(s), c)
<1>1. current \in Ids /\ calls \in [Ids -> Seq(Sys!CallStates)] /\ s \in Seq(Sys!CallStates)
  BY DEF Sys!TypeOK, Ids
<1>2. /\ q \in Seq(Sys!CallStates) /\ q # <<>> /\ Len(q) = Len(s) /\ Sys!Last(q) = c
      /\ \A i \in 1 .. Len(s) : q[i] = IF i = Len(s) THEN c ELSE s[i]
  BY <1>1, ReplaceLast
<1>3. calls' = [calls EXCEPT ![current] = q]
  BY DEF Sys!Goto
<1>4. DOMAIN s = 1 .. Len(s) /\ DOMAIN q = 1 .. Len(q)
  BY <1>1, <1>2, LenProperties
<1> HIDE DEF q
<1>5. calls' \in [Ids -> Seq(Sys!CallStates)] /\ calls'[current] = q
  BY <1>1, <1>2, <1>3
<1>6. \A t \in Ids : t # current => calls'[t] = calls[t]
  BY <1>1, <1>3
<1> QED BY <1>1, <1>2, <1>4, <1>5, <1>6

LEMMA GotoStep ==
  ASSUME SysInv, NEW c \in Sys!CallStates, calls[current] # <<>>, Sys!Goto(c),
         current' = current, program' = program, Fits(c)
  PROVE  Nested' /\ CallsOk'
<1> USE DEF SysInv
<1>1. /\ calls' \in [Ids -> Seq(Sys!CallStates)]
      /\ \A t \in Ids : t # current => calls'[t] = calls[t]
      /\ \A t \in Ids : /\ Len(calls'[t]) = Len(calls[t])
                        /\ DOMAIN calls'[t] = DOMAIN calls[t]
      /\ \A i \in DOMAIN calls[current] :
           calls'[current][i] = IF i = Len(calls[current]) THEN c ELSE calls[current][i]
  BY GotoFacts
<1>2. current \in Ids /\ \A t \in Ids : Len(calls[t]) \in Nat /\ DOMAIN calls[t] = 1 .. Len(calls[t])
  BY BaseType, Innermost
<1>3. \A t \in Ids : \A i \in DOMAIN calls[t] :
        t # current \/ i < Len(calls[t]) => calls'[t][i] = calls[t][i]
  BY <1>1, <1>2
<1>4. Nested'
  BY <1>1, <1>3 DEF Nested, Ids
<1>5. ASSUME NEW t \in Ids, NEW i \in DOMAIN calls[t] PROVE CallOk(t, i, calls[t][i])'
  <2>1. Inside(t, i)' <=> Inside(t, i)
    BY DEF Inside, Base
  <2>2. \A j \in 1 .. (i - 1) : calls'[t][j] = calls[t][j]
    BY <1>2, <1>3
  <2>3. CASE t # current \/ i < Len(calls[t])
    <3>1. calls'[t][i] = calls[t][i] /\ CallOk(t, i, calls[t][i])
      BY <1>3, <2>3 DEF CallsOk
    <3>2. calls[t][i].at \notin {"f", "failed", "read"}
      BY <2>3, OthersOutside
    <3> QED BY <2>1, <2>2, <3>1, <3>2 DEF CallOk
  <2>4. CASE t = current /\ i = Len(calls[t])
    <3>1. calls'[t][i] = c
      BY <1>1, <2>4
    <3> QED BY <2>1, <2>2, <2>4, <3>1 DEF CallOk, Fits
  <2> QED BY <1>2, <2>3, <2>4
<1>6. CallsOk'
  BY <1>1, <1>5 DEF CallsOk, Ids
<1> QED BY <1>4, <1>6

LEMMA GotoLevels ==
  ASSUME SysInv, NEW c \in Sys!CallStates, calls[current] # <<>>, Sys!Goto(c),
         current' = current, program' = program,
         sAtomicState' = sAtomicState + (One(Sys!InSection(c)) - One(Sys!InSection(Sys!Call)))
  PROVE  LevelsOk'
<1> USE DEF SysInv
<1>1. /\ \A t \in Ids : t # current => calls'[t] = calls[t]
      /\ Len(calls'[current]) = Len(calls[current]) /\ calls'[current] # <<>>
      /\ Sys!Last(calls'[current]) = c
  BY GotoFacts, BaseType
<1>2. current \in Ids /\ Base(current) \in 0 .. 1 /\ Base(current)' = Base(current)
      /\ Len(calls[current]) \in Nat
  BY BaseType, Innermost DEF Base
<1>3. \A t \in SysThreads : t # current => Level(t)' = 0
  BY <1>1 DEF LevelsOk, Level, Base, Ids
<1>4. current # Handler => calls'[Handler] = <<>>
  BY <1>1 DEF LevelsOk, Ids
<1>5. \A n \in Nat, b \in 0 .. 1 :
        /\ n + b + (0 - 1) = n - 1 + b /\ n - 1 + b + (1 - 0) = n + b
        /\ n + b + (1 - 1) = n + b /\ n - 1 + b + (0 - 0) = n - 1 + b
  OBVIOUS
<1>6. sAtomicState = IF Sys!InSection(Sys!Call) THEN Len(calls[current]) + Base(current)
                    ELSE Len(calls[current]) - 1 + Base(current)
  BY DEF LevelsOk, Level, Sys!Call
<1>7. Level(current)' = IF Sys!InSection(c) THEN Len(calls[current]) + Base(current)
                        ELSE Len(calls[current]) - 1 + Base(current)
  BY <1>1, <1>2 DEF Level
<1>8. sAtomicState' = Level(current)'
  <2>1. CASE Sys!InSection(Sys!Call) /\ Sys!InSection(c)
    BY <1>2, <1>5, <1>6, <1>7, <2>1 DEF One
  <2>2. CASE Sys!InSection(Sys!Call) /\ ~ Sys!InSection(c)
    BY <1>2, <1>5, <1>6, <1>7, <2>2 DEF One
  <2>3. CASE ~ Sys!InSection(Sys!Call) /\ Sys!InSection(c)
    BY <1>2, <1>5, <1>6, <1>7, <2>3 DEF One
  <2>4. CASE ~ Sys!InSection(Sys!Call) /\ ~ Sys!InSection(c)
    BY <1>2, <1>5, <1>6, <1>7, <2>4 DEF One
  <2> QED BY <2>1, <2>2, <2>3, <2>4
<1> QED BY <1>3, <1>4, <1>8 DEF LevelsOk, Ids

LEMMA GotoMask ==
  ASSUME SysInv, NEW c \in Sys!CallStates, calls[current] # <<>>, Sys!Goto(c),
         current' = current, program' = program, signals'.blocked = signals.blocked,
         c.masked = Sys!Call.masked
  PROVE  MaskOk'
<1> USE DEF SysInv
<1>1. current \in Ids /\ Len(calls[current]) \in DOMAIN calls[current]
      /\ Sys!Call = calls[current][Len(calls[current])]
  BY BaseType, Innermost DEF Sys!Call
<1>2. DOMAIN calls'[current] = DOMAIN calls[current]
      /\ \A i \in DOMAIN calls[current] :
           calls'[current][i] = IF i = Len(calls[current]) THEN c ELSE calls[current][i]
  BY <1>1, GotoFacts
<1>3. \A i \in DOMAIN calls[current] : calls'[current][i].masked = calls[current][i].masked
  BY <1>1, <1>2
<1> QED BY <1>2, <1>3 DEF MaskOk, Sys!Masked

-----------------------------------------------------------------------------
(***************************************************************************)
(* The steps of syscallErr.                                                *)
(***************************************************************************)
\* What is known of the innermost call.
LEMMA CallFacts ==
  ASSUME SysInv, NEW p, Sys!At(p)
  PROVE  /\ calls[current] # <<>> /\ Sys!Call \in Sys!CallStates /\ Sys!Call.at = p
         /\ CallOk(current, Len(calls[current]), Sys!Call)
         /\ Len(calls[current]) \in Nat /\ Len(calls[current]) >= 1
         /\ Len(calls[current]) \in DOMAIN calls[current]
         /\ Sys!Call = calls[current][Len(calls[current])]
         /\ DOMAIN calls[current] = 1 .. Len(calls[current])
         /\ current \in Ids /\ Base(current) \in 0 .. 1
         /\ sAtomicState = IF Sys!InSection(Sys!Call) THEN Len(calls[current]) + Base(current)
                          ELSE Len(calls[current]) - 1 + Base(current)
<1>1. current \in Ids /\ Base(current) \in 0 .. 1
  BY BaseType DEF SysInv
<1>2. calls[current] # <<>> /\ Sys!Call.at = p
  BY DEF Sys!At, Sys!Call
<1>3. /\ Len(calls[current]) \in Nat /\ Len(calls[current]) >= 1
      /\ Len(calls[current]) \in DOMAIN calls[current]
      /\ DOMAIN calls[current] = 1 .. Len(calls[current])
      /\ Sys!Call = calls[current][Len(calls[current])] /\ Sys!Call \in Sys!CallStates
  BY <1>1, <1>2, Innermost DEF SysInv, Sys!Call
<1>4. CallOk(current, Len(calls[current]), Sys!Call)
  BY <1>1, <1>3 DEF SysInv, CallsOk
<1>5. sAtomicState = IF Sys!InSection(Sys!Call) THEN Len(calls[current]) + Base(current)
                    ELSE Len(calls[current]) - 1 + Base(current)
  BY <1>2 DEF SysInv, LevelsOk, Level, Sys!Call
<1> QED BY <1>1, <1>2, <1>3, <1>4, <1>5

LEMMA SuccessorNat == \A n \in Nat : n + (1 - 0) \in Nat /\ n + (0 - 0) = n /\ n + (1 - 1) = n
OBVIOUS

LEMMA AttemptInv ==
  ASSUME SysInv, Sys!Attempt
  PROVE  SysInv'
<1> DEFINE c == [Sys!Call EXCEPT !.at = "f"]
<1>1. /\ calls[current] # <<>> /\ Sys!Call \in Sys!CallStates /\ Sys!Call.at = "call"
      /\ CallOk(current, Len(calls[current]), Sys!Call)
  BY CallFacts DEF Sys!Attempt
<1>2. c \in Sys!CallStates /\ Sys!Call.masked \in BOOLEAN
  BY <1>1, CallFields DEF Sys!Points, Sys!Errors
<1>3. c.at = "f" /\ c.kind = Sys!Call.kind /\ c.masked = Sys!Call.masked /\ c.mask = Sys!Call.mask
      /\ c.errno = Sys!Call.errno /\ c.reported = Sys!Call.reported /\ c.unseen = Sys!Call.unseen
  BY <1>1 DEF Sys!CallStates
<1>4. Sys!Goto(c) /\ current' = current /\ program' = program /\ signals' = signals
      /\ sAtomicState' = sAtomicState + 1
      /\ errno' = IF Sys!Call.kind.clear THEN "cleared" ELSE errno
  BY DEF Sys!Attempt
<1> HIDE DEF c
<1>5. Fits(c)
  BY <1>1, <1>3, <1>4 DEF Fits, CallOk
<1>6. sAtomicState' = sAtomicState + (One(Sys!InSection(c)) - One(Sys!InSection(Sys!Call)))
  BY <1>1, <1>3, <1>4 DEF One, Sys!InSection
<1>7. Nested' /\ CallsOk' /\ LevelsOk' /\ MaskOk'
  BY <1>1, <1>2, <1>3, <1>4, <1>5, <1>6, GotoStep, GotoLevels, GotoMask
<1>8. Sys!TypeOK'
  <2>1. calls' \in [Ids -> Seq(Sys!CallStates)]
    BY <1>1, <1>2, <1>4, GotoFacts DEF SysInv
  <2> QED BY <1>4, <2>1 DEF SysInv, Sys!TypeOK, Sys!Attempt, Sys!Errors, Ids
<1> QED BY <1>7, <1>8 DEF SysInv

LEMMA SucceedInv ==
  ASSUME SysInv, Sys!Succeed
  PROVE  SysInv'
<1> DEFINE c == [Sys!Call EXCEPT !.at = "post"]
<1>1. /\ calls[current] # <<>> /\ Sys!Call \in Sys!CallStates /\ Sys!Call.at = "f"
      /\ CallOk(current, Len(calls[current]), Sys!Call)
  BY CallFacts DEF Sys!Succeed
<1>2. c \in Sys!CallStates
  BY <1>1, CallFields DEF Sys!Points, Sys!Errors
<1>3. c.at = "post" /\ c.kind = Sys!Call.kind /\ c.masked = Sys!Call.masked /\ c.mask = Sys!Call.mask
      /\ c.errno = Sys!Call.errno /\ c.reported = Sys!Call.reported /\ c.unseen = Sys!Call.unseen
  BY <1>1 DEF Sys!CallStates
<1>4. Sys!Goto(c) /\ current' = current /\ program' = program /\ signals' = signals
      /\ sAtomicState' = sAtomicState /\ errno' = errno
  BY DEF Sys!Succeed
<1> HIDE DEF c
<1>5. Fits(c)
  BY <1>1, <1>3, <1>4 DEF Fits, CallOk
<1>6. sAtomicState' = sAtomicState + (One(Sys!InSection(c)) - One(Sys!InSection(Sys!Call)))
  <2>1. sAtomicState \in Nat
    BY DEF SysInv, Sys!TypeOK
  <2> QED BY <1>1, <1>3, <1>4, <2>1 DEF One, Sys!InSection
<1>7. Nested' /\ CallsOk' /\ LevelsOk' /\ MaskOk'
  BY <1>1, <1>2, <1>3, <1>4, <1>5, <1>6, GotoStep, GotoLevels, GotoMask
<1>8. Sys!TypeOK'
  <2>1. calls' \in [Ids -> Seq(Sys!CallStates)]
    BY <1>1, <1>2, <1>4, GotoFacts DEF SysInv
  <2> QED BY <1>4, <2>1 DEF SysInv, Sys!TypeOK, Sys!Succeed, Ids
<1> QED BY <1>7, <1>8 DEF SysInv

LEMMA ComeFacts ==
  ASSUME Sys!ConstantsOk, Sys!TypeOK, signals.come < MaxSysSignals
  PROVE  LET S == [blocked : BOOLEAN, waiting : BOOLEAN, pending : BOOLEAN,
                   come : 0 .. MaxSysSignals] IN
         /\ Sys!Come(signals) \in S
         /\ Sys!Come(signals).blocked = signals.blocked
         /\ signals.pending => Sys!Come(signals).pending
         /\ ~ signals.blocked => Sys!Come(signals).pending
<1>1. \A n \in 0 .. MaxSysSignals : n < MaxSysSignals => n + 1 \in 0 .. MaxSysSignals
  BY DEF Sys!ConstantsOk
<1>2. signals \in [blocked : BOOLEAN, waiting : BOOLEAN, pending : BOOLEAN, come : 0 .. MaxSysSignals]
  BY DEF Sys!TypeOK
<1> DEFINE n == signals.come + 1
<1>3. n \in 0 .. MaxSysSignals
  BY <1>1, <1>2
<1>4. Sys!Come(signals) = IF signals.blocked THEN [signals EXCEPT !.waiting = TRUE, !.come = n]
                      ELSE [signals EXCEPT !.pending = TRUE, !.come = n]
  BY DEF Sys!Come
<1> HIDE DEF n
<1> QED BY <1>2, <1>3, <1>4

LEMMA FailInv ==
  ASSUME Sys!ConstantsOk, SysInv, NEW e \in Sys!Errors, Sys!Fail(e)
  PROVE  SysInv'
<1> DEFINE u == e = "intr"
           c == [Sys!Call EXCEPT !.at = "failed", !.reported = e, !.unseen = u]
<1>1. /\ calls[current] # <<>> /\ Sys!Call \in Sys!CallStates /\ Sys!Call.at = "f"
      /\ CallOk(current, Len(calls[current]), Sys!Call)
      /\ Len(calls[current]) \in DOMAIN calls[current]
      /\ Sys!Call = calls[current][Len(calls[current])]
  BY CallFacts DEF Sys!Fail
<1>0. u \in BOOLEAN
  OBVIOUS
<1>2. Sys!Goto(c) /\ current' = current /\ program' = program
      /\ sAtomicState' = sAtomicState
  BY DEF Sys!Fail
<1>3. errno' = (IF e = "cleared" THEN errno ELSE e) /\ (e = "cleared" => Sys!Call.kind.clear)
  BY DEF Sys!Fail
<1> HIDE DEF u
<1>4. c \in Sys!CallStates
  BY <1>0, <1>1, CallFields DEF Sys!Points
<1>5. c.at = "failed" /\ c.kind = Sys!Call.kind /\ c.masked = Sys!Call.masked /\ c.mask = Sys!Call.mask
      /\ c.errno = Sys!Call.errno /\ c.reported = e /\ c.unseen = u
  BY <1>1 DEF Sys!CallStates
<1>6. /\ signals' \in [blocked : BOOLEAN, waiting : BOOLEAN, pending : BOOLEAN,
                       come : 0 .. MaxSysSignals]
      /\ signals'.blocked = signals.blocked
      /\ u => signals'.pending
      /\ u => ~ signals.blocked
  <2>1. CASE u
    BY <2>1, ComeFacts DEF Sys!Fail, u, SysInv
  <2>2. CASE ~ u
    BY <2>2 DEF Sys!Fail, u, SysInv, Sys!TypeOK
  <2> QED BY <2>1, <2>2
<1> HIDE DEF c
<1>7. c.masked => e # "intr"
  <2>1. Sys!Call.masked => Sys!Masked(current)
    BY <1>1 DEF Sys!Masked
  <2> QED BY <1>5, <1>6, <2>1 DEF SysInv, MaskOk, u
<1>8. Fits(c)
  <2>1. errno' = e
    BY <1>1, <1>3 DEF CallOk
  <2> QED BY <1>1, <1>5, <1>6, <1>7, <2>1 DEF Fits, CallOk
<1>9. sAtomicState' = sAtomicState + (One(Sys!InSection(c)) - One(Sys!InSection(Sys!Call)))
  <2>1. sAtomicState \in Nat
    BY DEF SysInv, Sys!TypeOK
  <2> QED BY <1>1, <1>2, <1>5, <2>1 DEF One, Sys!InSection
<1>10. Nested' /\ CallsOk' /\ LevelsOk' /\ MaskOk'
  <2>1. Nested' /\ CallsOk'
    BY <1>1, <1>2, <1>4, <1>8, GotoStep
  <2>2. LevelsOk'
    BY <1>1, <1>2, <1>4, <1>9, GotoLevels
  <2>3. MaskOk'
    BY <1>1, <1>2, <1>4, <1>5, <1>6, GotoMask
  <2> QED BY <2>1, <2>2, <2>3
<1>11. Sys!TypeOK'
  <2>1. calls' \in [Ids -> Seq(Sys!CallStates)]
    BY <1>1, <1>2, <1>4, GotoFacts DEF SysInv
  <2> QED BY <1>2, <1>3, <1>6, <2>1 DEF SysInv, Sys!TypeOK, Sys!Fail, Ids
<1> QED BY <1>10, <1>11 DEF SysInv

LEMMA ReadErrnoInv ==
  ASSUME SysInv, Sys!ReadErrno
  PROVE  SysInv'
<1> DEFINE c == [Sys!Call EXCEPT !.at = "read", !.errno = errno]
<1>1. /\ calls[current] # <<>> /\ Sys!Call \in Sys!CallStates /\ Sys!Call.at = "failed"
      /\ CallOk(current, Len(calls[current]), Sys!Call)
  BY CallFacts DEF Sys!ReadErrno
<1>2. errno \in Sys!Errors /\ sAtomicState \in Nat
  BY DEF SysInv, Sys!TypeOK
<1>3. c \in Sys!CallStates
  BY <1>1, <1>2, CallFields DEF Sys!Points
<1>4. c.at = "read" /\ c.kind = Sys!Call.kind /\ c.masked = Sys!Call.masked /\ c.mask = Sys!Call.mask
      /\ c.errno = errno /\ c.reported = Sys!Call.reported /\ c.unseen = Sys!Call.unseen
  BY <1>1 DEF Sys!CallStates
<1>5. Sys!Goto(c) /\ current' = current /\ program' = program /\ signals' = signals
      /\ sAtomicState' = sAtomicState /\ errno' = errno
  BY DEF Sys!ReadErrno
<1> HIDE DEF c
<1>6. Fits(c)
  BY <1>1, <1>4, <1>5 DEF Fits, CallOk
<1>7. sAtomicState' = sAtomicState + (One(Sys!InSection(c)) - One(Sys!InSection(Sys!Call)))
  BY <1>1, <1>2, <1>4, <1>5 DEF One, Sys!InSection
<1>8. Nested' /\ CallsOk' /\ LevelsOk' /\ MaskOk'
  BY <1>1, <1>3, <1>4, <1>5, <1>6, <1>7, GotoStep, GotoLevels, GotoMask
<1>9. Sys!TypeOK'
  <2>1. calls' \in [Ids -> Seq(Sys!CallStates)]
    BY <1>1, <1>3, <1>5, GotoFacts DEF SysInv
  <2> QED BY <1>5, <2>1 DEF SysInv, Sys!TypeOK, Sys!ReadErrno, Ids
<1> QED BY <1>8, <1>9 DEF SysInv

LEMMA DecideInv ==
  ASSUME SysInv, Sys!Decide
  PROVE  SysInv'
<1> DEFINE p == CASE Sys!Call.errno \in Sys!Call.kind.handles -> "ok"
                  [] Sys!MayRestart /\ Sys!Call.errno \notin Sys!Call.kind.handles ->
                       IF sAtomicState = 0 THEN "call" ELSE "block"
                  [] OTHER -> "exn"
           c == [Sys!Call EXCEPT !.at = p]
           n == Len(calls[current])
<1>1. /\ calls[current] # <<>> /\ Sys!Call \in Sys!CallStates /\ Sys!Call.at = "decide"
      /\ CallOk(current, n, Sys!Call) /\ n \in Nat /\ n >= 1 /\ Base(current) \in 0 .. 1
  BY CallFacts DEF Sys!Decide
<1>2. sAtomicState = n - 1 + Base(current) /\ sAtomicState \in Nat
  <2>1. Sys!At("decide") /\ ~ Sys!InSection(Sys!Call) /\ sAtomicState \in Nat
    BY <1>1 DEF Sys!Decide, Sys!InSection, SysInv, Sys!TypeOK
  <2> QED BY <2>1, CallFacts
<1>3. /\ p \in {"ok", "call", "block", "exn"}
      /\ p = "block" => sAtomicState # 0 /\ ~ Sys!Call.masked
  BY DEF Sys!MayRestart
<1>4. Sys!Goto(c) /\ current' = current /\ program' = program /\ signals' = signals
      /\ sAtomicState' = sAtomicState /\ errno' = errno
  BY DEF Sys!Decide
<1> HIDE DEF p
<1>5. c \in Sys!CallStates
  BY <1>1, <1>3, CallFields DEF Sys!Points, Sys!Errors
<1>6. c.at = p /\ c.kind = Sys!Call.kind /\ c.masked = Sys!Call.masked /\ c.mask = Sys!Call.mask
      /\ c.errno = Sys!Call.errno /\ c.reported = Sys!Call.reported /\ c.unseen = Sys!Call.unseen
  BY <1>1 DEF Sys!CallStates
<1>7. \A k \in Nat, b \in 0 .. 1 : k >= 1 /\ k - 1 + b # 0 => k > 1 \/ b > 0
  OBVIOUS
<1>8. p = "block" => Inside(current, n)
  BY <1>1, <1>2, <1>3, <1>7 DEF Inside
<1> HIDE DEF c
<1>9. Fits(c)
  BY <1>1, <1>3, <1>4, <1>6, <1>8 DEF Fits, CallOk
<1>10. sAtomicState' = sAtomicState + (One(Sys!InSection(c)) - One(Sys!InSection(Sys!Call)))
  BY <1>1, <1>2, <1>3, <1>4, <1>6 DEF One, Sys!InSection
<1>11. Nested' /\ CallsOk' /\ LevelsOk' /\ MaskOk'
  BY <1>1, <1>4, <1>5, <1>6, <1>9, <1>10, GotoStep, GotoLevels, GotoMask
<1>12. Sys!TypeOK'
  <2>1. calls' \in [Ids -> Seq(Sys!CallStates)]
    BY <1>1, <1>4, <1>5, GotoFacts DEF SysInv
  <2> QED BY <1>4, <2>1 DEF SysInv, Sys!TypeOK, Sys!Decide, Ids
<1> QED BY <1>11, <1>12 DEF SysInv

LEMMA SetBlockedFacts ==
  ASSUME Sys!TypeOK, NEW m \in BOOLEAN
  PROVE  /\ Sys!SetBlocked(signals, m) \in [blocked : BOOLEAN, waiting : BOOLEAN,
                                        pending : BOOLEAN, come : 0 .. MaxSysSignals]
         /\ Sys!SetBlocked(signals, m).blocked = m
         /\ signals.pending => Sys!SetBlocked(signals, m).pending
<1>1. signals \in [blocked : BOOLEAN, waiting : BOOLEAN, pending : BOOLEAN, come : 0 .. MaxSysSignals]
  BY DEF Sys!TypeOK
<1> QED BY <1>1 DEF Sys!SetBlocked

\* The mask that Block remembers is the one of the calls around.
LEMMA BlockInv ==
  ASSUME SysInv, Sys!Block
  PROVE  SysInv'
<1> DEFINE b == signals.blocked
           c == [Sys!Call EXCEPT !.at = "call", !.masked = TRUE, !.mask = b]
           n == Len(calls[current])
<1>1. /\ calls[current] # <<>> /\ Sys!Call \in Sys!CallStates /\ Sys!Call.at = "block"
      /\ CallOk(current, n, Sys!Call) /\ n \in DOMAIN calls[current] /\ n \in Nat
      /\ Sys!Call = calls[current][n] /\ DOMAIN calls[current] = 1 .. n /\ current \in Ids
  BY CallFacts DEF Sys!Block
<1>2. b \in BOOLEAN /\ sAtomicState \in Nat
  BY DEF SysInv, Sys!TypeOK
<1>3. /\ signals' \in [blocked : BOOLEAN, waiting : BOOLEAN, pending : BOOLEAN,
                       come : 0 .. MaxSysSignals]
      /\ signals'.blocked = TRUE
      /\ signals.pending => signals'.pending
  BY SetBlockedFacts DEF Sys!Block, SysInv
<1>4. Sys!Goto(c) /\ current' = current /\ program' = program
      /\ sAtomicState' = sAtomicState /\ errno' = errno
  BY DEF Sys!Block
<1>5. b = (program.blocked \/ Sys!Masked(current))
  BY DEF SysInv, MaskOk
<1> HIDE DEF b
<1>6. c \in Sys!CallStates
  BY <1>1, <1>2, CallFields DEF Sys!Points, Sys!Errors
<1>7. c.at = "call" /\ c.kind = Sys!Call.kind /\ c.masked = TRUE /\ c.mask = b
      /\ c.errno = Sys!Call.errno /\ c.reported = Sys!Call.reported /\ c.unseen = Sys!Call.unseen
  BY <1>1 DEF Sys!CallStates
<1> HIDE DEF c
<1>8. Sys!Masked(current) <=> \E j \in 1 .. (n - 1) : calls[current][j].masked
  <2>1. ~ Sys!Call.masked
    BY <1>1 DEF CallOk
  <2>2. \A j \in 1 .. n : j = n \/ j \in 1 .. (n - 1)
    BY <1>1
  <2>3. \A j \in 1 .. (n - 1) : j \in 1 .. n
    BY <1>1
  <2> QED BY <1>1, <2>1, <2>2, <2>3 DEF Sys!Masked
<1>9. c.mask = (program.blocked \/ \E j \in 1 .. (n - 1) : calls[current][j].masked)
  BY <1>5, <1>7, <1>8
<1>10. Fits(c)
  BY <1>1, <1>3, <1>7, <1>9 DEF Fits, CallOk
<1>11. sAtomicState' = sAtomicState + (One(Sys!InSection(c)) - One(Sys!InSection(Sys!Call)))
  BY <1>1, <1>2, <1>4, <1>7 DEF One, Sys!InSection
<1>12. Nested' /\ CallsOk' /\ LevelsOk'
  BY <1>1, <1>4, <1>6, <1>10, <1>11, GotoStep, GotoLevels
<1>13. MaskOk'
  <2>1. DOMAIN calls'[current] = DOMAIN calls[current] /\ calls'[current][n] = c
    BY <1>1, <1>4, <1>6, GotoFacts DEF SysInv
  <2> QED BY <1>1, <1>3, <1>4, <1>7, <2>1 DEF MaskOk, Sys!Masked
<1>14. Sys!TypeOK'
  <2>1. calls' \in [Ids -> Seq(Sys!CallStates)]
    BY <1>1, <1>4, <1>6, GotoFacts DEF SysInv
  <2> QED BY <1>3, <1>4, <2>1 DEF SysInv, Sys!TypeOK, Sys!Block, Ids
<1> QED BY <1>12, <1>13, <1>14 DEF SysInv

LEMMA ReturnInv ==
  ASSUME SysInv, Sys!Return
  PROVE  SysInv'
<1> DEFINE s == calls[current]
           n == Len(s)
           f == Sys!Front(s)
<1>1. /\ s # <<>> /\ Sys!Call \in Sys!CallStates /\ Sys!Call.at \in {"ok", "exn"}
      /\ CallOk(current, n, Sys!Call) /\ n \in Nat /\ n >= 1 /\ Sys!Call = s[n]
      /\ current \in Ids /\ Base(current) \in 0 .. 1
      /\ sAtomicState = n - 1 + Base(current)
  <2>1. CASE Sys!At("ok")
    BY <2>1, CallFacts DEF Sys!InSection
  <2>2. CASE Sys!At("exn")
    BY <2>2, CallFacts DEF Sys!InSection
  <2> QED BY <2>1, <2>2 DEF Sys!Return
<1>2. calls \in [Ids -> Seq(Sys!CallStates)] /\ s \in Seq(Sys!CallStates) /\ DOMAIN s = 1 .. n
  BY <1>1, Innermost DEF SysInv, Sys!TypeOK, Ids
<1>3. /\ f \in Seq(Sys!CallStates) /\ Len(f) = n - 1 /\ DOMAIN f = 1 .. (n - 1)
      /\ \A i \in 1 .. (n - 1) : f[i] = s[i]
  <2>1. /\ f \in Seq(Sys!CallStates) /\ Len(f) = n - 1
        /\ \A i \in 1 .. (n - 1) : f[i] = s[i]
    BY <1>1, <1>2, RemoveLast
  <2> HIDE DEF f
  <2> QED BY <2>1, LenProperties
<1>4. calls' = [calls EXCEPT ![current] = f] /\ current' = current /\ program' = program
      /\ sAtomicState' = sAtomicState /\ errno' = errno
      /\ signals' = IF Sys!Call.masked THEN Sys!SetBlocked(signals, Sys!Call.mask) ELSE signals
  BY DEF Sys!Return
<1> HIDE DEF f
<1>5. /\ calls' \in [Ids -> Seq(Sys!CallStates)] /\ calls'[current] = f
      /\ \A t \in Ids : t # current => calls'[t] = calls[t]
  BY <1>1, <1>2, <1>3, <1>4
<1>6. Sys!Call.masked \in BOOLEAN /\ Sys!Call.mask \in BOOLEAN
  BY <1>1 DEF Sys!CallStates
<1>7. /\ signals' \in [blocked : BOOLEAN, waiting : BOOLEAN, pending : BOOLEAN,
                       come : 0 .. MaxSysSignals]
      /\ signals'.blocked = IF Sys!Call.masked THEN Sys!Call.mask ELSE signals.blocked
      /\ signals.pending => signals'.pending
  <2>1. CASE Sys!Call.masked
    BY <1>4, <1>6, <2>1, SetBlockedFacts DEF SysInv
  <2>2. CASE ~ Sys!Call.masked
    BY <1>4, <2>2 DEF SysInv, Sys!TypeOK
  <2> QED BY <2>1, <2>2
<1>8. \A i \in 1 .. (n - 1) : s[i].at = "post" /\ i \in DOMAIN s /\ i < n
  BY <1>1, <1>2 DEF SysInv, Nested
<1>9. Nested'
  <2>1. \A i \in DOMAIN f : f[i].at = "post"
    BY <1>3, <1>8
  <2>2. \A t \in Ids : t # current => \A i \in DOMAIN calls'[t] :
          i < Len(calls'[t]) => calls'[t][i].at = "post"
    BY <1>5 DEF SysInv, Nested
  <2>3. \A t \in Ids : \A i \in DOMAIN calls'[t] : i < Len(calls'[t]) => calls'[t][i].at = "post"
    BY <1>5, <2>1, <2>2
  <2> QED BY <2>3 DEF Nested, Ids
<1>10. CallsOk'
  <2> SUFFICES ASSUME NEW t \in Ids, NEW i \in DOMAIN calls'[t]
               PROVE  CallOk(t, i, calls[t][i])'
    BY DEF CallsOk, Ids
  <2>1. i \in DOMAIN calls[t] /\ calls'[t][i] = calls[t][i] /\ i \in Nat
        /\ \A j \in 1 .. (i - 1) : calls'[t][j] = calls[t][j]
    <3>1. CASE t = current
      BY <1>1, <1>2, <1>3, <1>5, <3>1
    <3>2. CASE t # current
      BY <1>5, <3>2, Innermost DEF SysInv
    <3> QED BY <3>1, <3>2
  <2>2. CallOk(t, i, calls[t][i])
    BY <2>1 DEF SysInv, CallsOk
  <2>3. Inside(t, i)' <=> Inside(t, i)
    BY <1>4 DEF Inside, Base
  <2> QED BY <1>4, <1>7, <2>1, <2>2, <2>3 DEF CallOk
<1>11. LevelsOk'
  <2>1. \A t \in SysThreads : t # current => Level(t)' = 0
    BY <1>4, <1>5 DEF SysInv, LevelsOk, Level, Base, Ids
  <2>2. current # Handler => calls'[Handler] = <<>>
    BY <1>5 DEF SysInv, LevelsOk, Ids
  <2>3. Base(current)' = Base(current)
    BY <1>4 DEF Base
  <2>4. CASE n = 1
    <3>1. f = <<>>
      BY <1>3, <2>4, EmptySeq
    <3> QED BY <1>1, <1>4, <1>5, <2>1, <2>2, <2>3, <2>4, <3>1 DEF LevelsOk, Level
  <2>5. CASE n > 1
    <3>1. n - 1 \in 1 .. (n - 1)
      BY <1>1, <2>5
    <3>2. f # <<>> /\ Sys!Last(f) = s[n - 1]
      BY <1>3, <2>5, <3>1, EmptySeq DEF Sys!Last
    <3>3. Sys!InSection(Sys!Last(f))
      BY <1>8, <3>1, <3>2 DEF Sys!InSection
    <3>4. Level(current)' = n - 1 + Base(current)
      BY <1>3, <1>4, <1>5, <2>3, <3>2, <3>3 DEF Level
    <3> QED BY <1>1, <1>4, <2>1, <2>2, <3>4 DEF LevelsOk
  <2>6. \A k \in Nat : k >= 1 => k = 1 \/ k > 1
    OBVIOUS
  <2> QED BY <1>1, <2>4, <2>5, <2>6
<1>12. MaskOk'
  <2>1. Sys!Masked(current)' <=> \E j \in 1 .. (n - 1) : s[j].masked
    BY <1>3, <1>4, <1>5 DEF Sys!Masked
  <2>2. Sys!Masked(current) <=> Sys!Call.masked \/ \E j \in 1 .. (n - 1) : s[j].masked
    <3>1. \A j \in 1 .. n : j = n \/ j \in 1 .. (n - 1)
      BY <1>1
    <3>2. n \in 1 .. n /\ \A j \in 1 .. (n - 1) : j \in 1 .. n
      BY <1>1
    <3> QED BY <1>1, <1>2, <3>1, <3>2 DEF Sys!Masked
  <2>3. Sys!Call.masked => Sys!Call.mask = (program.blocked \/ \E j \in 1 .. (n - 1) : s[j].masked)
    BY <1>1 DEF CallOk
  <2>4. signals.blocked = (program.blocked \/ Sys!Masked(current))
    BY DEF SysInv, MaskOk
  <2> QED BY <1>4, <1>7, <2>1, <2>2, <2>3, <2>4 DEF MaskOk
<1>13. Sys!TypeOK'
  BY <1>4, <1>5, <1>7 DEF SysInv, Sys!TypeOK, Sys!Return, Ids
<1> QED BY <1>9, <1>10, <1>11, <1>12, <1>13 DEF SysInv

-----------------------------------------------------------------------------
(***************************************************************************)
(* The end of a critical section, and the start of the signal handler.     *)
(***************************************************************************)
LEMMA SeenFacts ==
  ASSUME Sys!TypeOK, NEW t \in Ids
  PROVE  /\ Sys!Seen[t] \in Seq(Sys!CallStates) /\ Len(Sys!Seen[t]) = Len(calls[t])
         /\ DOMAIN Sys!Seen[t] = DOMAIN calls[t]
         /\ \A i \in DOMAIN calls[t] : Sys!Seen[t][i] = [calls[t][i] EXCEPT !.unseen = FALSE]
<1> DEFINE n == Len(calls[t])
           q == [i \in 1 .. n |-> [calls[t][i] EXCEPT !.unseen = FALSE]]
<1>1. n \in Nat /\ DOMAIN calls[t] = 1 .. n /\ \A i \in 1 .. n : calls[t][i] \in Sys!CallStates
  BY Innermost
<1>2. \A i \in 1 .. n : [calls[t][i] EXCEPT !.unseen = FALSE] \in Sys!CallStates
  <2> TAKE i \in 1 .. n
  <2>1. calls[t][i] \in Sys!CallStates
    BY <1>1
  <2> QED BY <2>1 DEF Sys!CallStates
<1>3. Sys!Seen[t] = q
  BY <1>1 DEF Sys!Seen, Ids
<1>4. q \in [1 .. n -> Sys!CallStates]
  BY <1>2
<1>5. q \in Seq(Sys!CallStates) /\ Len(q) = n
  BY <1>1, <1>4, IsASeq, LenProperties
<1> QED BY <1>1, <1>3, <1>5

\* The signal handler starts: the thread it interrupts is outside critical sections, every
\* call has been seen, and only the innermost call of that thread may have moved.
Starts ==
  /\ current' = Handler /\ sAtomicState' = 1 /\ program' = program /\ errno' = errno
  /\ signals'.blocked = signals.blocked
  /\ calls' \in [Ids -> Seq(Sys!CallStates)]
  /\ \A t \in Ids : /\ DOMAIN calls'[t] = DOMAIN calls[t] /\ Len(calls'[t]) = Len(calls[t])
                    /\ calls'[t] = <<>> <=> calls[t] = <<>>

Same(c, d) ==
  /\ d.at = c.at /\ d.kind = c.kind /\ d.masked = c.masked /\ d.mask = c.mask
  /\ d.errno = c.errno /\ d.reported = c.reported /\ ~ d.unseen

\* The innermost call after its critical section.
Ended(d) ==
  /\ d.at \notin {"f", "failed", "read", "post", "block"} /\ ~ d.masked /\ ~ d.unseen
  /\ d.at = "decide" => d.errno = d.reported

LEMMA StartStep ==
  ASSUME SysInv, Starts, current \in SysThreads, Sys!ConstantsOk,
         Len(calls[current]) <= 1, Base(current) = 0,
         \A t \in Ids : t # current =>
           \A i \in DOMAIN calls[t] : Same(calls[t][i], calls'[t][i]),
         \A i \in DOMAIN calls[current] : Ended(calls'[current][i])
  PROVE  Nested' /\ LevelsOk' /\ CallsOk' /\ MaskOk'
<1> USE DEF SysInv
<1>1. current # Handler /\ calls[Handler] = <<>> /\ calls'[Handler] = <<>> /\ Handler \in Ids
  BY DEF Sys!ConstantsOk, LevelsOk, Starts, Ids
<1>2. \A t \in Ids : Base(t)' = Base(t)
  BY DEF Starts, Base
<1>3. ASSUME NEW t \in SysThreads
      PROVE  /\ t \in Ids /\ t # Handler /\ Len(calls[t]) <= 1 /\ Base(t) = 0
             /\ Len(calls[t]) \in Nat /\ DOMAIN calls[t] = 1 .. Len(calls[t])
             /\ t # current => Level(t) = 0
  <2>1. t \in Ids /\ t # Handler
    BY DEF Ids, Sys!ConstantsOk
  <2>2. Len(calls[t]) \in Nat /\ DOMAIN calls[t] = 1 .. Len(calls[t])
    BY <2>1, Innermost
  <2>3. t # current => Level(t) = 0
    BY DEF LevelsOk
  <2>4. t # current => Len(calls[t]) <= 1 /\ Base(t) = 0
    BY <2>1, <2>3, LevelZero
  <2> QED BY <2>1, <2>2, <2>3, <2>4
<1>4. Nested'
  <2>1. ASSUME NEW t \in Ids, NEW i \in DOMAIN calls'[t], i < Len(calls'[t])
        PROVE  FALSE
    <3>1. CASE t = Handler
      BY <1>1, <2>1, <3>1
    <3>2. CASE t # Handler
      <4>1. t \in SysThreads
        BY <3>2 DEF Ids
      <4>2. i \in 1 .. Len(calls[t]) /\ i < Len(calls[t]) /\ Len(calls[t]) \in Nat
            /\ Len(calls[t]) <= 1
        BY <1>3, <2>1, <4>1 DEF Starts
      <4> QED BY <4>2
    <3> QED BY <3>1, <3>2
  <2> QED BY <2>1 DEF Nested, Ids
<1>5. LevelsOk'
  <2>1. Level(Handler)' = 1
    BY <1>1 DEF Level, Base
  <2>2. ASSUME NEW t \in SysThreads PROVE Level(t)' = 0
    <3>1. CASE calls[t] = <<>>
      BY <1>2, <1>3, <3>1 DEF Level, Starts
    <3>2. CASE calls[t] # <<>>
      <4>0. Len(calls[t]) >= 1
        BY <1>3, <3>2, Innermost
      <4>5. \A n \in Nat : n >= 1 /\ n <= 1 => n = 1 /\ 1 \in 1 .. n
        OBVIOUS
      <4>1. Len(calls[t]) >= 1 /\ Len(calls[t]) = 1 /\ 1 \in DOMAIN calls[t]
        BY <1>3, <4>0, <4>5
      <4>2. calls'[t] # <<>> /\ Len(calls'[t]) = 1 /\ Sys!Last(calls'[t]) = calls'[t][1]
        BY <1>3, <3>2, <4>1 DEF Starts, Sys!Last
      <4>3. ~ Sys!InSection(calls'[t][1])
        <5>1. CASE t = current
          BY <4>1, <5>1 DEF Ended, Sys!InSection
        <5>2. CASE t # current
          <6>1. ~ Sys!InSection(calls[t][1])
            BY <1>3, <4>1, <5>2, LevelZero
          <6> QED BY <1>3, <4>1, <5>2, <6>1 DEF Same, Sys!InSection
        <5> QED BY <5>1, <5>2
      <4>4. Level(t)' = 1 - 1 + Base(t)
        BY <1>2, <1>3, <4>2, <4>3 DEF Level
      <4> QED BY <1>3, <4>4
    <3> QED BY <3>1, <3>2
  <2> QED BY <2>1, <2>2 DEF LevelsOk, Starts
<1>6. CallsOk'
  <2>1. ASSUME NEW t \in Ids, NEW i \in DOMAIN calls'[t] PROVE CallOk(t, i, calls[t][i])'
    <3>1. t # Handler /\ t \in SysThreads /\ i \in DOMAIN calls[t]
      BY <1>1, <2>1 DEF Ids, Starts
    <3>2. CASE t = current
      <4>1. Ended(calls'[t][i])
        BY <3>1, <3>2
      <4> QED BY <4>1 DEF Ended, CallOk
    <3>3. CASE t # current
      <4>1. Same(calls[t][i], calls'[t][i]) /\ CallOk(t, i, calls[t][i])
        BY <1>3, <3>1, <3>3 DEF CallsOk
      <4>2. ~ Inside(t, i) /\ ~ Sys!InSection(calls[t][i])
        BY <1>3, <3>1, <3>3, LevelZero
      <4> QED BY <4>1, <4>2 DEF Same, CallOk, Sys!InSection
    <3> QED BY <3>2, <3>3
  <2> QED BY <2>1 DEF CallsOk, Ids
<1>7. MaskOk'
  <2>1. ~ Sys!Masked(current)
    <3>1. ASSUME NEW i \in DOMAIN calls[current], calls[current][i].masked PROVE FALSE
      <4>1. Inside(current, i)
        BY <3>1, BaseType DEF CallsOk, CallOk
      <4>2. i \in 1 .. Len(calls[current]) /\ Len(calls[current]) \in Nat
        BY <1>3, <3>1
      <4>3. ~ (i > 1)
        BY <4>2
      <4> QED BY <4>1, <4>3 DEF Inside
    <3> QED BY <3>1 DEF Sys!Masked
  <2>2. ~ Sys!Masked(Handler)'
    BY <1>1 DEF Sys!Masked
  <2> QED BY <2>1, <2>2 DEF MaskOk, Starts
<1> QED BY <1>4, <1>5, <1>6, <1>7

\* The innermost call leaves its critical section with c.
LEMMA EndAtomicInv ==
  ASSUME Sys!ConstantsOk, SysInv, NEW c \in Sys!CallStates, NEW p, Sys!At(p),
         Sys!EndAtomic(c), UNCHANGED <<errno, restartFlag, begun, program>>,
         p \in {"f", "read", "post"}, c.at \in {"decide", "ok", "exn"},
         c.at = "decide" => p = "read",
         c.errno = Sys!Call.errno, c.reported = Sys!Call.reported, c.masked = Sys!Call.masked,
         c.mask = Sys!Call.mask, c.unseen = Sys!Call.unseen
  PROVE  SysInv'
<1> DEFINE n == Len(calls[current])
<1>1. /\ calls[current] # <<>> /\ Sys!Call \in Sys!CallStates /\ Sys!Call.at = p
      /\ CallOk(current, n, Sys!Call) /\ n \in Nat /\ n >= 1 /\ Sys!Call = calls[current][n]
      /\ DOMAIN calls[current] = 1 .. n /\ current \in Ids /\ Base(current) \in 0 .. 1
  BY CallFacts
<1>2. Sys!InSection(Sys!Call) /\ ~ Sys!InSection(c)
  BY <1>1 DEF Sys!InSection
<1>3. sAtomicState = n + Base(current)
  BY <1>2, CallFacts
<1>4. \A k \in Nat, b \in 0 .. 1 : k >= 1 => IF k + b = 1 THEN k = 1 /\ b = 0 ELSE k > 1 \/ b > 0
  OBVIOUS
<1>5. c.at = "decide" => c.errno = c.reported
  BY <1>1 DEF CallOk
<1>6. CASE sAtomicState = 1 /\ signals.pending
  <2> DEFINE d == [c EXCEPT !.unseen = FALSE]
             s == Sys!Seen[current]
             q == Append(Sys!Front(s), d)
  <2>1. /\ sInterrupted' = current /\ current' = Handler /\ sAtomicState' = 1
        /\ signals' = [signals EXCEPT !.pending = FALSE]
        /\ calls' = [Sys!Seen EXCEPT ![current] = q]
    BY <1>6 DEF Sys!EndAtomic
  <2>2. d \in Sys!CallStates /\ ~ d.unseen /\ d.at = c.at /\ d.masked = c.masked
        /\ d.errno = c.errno /\ d.reported = c.reported
    BY DEF Sys!CallStates
  <2>3. n = 1 /\ Base(current) = 0 /\ current \in SysThreads
    <3>1. n = 1 /\ Base(current) = 0
      BY <1>1, <1>3, <1>4, <1>6
    <3> QED BY <1>1, <3>1 DEF Base, Ids
  <2>4. \A t \in Ids : /\ Sys!Seen[t] \in Seq(Sys!CallStates) /\ Len(Sys!Seen[t]) = Len(calls[t])
                       /\ DOMAIN Sys!Seen[t] = DOMAIN calls[t]
                       /\ \A i \in DOMAIN calls[t] :
                            Sys!Seen[t][i] = [calls[t][i] EXCEPT !.unseen = FALSE]
    BY SeenFacts DEF SysInv
  <2>5. s \in Seq(Sys!CallStates) /\ Len(s) = n /\ s # <<>>
    BY <1>1, <2>4, EmptySeq
  <2> HIDE DEF d
  <2>6. /\ q \in Seq(Sys!CallStates) /\ q # <<>> /\ Len(q) = Len(s)
        /\ \A i \in 1 .. Len(s) : q[i] = IF i = Len(s) THEN d ELSE s[i]
    BY <2>2, <2>5, ReplaceLast
  <2>7. DOMAIN q = 1 .. n
    BY <2>5, <2>6, LenProperties
  <2> HIDE DEF q, s
  <2>8. /\ calls' \in [Ids -> Seq(Sys!CallStates)] /\ calls'[current] = q
        /\ \A t \in Ids : t # current => calls'[t] = Sys!Seen[t]
    <3>1. Sys!Seen \in [Ids -> Seq(Sys!CallStates)]
      BY <2>4 DEF Sys!Seen, Ids
    <3> HIDE DEF Sys!Seen
    <3> QED BY <1>1, <2>1, <2>6, <3>1
  <2>9. Starts
    <3>1. signals'.blocked = signals.blocked
      BY <2>1 DEF SysInv, Sys!TypeOK
    <3>2. ASSUME NEW t \in Ids
          PROVE  /\ DOMAIN calls'[t] = DOMAIN calls[t] /\ Len(calls'[t]) = Len(calls[t])
                 /\ calls'[t] = <<>> <=> calls[t] = <<>>
      <4>1. CASE t = current
        BY <1>1, <2>5, <2>6, <2>7, <2>8, <4>1
      <4>2. CASE t # current
        <5>1. calls'[t] \in Seq(Sys!CallStates) /\ calls[t] \in Seq(Sys!CallStates)
              /\ Len(calls'[t]) = Len(calls[t]) /\ DOMAIN calls'[t] = DOMAIN calls[t]
          BY <2>4, <2>8, <4>2, Innermost DEF SysInv
        <5> QED BY <5>1, EmptySeq
      <4> QED BY <4>1, <4>2
    <3> QED BY <2>1, <2>8, <3>1, <3>2 DEF Starts
  <2>10. ~ c.masked
    BY <1>1, <2>3 DEF CallOk, Inside
  <2>11. \A i \in DOMAIN calls[current] : Ended(calls'[current][i])
    <3>1. \A i \in DOMAIN calls[current] : calls'[current][i] = d
      BY <1>1, <2>3, <2>5, <2>6, <2>8
    <3>2. Ended(d)
      BY <1>5, <2>2, <2>10 DEF Ended
    <3> QED BY <3>1, <3>2
  <2>12. \A t \in Ids : t # current =>
           \A i \in DOMAIN calls[t] : Same(calls[t][i], calls'[t][i])
    <3> TAKE t \in Ids
    <3> HAVE t # current
    <3> TAKE i \in DOMAIN calls[t]
    <3>1. calls[t][i] \in Sys!CallStates
      BY Innermost DEF SysInv
    <3>2. calls'[t][i] = [calls[t][i] EXCEPT !.unseen = FALSE]
      BY <2>4, <2>8
    <3> QED BY <3>1, <3>2 DEF Same, Sys!CallStates
  <2>13. Nested' /\ LevelsOk' /\ CallsOk' /\ MaskOk'
    BY <2>3, <2>9, <2>11, <2>12, StartStep
  <2>14. Sys!TypeOK'
    BY <1>1, <2>1, <2>8 DEF SysInv, Sys!TypeOK, Ids
  <2> QED BY <2>13, <2>14 DEF SysInv
<1>7. CASE ~ (sAtomicState = 1 /\ signals.pending)
  <2>1. /\ sAtomicState' = sAtomicState - 1 /\ Sys!Goto(c)
        /\ current' = current /\ sInterrupted' = sInterrupted /\ signals' = signals
    BY <1>7 DEF Sys!EndAtomic
  <2>2. c.unseen => Inside(current, n)
    <3>1. CASE p = "read"
      BY <1>1, <1>3, <1>4, <1>7, <3>1 DEF CallOk, Inside
    <3>2. CASE p # "read"
      BY <1>1, <3>2 DEF CallOk
    <3> QED BY <3>1, <3>2
  <2>3. c.masked /\ c.at = "decide" => c.reported # "intr"
    BY <1>1 DEF CallOk
  <2>4. Fits(c)
    BY <1>1, <1>5, <2>2, <2>3 DEF Fits, CallOk
  <2>5. sAtomicState \in Nat /\ sAtomicState' \in Nat
        /\ sAtomicState' = sAtomicState + (One(Sys!InSection(c)) - One(Sys!InSection(Sys!Call)))
    <3>1. \A k \in Nat, b \in 0 .. 1 : k >= 1 => k + b - 1 \in Nat /\ k + b - 1 = k + b + (0 - 1)
      OBVIOUS
    <3> QED BY <1>1, <1>2, <1>3, <2>1, <3>1 DEF One, SysInv, Sys!TypeOK
  <2>6. Nested' /\ CallsOk' /\ LevelsOk' /\ MaskOk'
    BY <1>1, <2>1, <2>4, <2>5, GotoStep, GotoLevels, GotoMask
  <2>7. Sys!TypeOK'
    <3>1. calls' \in [Ids -> Seq(Sys!CallStates)]
      BY <1>1, <2>1, GotoFacts DEF SysInv
    <3> QED BY <2>1, <2>5, <3>1 DEF SysInv, Sys!TypeOK, Ids
  <2> QED BY <2>6, <2>7 DEF SysInv
<1> QED BY <1>6, <1>7

LEMMA EndsInv ==
  ASSUME Sys!ConstantsOk, SysInv, NEW p, NEW q, Sys!At(p), Sys!EndAtomic([Sys!Call EXCEPT !.at = q]),
         UNCHANGED <<errno, restartFlag, begun, program>>,
         p \in {"f", "read", "post"}, q \in {"decide", "ok", "exn"}, q = "decide" => p = "read"
  PROVE  SysInv'
<1> DEFINE c == [Sys!Call EXCEPT !.at = q]
<1>1. Sys!Call \in Sys!CallStates
  BY CallFacts
<1>2. c \in Sys!CallStates
  BY <1>1, CallFields DEF Sys!Points, Sys!Errors
<1>3. c.at = q /\ c.errno = Sys!Call.errno /\ c.reported = Sys!Call.reported
      /\ c.masked = Sys!Call.masked /\ c.mask = Sys!Call.mask /\ c.unseen = Sys!Call.unseen
  BY <1>1 DEF Sys!CallStates
<1>4. Sys!EndAtomic(c)
  OBVIOUS
<1> HIDE DEF c
<1> QED BY <1>2, <1>3, <1>4, EndAtomicInv

LEMMA LimitCheckInv ==
  ASSUME Sys!ConstantsOk, SysInv, Sys!LimitCheck
  PROVE  SysInv'
<1>1. current \in Ids /\ Level(current) = 0 /\ Base(current) \in 0 .. 1
  BY BaseType DEF Sys!LimitCheck, SysInv, LevelsOk
<1>2. /\ current # Handler /\ Base(current) = 0 /\ Len(calls[current]) <= 1
      /\ \A i \in DOMAIN calls[current] :
           ~ Inside(current, i) /\ ~ Sys!InSection(calls[current][i])
  BY <1>1, LevelZero DEF SysInv
<1>3. current \in SysThreads
  BY <1>1, <1>2 DEF Ids
<1>4. /\ sInterrupted' = current /\ current' = Handler /\ sAtomicState' = 1
      /\ signals' = [signals EXCEPT !.pending = FALSE] /\ calls' = Sys!Seen
      /\ UNCHANGED <<errno, restartFlag, begun, program>>
  BY DEF Sys!LimitCheck
<1>5. \A t \in Ids : /\ Sys!Seen[t] \in Seq(Sys!CallStates) /\ Len(Sys!Seen[t]) = Len(calls[t])
                     /\ DOMAIN Sys!Seen[t] = DOMAIN calls[t]
                     /\ \A i \in DOMAIN calls[t] :
                          Sys!Seen[t][i] = [calls[t][i] EXCEPT !.unseen = FALSE]
  BY SeenFacts DEF SysInv
<1>6. calls' \in [Ids -> Seq(Sys!CallStates)]
  BY <1>4, <1>5 DEF Sys!Seen, Ids
<1>7. Starts
  <2>1. signals'.blocked = signals.blocked
    BY <1>4 DEF SysInv, Sys!TypeOK
  <2>2. ASSUME NEW t \in Ids
        PROVE  /\ DOMAIN calls'[t] = DOMAIN calls[t] /\ Len(calls'[t]) = Len(calls[t])
               /\ calls'[t] = <<>> <=> calls[t] = <<>>
    <3>1. calls'[t] \in Seq(Sys!CallStates) /\ calls[t] \in Seq(Sys!CallStates)
          /\ Len(calls'[t]) = Len(calls[t]) /\ DOMAIN calls'[t] = DOMAIN calls[t]
      BY <1>4, <1>5, Innermost DEF SysInv
    <3> QED BY <3>1, EmptySeq
  <2> QED BY <1>4, <1>6, <2>1, <2>2 DEF Starts
<1>8. \A t \in Ids : \A i \in DOMAIN calls[t] : Same(calls[t][i], calls'[t][i])
  <2> TAKE t \in Ids
  <2> TAKE i \in DOMAIN calls[t]
  <2>1. calls[t][i] \in Sys!CallStates
    BY Innermost DEF SysInv
  <2>2. calls'[t][i] = [calls[t][i] EXCEPT !.unseen = FALSE]
    BY <1>4, <1>5
  <2> QED BY <2>1, <2>2 DEF Same, Sys!CallStates
<1>9. \A i \in DOMAIN calls[current] : Ended(calls'[current][i])
  <2> TAKE i \in DOMAIN calls[current]
  <2>1. CallOk(current, i, calls[current][i]) /\ ~ Inside(current, i)
        /\ ~ Sys!InSection(calls[current][i])
    BY <1>1, <1>2 DEF SysInv, CallsOk
  <2> QED BY <1>1, <1>8, <2>1 DEF Same, Ended, CallOk, Sys!InSection
<1>10. Nested' /\ LevelsOk' /\ CallsOk' /\ MaskOk'
  BY <1>2, <1>3, <1>7, <1>8, <1>9, StartStep
<1>11. Sys!TypeOK'
  BY <1>1, <1>4, <1>6 DEF SysInv, Sys!TypeOK, Ids
<1> QED BY <1>10, <1>11 DEF SysInv

-----------------------------------------------------------------------------
(***************************************************************************)
(* The steps of the program.                                               *)
(***************************************************************************)
\* A thread that does not run has no call with the signals blocked.
LEMMA OthersNotMasked ==
  ASSUME SysInv, NEW t \in Ids, t # current \/ Level(t) = 0
  PROVE  \A i \in DOMAIN calls[t] : ~ calls[t][i].masked
<1>1. CASE t = Handler /\ t # current
  BY <1>1 DEF SysInv, LevelsOk
<1>2. CASE t # Handler \/ t = current
  <2>1. Level(t) = 0
    BY <1>2 DEF SysInv, LevelsOk, Ids
  <2> QED BY <2>1, LevelZero DEF SysInv, CallsOk, CallOk
<1> QED BY <1>1, <1>2

LEMMA ProgramStep ==
  ASSUME SysInv, calls' = calls, calls[current] = <<>>, errno' = errno,
         \A t \in Ids : t # current => Base(t)' = Base(t),
         signals.pending => signals'.pending
  PROVE  Nested' /\ CallsOk'
<1>1. Nested'
  BY DEF SysInv, Nested, Ids
<1>2. ASSUME NEW t \in Ids, NEW i \in DOMAIN calls'[t] PROVE CallOk(t, i, calls[t][i])'
  <2>1. t # current /\ i \in DOMAIN calls[t] /\ CallOk(t, i, calls[t][i])
    BY <1>2 DEF SysInv, CallsOk
  <2>2. Inside(t, i)' <=> Inside(t, i)
    BY <2>1 DEF Inside
  <2>3. ~ calls[t][i].masked
    BY <2>1, OthersNotMasked
  <2> QED BY <2>1, <2>2, <2>3 DEF CallOk
<1> QED BY <1>1, <1>2 DEF CallsOk, Ids

LEMMA OwnSectionInv ==
  ASSUME Sys!ConstantsOk, SysInv, Sys!EnterCritical \/ Sys!LeaveCritical
  PROVE  SysInv'
<1>1. /\ calls' = calls /\ calls[current] = <<>> /\ errno' = errno /\ current' = current
      /\ signals' = signals /\ current # Handler
  BY DEF Sys!EnterCritical, Sys!LeaveCritical
<1>2. PICK d \in 0 .. 1 :
        /\ program.depth[current] = 1 - d /\ program' = [program EXCEPT !.depth[current] = d]
        /\ sAtomicState' = IF d = 1 THEN sAtomicState + 1 ELSE sAtomicState - 1
  <2>1. CASE Sys!EnterCritical
    <3>1. 1 \in 0 .. 1 /\ 1 - 1 = 0
      OBVIOUS
    <3> QED BY <2>1, <3>1 DEF Sys!EnterCritical
  <2>2. CASE Sys!LeaveCritical
    <3>1. 0 \in 0 .. 1 /\ 1 - 0 = 1 /\ 0 # 1
      OBVIOUS
    <3> QED BY <2>2, <3>1 DEF Sys!LeaveCritical
  <2> QED BY <2>1, <2>2
<1>3. /\ current \in SysThreads /\ program \in [depth : [SysThreads -> 0 .. 1], blocked : BOOLEAN]
  BY <1>1 DEF SysInv, Sys!TypeOK
<1>4. /\ program' \in [depth : [SysThreads -> 0 .. 1], blocked : BOOLEAN]
      /\ program'.blocked = program.blocked /\ program'.depth[current] = d
      /\ \A t \in SysThreads : t # current => program'.depth[t] = program.depth[t]
  <2> DEFINE y == [program.depth EXCEPT ![current] = d]
  <2>1. /\ y \in [SysThreads -> 0 .. 1] /\ y[current] = d
        /\ \A t \in SysThreads : t # current => y[t] = program.depth[t]
        /\ program' = [program EXCEPT !.depth = y]
    BY <1>2, <1>3
  <2> HIDE DEF y
  <2> QED BY <1>3, <2>1
<1>5. \A t \in Ids : t # current => Base(t)' = Base(t)
  BY <1>4 DEF Base, Ids
<1>6. Nested' /\ CallsOk'
  BY <1>1, <1>5, ProgramStep
<1>7. sAtomicState = 1 - d /\ Level(current)' = d
  BY <1>1, <1>2, <1>3, <1>4 DEF SysInv, LevelsOk, Level, Base
<1>8. sAtomicState' = d
  <2>1. \A k \in 0 .. 1 : (IF k = 1 THEN 1 - k + 1 ELSE 1 - k - 1) = k
    OBVIOUS
  <2> QED BY <1>2, <1>7, <2>1
<1>9. LevelsOk'
  <2>1. \A t \in SysThreads : t # current => Level(t)' = Level(t)
    BY <1>1, <1>5 DEF Level, Ids
  <2> QED BY <1>1, <1>7, <1>8, <2>1 DEF SysInv, LevelsOk
<1>10. MaskOk'
  BY <1>1, <1>4 DEF SysInv, MaskOk, Sys!Masked
<1>11. Sys!TypeOK'
  BY <1>1, <1>4, <1>8 DEF SysInv, Sys!TypeOK, Sys!EnterCritical, Sys!LeaveCritical
<1> QED BY <1>6, <1>9, <1>10, <1>11 DEF SysInv

LEMMA SetMaskInv ==
  ASSUME SysInv, Sys!SetMask
  PROVE  SysInv'
<1>1. /\ calls' = calls /\ calls[current] = <<>> /\ errno' = errno /\ current' = current
      /\ program' = [program EXCEPT !.blocked = ~@] /\ sAtomicState' = sAtomicState
      /\ signals' = Sys!SetBlocked(signals, ~ signals.blocked)
  BY DEF Sys!SetMask
<1>2. program \in [depth : [SysThreads -> 0 .. 1], blocked : BOOLEAN] /\ signals.blocked \in BOOLEAN
  BY DEF SysInv, Sys!TypeOK
<1>3. /\ program' \in [depth : [SysThreads -> 0 .. 1], blocked : BOOLEAN]
      /\ program'.depth = program.depth /\ program'.blocked = ~ program.blocked
  BY <1>1, <1>2
<1>4. /\ signals' \in [blocked : BOOLEAN, waiting : BOOLEAN, pending : BOOLEAN,
                       come : 0 .. MaxSysSignals]
      /\ signals'.blocked = ~ signals.blocked
      /\ signals.pending => signals'.pending
  <2>1. (~ signals.blocked) \in BOOLEAN
    BY <1>2
  <2> QED BY <1>1, <2>1, SetBlockedFacts DEF SysInv
<1>5. \A t \in Ids : Base(t)' = Base(t)
  BY <1>3 DEF Base
<1>6. Nested' /\ CallsOk'
  BY <1>1, <1>4, <1>5, ProgramStep
<1>7. LevelsOk'
  <2>1. \A t \in Ids : Level(t)' = Level(t)
    BY <1>1, <1>5 DEF Level
  <2> QED BY <1>1, <2>1, BaseType DEF SysInv, LevelsOk, Ids
<1>8. MaskOk'
  BY <1>1, <1>3, <1>4 DEF SysInv, MaskOk, Sys!Masked
<1>9. Sys!TypeOK'
  BY <1>1, <1>3, <1>4 DEF SysInv, Sys!TypeOK, Sys!SetMask
<1> QED BY <1>6, <1>7, <1>8, <1>9 DEF SysInv

LEMMA HandlerEndsInv ==
  ASSUME Sys!ConstantsOk, SysInv, NEW t \in SysThreads, Sys!HandlerEnds(t)
  PROVE  SysInv'
<1>1. /\ current = Handler /\ calls[Handler] = <<>> /\ current' = t /\ sAtomicState' = 0
      /\ sInterrupted' = Handler
      /\ UNCHANGED <<errno, signals, restartFlag, calls, begun, program>>
  BY DEF Sys!HandlerEnds
<1>2. t \in Ids /\ t # Handler /\ \A u \in SysThreads : Level(u) = 0 /\ u # Handler
  BY <1>1 DEF Ids, Sys!ConstantsOk, SysInv, LevelsOk
<1>3. \A u \in Ids : Level(u)' = Level(u) /\ Base(u)' = Base(u)
  BY <1>1 DEF Level, Base
<1>4. LevelsOk'
  BY <1>1, <1>2, <1>3 DEF LevelsOk, Ids
<1>5. Nested' /\ CallsOk'
  BY <1>1, <1>3 DEF SysInv, Nested, CallsOk, CallOk, Inside, Ids
<1>6. MaskOk'
  <2>1. ~ Sys!Masked(Handler) /\ ~ Sys!Masked(t)
    BY <1>1, <1>2, OthersNotMasked DEF Sys!Masked
  <2> QED BY <1>1, <2>1 DEF SysInv, MaskOk, Sys!Masked
<1>7. Sys!TypeOK'
  BY <1>1 DEF SysInv, Sys!TypeOK
<1> QED BY <1>4, <1>5, <1>6, <1>7 DEF SysInv

LEMMA QuietInv ==
  ASSUME Sys!ConstantsOk, SysInv, Sys!Signal \/ Sys!SetRestart \/ UNCHANGED Sys!vars
  PROVE  SysInv'
<1>1. UNCHANGED <<current, sInterrupted, sAtomicState, errno, calls, begun, program>>
  BY DEF Sys!Signal, Sys!SetRestart, Sys!vars
<1>2. /\ signals' \in [blocked : BOOLEAN, waiting : BOOLEAN, pending : BOOLEAN,
                       come : 0 .. MaxSysSignals]
      /\ signals'.blocked = signals.blocked
      /\ signals.pending => signals'.pending
  <2>1. CASE Sys!Signal
    BY <2>1, ComeFacts DEF Sys!Signal, SysInv
  <2>2. CASE Sys!SetRestart \/ UNCHANGED Sys!vars
    BY <2>2 DEF Sys!SetRestart, Sys!vars, SysInv, Sys!TypeOK
  <2> QED BY <2>1, <2>2
<1>3. restartFlag' \in BOOLEAN
  BY DEF Sys!Signal, Sys!SetRestart, Sys!vars, SysInv, Sys!TypeOK
<1>4. \A u \in Ids : Level(u)' = Level(u) /\ Base(u)' = Base(u)
  BY <1>1 DEF Level, Base
<1>5. Nested' /\ CallsOk'
  BY <1>1, <1>2, <1>4 DEF SysInv, Nested, CallsOk, CallOk, Inside, Ids
<1>6. LevelsOk'
  BY <1>1, <1>4, BaseType DEF SysInv, LevelsOk, Ids
<1>7. MaskOk'
  BY <1>1, <1>2 DEF SysInv, MaskOk, Sys!Masked
<1>8. Sys!TypeOK'
  BY <1>1, <1>2, <1>3 DEF SysInv, Sys!TypeOK
<1> QED BY <1>5, <1>6, <1>7, <1>8 DEF SysInv

LEMMA BeginInv ==
  ASSUME Sys!ConstantsOk, SysInv, NEW kind \in Sys!CallKinds, Sys!Begin(kind)
  PROVE  SysInv'
<1> DEFINE s == calls[current]
           n == Len(s)
           c == [kind |-> kind, at |-> "call", masked |-> FALSE, mask |-> FALSE,
                 errno |-> "cleared", reported |-> "cleared", unseen |-> FALSE]
           q == Append(s, c)
<1>1. current \in Ids /\ Base(current) \in 0 .. 1
  BY BaseType DEF SysInv
<1>2. calls \in [Ids -> Seq(Sys!CallStates)] /\ s \in Seq(Sys!CallStates) /\ n \in Nat
      /\ DOMAIN s = 1 .. n
  BY <1>1, Innermost DEF SysInv, Sys!TypeOK, Ids
<1>3. /\ c \in Sys!CallStates /\ c.at = "call" /\ ~ c.masked /\ ~ c.unseen
  BY DEF Sys!CallStates, Sys!Points, Sys!Errors
<1>4. /\ calls' = [calls EXCEPT ![current] = q] /\ begun < MaxSysCalls /\ begun' = begun + 1
      /\ UNCHANGED <<current, sInterrupted, sAtomicState, errno, signals, restartFlag, program>>
  BY DEF Sys!Begin
<1> HIDE DEF c
<1>5. /\ q \in Seq(Sys!CallStates) /\ q # <<>> /\ Len(q) = n + 1 /\ q[n + 1] = c
      /\ \A i \in 1 .. n : q[i] = s[i]
  BY <1>2, <1>3, AppendProperties
<1> HIDE DEF q
<1>6. DOMAIN q = 1 .. (n + 1) /\ Sys!Last(q) = c
  BY <1>5, LenProperties DEF Sys!Last
<1>7. /\ calls' \in [Ids -> Seq(Sys!CallStates)] /\ calls'[current] = q
      /\ \A t \in Ids : t # current => calls'[t] = calls[t]
  BY <1>1, <1>2, <1>4, <1>5
<1>8. \A k \in 1 .. (n + 1) : k = n + 1 \/ k \in 1 .. n
  BY <1>2
<1>9. \A t \in Ids : Base(t)' = Base(t)
  BY <1>4 DEF Base
<1>10. \A i \in 1 .. n : s[i].at = "post"
  <2>1. CASE s = <<>>
    <3>1. n = 0
      BY <2>1
    <3> QED BY <3>1
  <2>2. CASE Sys!At("post")
    <3>1. s[n].at = "post"
      BY <2>2, CallFacts
    <3>2. \A i \in 1 .. n : i = n \/ i < n
      BY <1>2
    <3> QED BY <1>1, <1>2, <3>1, <3>2 DEF SysInv, Nested
  <2> QED BY <2>1, <2>2 DEF Sys!Begin, Sys!UserCode
<1>11. Nested'
  <2>1. ASSUME NEW t \in Ids, NEW i \in DOMAIN calls'[t], i < Len(calls'[t])
        PROVE  calls'[t][i].at = "post"
    <3>1. CASE t = current
      <4>1. i \in 1 .. n
        BY <1>2, <1>5, <1>6, <1>7, <2>1, <3>1
      <4> QED BY <1>5, <1>7, <1>10, <3>1, <4>1
    <3>2. CASE t # current
      BY <1>7, <2>1, <3>2 DEF SysInv, Nested
    <3> QED BY <3>1, <3>2
  <2> QED BY <2>1 DEF Nested, Ids
<1>12. CallsOk'
  <2>1. ASSUME NEW t \in Ids, NEW i \in DOMAIN calls'[t] PROVE CallOk(t, i, calls[t][i])'
    <3>1. Inside(t, i)' <=> Inside(t, i)
      BY <1>9 DEF Inside
    <3>2. CASE t = current /\ i = n + 1
      <4>1. calls'[t][i] = c
        BY <1>5, <1>7, <3>2
      <4> QED BY <1>3, <4>1 DEF CallOk
    <3>3. CASE ~ (t = current /\ i = n + 1)
      <4>1. i \in DOMAIN calls[t] /\ calls'[t][i] = calls[t][i]
            /\ \A j \in 1 .. (i - 1) : calls'[t][j] = calls[t][j]
        <5>1. CASE t = current
          <6>1. i \in 1 .. n
            BY <1>6, <1>7, <1>8, <2>1, <3>3, <5>1
          <6>2. \A j \in 1 .. (i - 1) : j \in 1 .. n
            BY <1>2, <6>1
          <6> QED BY <1>2, <1>5, <1>7, <5>1, <6>1, <6>2
        <5>2. CASE t # current
          BY <1>7, <2>1, <5>2
        <5> QED BY <5>1, <5>2
      <4>2. CallOk(t, i, calls[t][i])
        BY <4>1 DEF SysInv, CallsOk
      <4> QED BY <1>4, <3>1, <4>1, <4>2 DEF CallOk
    <3> QED BY <3>2, <3>3
  <2> QED BY <2>1 DEF CallsOk, Ids
<1>13. LevelsOk'
  <2>1. Level(current) = n + Base(current)
    <3>1. CASE s = <<>>
      <4>1. n = 0
        BY <3>1
      <4> QED BY <1>1, <3>1, <4>1 DEF Level
    <3>2. CASE Sys!At("post")
      <4>1. s # <<>> /\ Sys!InSection(Sys!Last(s))
        BY <3>2 DEF Sys!At, Sys!InSection
      <4> QED BY <4>1 DEF Level
    <3> QED BY <3>1, <3>2 DEF Sys!Begin, Sys!UserCode
  <2>2. Level(current)' = n + 1 - 1 + Base(current)
    BY <1>3, <1>4, <1>5, <1>6, <1>7, <1>9, <1>1 DEF Level, Sys!InSection
  <2>3. Level(current)' = Level(current)
    BY <1>1, <1>2, <2>1, <2>2
  <2>4. \A t \in Ids : t # current => Level(t)' = Level(t)
    BY <1>7, <1>9 DEF Level
  <2>5. current # Handler => calls'[Handler] = <<>>
    BY <1>7 DEF SysInv, LevelsOk, Ids
  <2> QED BY <1>4, <2>3, <2>4, <2>5 DEF SysInv, LevelsOk, Ids
<1>14. MaskOk'
  <2>1. Sys!Masked(current)' <=> Sys!Masked(current)
    <3>1. n + 1 \in 1 .. (n + 1) /\ \A k \in 1 .. n : k \in 1 .. (n + 1)
      BY <1>2
    <3> QED BY <1>2, <1>3, <1>4, <1>5, <1>6, <1>7, <1>8, <3>1 DEF Sys!Masked
  <2> QED BY <1>4, <2>1 DEF SysInv, MaskOk
<1>15. Sys!TypeOK'
  <2>1. begun' \in 0 .. MaxSysCalls
    <3>1. \A k \in 0 .. MaxSysCalls : k < MaxSysCalls => k + 1 \in 0 .. MaxSysCalls
      BY DEF Sys!ConstantsOk
    <3> QED BY <1>4, <3>1 DEF SysInv, Sys!TypeOK
  <2> QED BY <1>4, <1>7, <2>1 DEF SysInv, Sys!TypeOK, Ids
<1> QED BY <1>11, <1>12, <1>13, <1>14, <1>15 DEF SysInv

-----------------------------------------------------------------------------
(***************************************************************************)
(* The theorem.                                                            *)
(***************************************************************************)
LEMMA SysInitInv ==
  ASSUME Sys!ConstantsOk, Sys!Init
  PROVE  SysInv
<1> USE DEF Sys!Init
<1>1. \A t \in Ids : calls[t] = <<>>
  BY DEF Ids
<1>2. Level(current) = 0 /\ \A t \in SysThreads : Level(t) = 0
  BY <1>1 DEF Level, Base, Ids, Sys!ConstantsOk
<1>3. Sys!TypeOK
  <2>1. calls \in [SysThreads \cup {Handler} -> Seq(Sys!CallStates)]
    BY EmptySeq
  <2>2. signals \in [blocked : BOOLEAN, waiting : BOOLEAN, pending : BOOLEAN,
                     come : 0 .. MaxSysSignals]
    BY DEF Sys!ConstantsOk
  <2>3. program \in [depth : [SysThreads -> 0 .. 1], blocked : BOOLEAN]
    OBVIOUS
  <2> QED BY <2>1, <2>2, <2>3 DEF Sys!TypeOK, Sys!Errors, Sys!ConstantsOk
<1>4. Nested /\ CallsOk
  BY <1>1 DEF Nested, CallsOk
<1>5. LevelsOk
  BY <1>1, <1>2 DEF LevelsOk, Ids
<1>6. MaskOk
  <2>1. ~ Sys!Masked(current)
    BY <1>1 DEF Sys!Masked, Ids
  <2>2. signals.blocked = FALSE /\ program.blocked = FALSE
    OBVIOUS
  <2> QED BY <2>1, <2>2 DEF MaskOk
<1> QED BY <1>3, <1>4, <1>5, <1>6 DEF SysInv

LEMMA SysStepInv ==
  ASSUME Sys!ConstantsOk, SysInv, [Sys!Next]_(Sys!vars)
  PROVE  SysInv'
<1>1. CASE Sys!Library
  <2>1. CASE Sys!RaiseF
    BY <2>1, EndsInv DEF Sys!RaiseF
  <2>2. CASE Sys!EndCall
    BY <2>2, EndsInv DEF Sys!EndCall
  <2>3. ASSUME NEW outcome \in {"ok", "exn"}, Sys!Post(outcome) PROVE SysInv'
    BY <2>3, EndsInv DEF Sys!Post
  <2> QED BY <1>1, <2>1, <2>2, <2>3, AttemptInv, SucceedInv, FailInv, ReadErrnoInv, DecideInv,
             BlockInv, ReturnInv DEF Sys!Library
<1>2. CASE Sys!Program
  BY <1>2, BeginInv, HandlerEndsInv, OwnSectionInv, SetMaskInv, QuietInv, LimitCheckInv
     DEF Sys!Program
<1>3. CASE Sys!Signal \/ UNCHANGED Sys!vars
  BY <1>3, QuietInv
<1> QED BY <1>1, <1>2, <1>3 DEF Sys!Next

LEMMA SysInvImpliesOk ==
  ASSUME Sys!ConstantsOk, SysInv
  PROVE  Sys!SysCallsOk
<1> USE DEF SysInv
<1>1. DOMAIN calls = Ids /\ current \in Ids
  BY DEF Sys!TypeOK, Ids
<1>2. Sys!ErrnoIsOwn /\ Sys!MaskedIsNotInterrupted
  BY <1>1 DEF Sys!ErrnoIsOwn, Sys!MaskedIsNotInterrupted, CallsOk, CallOk
<1>3. Sys!DepthBalanced
  BY <1>1, DepthIsLevel DEF Sys!DepthBalanced, LevelsOk, Ids
<1>4. Sys!MaskRestored
  <2>1. ASSUME NEW t \in Ids, Sys!Masked(t) PROVE t = current /\ sAtomicState > 0
    <3>1. t = current /\ Level(t) # 0
      BY <2>1, OthersNotMasked DEF Sys!Masked
    <3> QED BY <3>1, BaseType DEF LevelsOk
  <2> QED BY <1>1, <2>1 DEF Sys!MaskRestored, MaskOk
<1>5. Sys!HandlerRunsFirst
  <2> SUFFICES ASSUME Sys!At("decide"), sAtomicState = 0, Sys!Call.unseen PROVE FALSE
    BY DEF Sys!HandlerRunsFirst
  <2>1. /\ Len(calls[current]) \in DOMAIN calls[current]
        /\ Sys!Call = calls[current][Len(calls[current])] /\ Sys!Call.at = "decide"
        /\ CallOk(current, Len(calls[current]), Sys!Call)
    BY CallFacts
  <2>2. ~ Inside(current, Len(calls[current]))
    BY <1>1, <2>1, LevelZero DEF LevelsOk
  <2> QED BY <2>1, <2>2 DEF CallOk
<1> QED BY <1>2, <1>3, <1>4, <1>5 DEF Sys!SysCallsOk

(***************************************************************************)
(* SysCall.syscallErr for any number of threads, calls and signals: what a *)
(* call decides on is its own error, the depth of critical sections and    *)
(* the mask are put back by every path, a call repeated with the signals   *)
(* blocked is not interrupted again, and outside critical sections the     *)
(* handler of the interrupting signal runs first.                          *)
(***************************************************************************)
THEOREM SystemCallsOk ==
  ASSUME Sys!ConstantsOk
  PROVE  Sys!Spec => []Sys!SysCallsOk
<1>1. Sys!Init => SysInv
  BY SysInitInv
<1>2. SysInv /\ [Sys!Next]_(Sys!vars) => SysInv'
  BY SysStepInv
<1>3. SysInv => Sys!SysCallsOk
  BY SysInvImpliesOk
<1> QED BY <1>1, <1>2, <1>3, PTL DEF Sys!Spec

-----------------------------------------------------------------------------
(***************************************************************************)
(* What is proved of CallsFromC, of SysCall and of Finalizable holds of    *)
(* them beside the delivery of signals, for any constants.                 *)
(***************************************************************************)
\* Each part takes its own steps or rests.
LEMMA PartsMoveAlone ==
  ASSUME [MCNext]_<<part, vars, callVars, sysVars, finVars>>
  PROVE  /\ [Next]_vars /\ [Calls!Next]_(Calls!vars) /\ [Sys!Next]_(Sys!vars)
         /\ [Fin!Next]_(Fin!vars) /\ UNCHANGED part
<1>1. UNCHANGED callVars => UNCHANGED Calls!vars
  BY DEF callVars, Calls!vars
<1>2. UNCHANGED sysVars => UNCHANGED Sys!vars
  BY DEF sysVars, Sys!vars
<1>3. UNCHANGED finVars => UNCHANGED Fin!vars
  BY DEF finVars, Fin!vars
<1> QED BY <1>1, <1>2, <1>3 DEF MCNext, Stopped

\* So that a behaviour of the whole is one of each part.
LEMMA PartsImplement == MCSpec => Spec /\ Calls!Spec /\ Sys!Spec /\ Fin!Spec
<1>1. MCInit => Init /\ Calls!Init /\ Sys!Init /\ Fin!Init
  BY DEF MCInit
<1>2. [MCNext]_<<part, vars, callVars, sysVars, finVars>> =>
        /\ [Next]_vars /\ [Calls!Next]_(Calls!vars) /\ [Sys!Next]_(Sys!vars)
        /\ [Fin!Next]_(Fin!vars)
  BY PartsMoveAlone
<1> QED BY <1>1, <1>2, PTL DEF MCSpec, Spec, Calls!Spec, Sys!Spec, Fin!Spec

\* Threads and calls from C: savedThread is never overwritten, a thread is held in one place,
\* critical sections are as deep as thread.sml says, switches are exclusive and a pending
\* signal arms the limit, beside the other users of the runtime.
THEOREM ThreadsStayOk == MCSpec => []ThreadsOk
<1>1. Calls!Spec => []Calls!ThreadsOk
  BY CallsThreads, Calls!ThreadsAndCallsOk
<1>2. Calls!ThreadsOk => ThreadsOk
  BY DEF ThreadsOk
<1> QED BY <1>1, <1>2, PartsImplement, PTL

\* MLton_callFromC returns to its caller, at the depth of critical sections it had.
THEOREM CallsStayOk == MCSpec => CallsReturn
<1>1. Calls!Spec => Calls!CallsReturn
  BY CallsThreads, Calls!CallsReturnToCaller
<1>2. Calls!CallsReturn <=> CallsReturn
  BY DEF CallsReturn
<1> QED BY <1>1, <1>2, PartsImplement, PTL

\* System calls leave errno, the signal mask and critical sections as they found them.
THEOREM SystemCallsStayOk == MCSpec => []SysCallsOk
<1>1. Sys!Spec => []Sys!SysCallsOk
  BY SysConstants, SystemCallsOk
<1>2. Sys!SysCallsOk => SysCallsOk
  BY DEF SysCallsOk
<1> QED BY <1>1, <1>2, PartsImplement, PTL

\* Finalizers run once, for what nobody needs and for all of that: no finalizer makes a
\* finalizable value in MCSignalDelivery.
THEOREM FinalizersStayOk == MCSpec => []FinalizersOk
<1>1. Fin!Spec => []Fin!FinalizersOk
  BY FinConstants, Fin!Finalizers
<1>2. Fin!FinalizersOk => FinalizersOk
  BY DEF FinalizersOk
<1> QED BY <1>1, <1>2, PartsImplement, PTL

\* The finalizers of a value begin after those of all that are to be finalized before it.
THEOREM FinalizersStayInOrder == MCSpec => FinalizeInOrder
<1>1. Fin!Spec => Fin!FinalizeInOrder
  BY FinConstants, Fin!FinalizedInOrder
<1>2. Fin!FinalizeInOrder <=> FinalizeInOrder
  BY DEF FinalizeInOrder
<1> QED BY <1>1, <1>2, PartsImplement, PTL
=============================================================================
