----------------------------- MODULE CallsFromC ------------------------------
(***************************************************************************)
(* Threads as MLton.Thread keeps them (basis-library/mlton/thread.sml) and *)
(* calls of exported functions from C (include/c-main.h), which run in     *)
(* worker threads of the same library, beside the signal handler thread.   *)
(* All of them share atomicState and the one slot savedThread.             *)
(*                                                                         *)
(* SignalDelivery cuts the runtime where GC_handler matters; here each     *)
(* entry into the runtime is one function on struct GC_state, and signals  *)
(* are only whether one is pending.  The C code of MLton_callFromC is cut  *)
(* wherever GC_handler may come between two of its statements.             *)
(***************************************************************************)
EXTENDS Integers, Sequences, FiniteSets

CONSTANTS Threads,        \* threads of the program
          Workers,        \* threads mkWorker can make
          SignalHandler, CallFromCHandler,  \* the two handler threads
          NoThread,       \* BOGUS_OBJPTR, and NONE
          MaxCalls        \* bound on the nesting of calls from C

\* What the constants have to be.
ThreadsDistinct ==
  /\ Threads # {} /\ Threads \cap Workers = {}
  /\ SignalHandler # CallFromCHandler
  /\ {SignalHandler, CallFromCHandler} \cap (Threads \cup Workers) = {}
  /\ NoThread \notin Threads \cup Workers \cup {SignalHandler, CallFromCHandler}
  /\ MaxCalls \in Nat

VARIABLES
  gc,         \* the fields of struct GC_state; fault: one of its assertions failed
  rt,         \* "ml" while SML code runs, else a point of MLton_callFromC
  frames,     \* the calls of MLton_callFromC on the C stack; with what each has
              \* found when it began (history)
  pc,         \* where each thread stands in the code of the library
  value,      \* the 'a thread that the ref of each thread's t holds
  switching,  \* somebody is in the function given to atomicSwitch
  worker,     \* the idle worker, or NoThread
  savedRef    \* the thread each worker's call has to return to

vars == <<gc, rt, frames, pc, value, switching, worker, savedRef>>

Users  == Threads \cup Workers \cup {SignalHandler}  \* threads that run user code
All    == Users \cup {CallFromCHandler}
Values == {"Dead", "New", "Paused", "Interrupted"}

\* Points: "run" is user code, "f" user code called by atomicSwitch; a thread at "start"
\* has been switched to and is about to leave the critical section of the switch; "none"
\* is a worker that has not been made.
Points == {"run", "f", "start", "none", "loop", "take"}

-----------------------------------------------------------------------------
(* The runtime's part, on struct GC_state.  A variant WrongX of X has one  *)
(* plausible mistake.                                                      *)

Checked(g, condition) == [g EXCEPT !.fault = @ \/ ~condition]

SetSaved(g, t) == [Checked(g, g.savedThread = NoThread) EXCEPT !.savedThread = t]
TakeSaved(g) == [Checked(g, g.savedThread # NoThread) EXCEPT !.savedThread = NoThread]

BeginAtomic(g) == [g EXCEPT !.atomicState = @ + 1, !.limit = "heap"]

EndAtomic(g) ==
  LET ended == [g EXCEPT !.atomicState = @ - 1]
  IN IF ended.atomicState = 0 /\ ended.signalIsPending
     THEN [ended EXCEPT !.limit = "zero"] ELSE ended

\* switchToSignalHandlerThreadIfNonAtomicAndSignalPending.
Poll(g) ==
  IF g.atomicState = 1 /\ g.signalIsPending
  THEN [SetSaved(g, g.currentThread) EXCEPT
          !.signalIsPending = FALSE, !.amInSignalHandler = TRUE,
          !.atomicState = 2, !.currentThread = SignalHandler]
  ELSE g

Collect(g) == EndAtomic(Poll(BeginAtomic(g)))

SwitchToThread(g, t) ==
  EndAtomic(Poll([BeginAtomic(g) EXCEPT !.currentThread = t, !.atomicState = @ - 1]))

\* The inlined Thread_atomicBegin and Thread_atomicEnd, whose outermost call enters
\* the runtime for a signal.
AtomicBegin(g) ==
  [g EXCEPT !.atomicState = @ + 1, !.limit = IF g.signalIsPending THEN "heap" ELSE @]

AtomicEnd(g) ==
  LET ended == [g EXCEPT !.atomicState = @ - 1]
  IN IF ended.atomicState = 0 /\ ended.signalIsPending THEN Collect(ended) ELSE ended

\* GC_copyThread: the slot has to be free, for the copy's original is kept there.
CopyThread(g) == Checked(g, g.savedThread = NoThread)

-----------------------------------------------------------------------------
Init ==
  /\ \E t \in Threads :
       /\ gc = [currentThread |-> t, savedThread |-> NoThread, atomicState |-> 0,
                limit |-> "heap", signalIsPending |-> FALSE, amInSignalHandler |-> FALSE,
                fault |-> FALSE]
       /\ value = [x \in Users |-> IF x \in Threads \ {t} THEN "New" ELSE "Dead"]
       /\ pc = [x \in All |-> CASE x = t -> "run"
                                [] x \in Threads \ {t} -> "start"
                                [] x \in Workers -> "none"
                                [] x = SignalHandler -> "loop"
                                [] x = CallFromCHandler -> "take"]
  /\ rt = "ml" /\ frames = <<>> /\ switching = FALSE
  /\ worker = NoThread /\ savedRef = [w \in Workers |-> NoThread]

At(t, point) == rt = "ml" /\ gc.currentThread = t /\ pc[t] = point
Goto(t, point) == pc' = [pc EXCEPT ![t] = point]
InUserCode(t) == At(t, "run") \/ At(t, "f")

\* A new thread begins: "val () = func := NONE; val () = atomicEnd ()".
Begin(t) ==
  /\ At(t, "start") /\ Goto(t, "run")
  /\ gc' = AtomicEnd(gc)
  /\ UNCHANGED <<rt, frames, value, switching, worker, savedRef>>

\* GC_handler, between any two steps.
GC_handler ==
  /\ rt # "died"
  /\ gc' = [gc EXCEPT !.signalIsPending = TRUE,
                      !.limit = IF gc.atomicState = 0 THEN "zero" ELSE @]
  /\ UNCHANGED <<rt, frames, pc, value, switching, worker, savedRef>>

\* A limit check of SML code.
LimitCheck ==
  /\ rt = "ml" /\ gc.limit = "zero"
  /\ gc' = Collect(gc)
  /\ UNCHANGED <<rt, frames, pc, value, switching, worker, savedRef>>

-----------------------------------------------------------------------------
(* MLton.Thread.                                                           *)

\* The program switches outside critical sections, as it is not in a handler function.
MaySwitch(t) == InUserCode(t) /\ t # SignalHandler /\ gc.atomicState = 0

\* switch; atomicSwitch f, up to the call of f, to which it gives the paused thread.
Switch(t) ==
  /\ MaySwitch(t) /\ ~switching /\ Goto(t, "f")
  /\ switching' = TRUE
  /\ value' = [value EXCEPT ![t] = "Paused"]
  /\ gc' = AtomicBegin(gc)
  /\ UNCHANGED <<rt, frames, worker, savedRef>>

\* Another switch while f runs, also by somebody f has called through C: "raise Fail".
NestedSwitch(t) ==
  /\ InUserCode(t) /\ switching
  /\ gc' = AtomicEnd(AtomicBegin(gc))
  /\ UNCHANGED <<rt, frames, pc, value, switching, worker, savedRef>>

\* A faulty variant of SwitchFails: The thread keeps its paused self.
WrongSwitchFails(t) ==
  /\ At(t, "f") /\ Goto(t, "run")
  /\ value' = value
  /\ switching' = FALSE
  /\ gc' = AtomicEnd(gc)
  /\ UNCHANGED <<rt, frames, worker, savedRef>>

\* fail e: f raises an exception, or returns a dead thread.
SwitchFails(t) ==
  /\ At(t, "f") /\ Goto(t, "run")
  /\ value' = [value EXCEPT ![t] = "Dead"]
  /\ switching' = FALSE
  /\ gc' = AtomicEnd(gc)
  /\ UNCHANGED <<rt, frames, worker, savedRef>>

\* What atomicSwitch does with a thread u that can run: mark it dead and resume it, which
\* copies the base thread and needs one more critical section if u has never run.
SwitchTo(g, u) ==
  /\ value[u] # "Dead"
  /\ value' = [value EXCEPT ![u] = "Dead"]
  /\ gc' = SwitchToThread(IF value[u] = "New" THEN CopyThread(AtomicBegin(g)) ELSE g, u)
  /\ switching' = FALSE

\* f returns u; it may be t itself.
AtomicSwitch(t, u) ==
  /\ At(t, "f") /\ Goto(t, "run")
  /\ SwitchTo(gc, u)
  /\ UNCHANGED <<rt, frames, worker, savedRef>>

\* The loop of the signal handler: it gives the saved thread to the handler functions,
TakeInterrupted ==
  /\ At(SignalHandler, "loop") /\ Goto(SignalHandler, "run")
  /\ gc' = TakeSaved(gc)
  /\ value' = [value EXCEPT ![gc.savedThread] = "Interrupted"]
  /\ UNCHANGED <<rt, frames, switching, worker, savedRef>>

\* and switches to the one they return, that thread or another.
FinishSignalHandler(u) ==
  /\ At(SignalHandler, "run") /\ Goto(SignalHandler, "loop")
  /\ SwitchTo([Checked(gc, gc.atomicState = 1 /\ ~switching) EXCEPT
                 !.amInSignalHandler = FALSE], u)
  /\ UNCHANGED <<rt, frames, worker, savedRef>>

-----------------------------------------------------------------------------
(* MLton_callFromC, and the threads that serve it.                         *)

\* User code calls a C function that calls an exported one.
CallFromC(t) ==
  /\ InUserCode(t) /\ Len(frames) < MaxCalls
  /\ frames' = Append(frames, [caller |-> t, depth |-> gc.atomicState, worker |-> NoThread])
  /\ gc' = [SetSaved(gc, t) EXCEPT !.atomicState = @ + 3]
  /\ rt' = "called"
  /\ UNCHANGED <<pc, value, switching, worker, savedRef>>

EnterML ==
  /\ rt = "called" /\ rt' = "ml"
  /\ gc' = SwitchToThread([gc EXCEPT !.limit = IF gc.signalIsPending THEN "heap" ELSE @],
                          CallFromCHandler)
  /\ UNCHANGED <<frames, pc, value, switching, worker, savedRef>>

\* handlerLoop hands the call to worker w.
Serve(w) ==
  /\ gc' = SwitchToThread(TakeSaved(gc), w)
  /\ savedRef' = [savedRef EXCEPT ![w] = gc.savedThread]
  /\ frames' = [frames EXCEPT ![Len(frames)].worker = w]
  /\ worker' = NoThread

\* handlerLoop with an idle worker.
ServeIdle ==
  /\ At(CallFromCHandler, "take") /\ worker # NoThread
  /\ Serve(worker)
  /\ UNCHANGED <<rt, pc, value, switching>>

\* A worker that nobody refers to stands for one that has not been made.
Unmade(w) ==
  /\ w # worker /\ savedRef[w] = NoThread
  /\ pc[w] = "none" \/ (pc[w] = "start" /\ gc.currentThread # w)

\* handlerLoop with mkWorker, which switches to the new thread and back.
ServeMade(w) ==
  /\ At(CallFromCHandler, "take") /\ worker = NoThread
  /\ ~switching /\ Unmade(w)
  /\ Serve(w) /\ Goto(w, "start")
  /\ UNCHANGED <<rt, value, switching>>

\* That switch is a nested one if the call came out of a function given to atomicSwitch:
\* handlerLoop raises Fail, and the top-level handler ends the program.
MakeFails ==
  /\ At(CallFromCHandler, "take") /\ worker = NoThread /\ switching
  /\ gc' = TakeSaved(gc) /\ rt' = "died"
  /\ UNCHANGED <<frames, pc, value, switching, worker, savedRef>>

\* workerLoop, up to the call of the exported function,
Work(w) ==
  /\ At(w, "start") /\ Goto(w, "run")
  /\ gc' = AtomicEnd(gc)
  /\ UNCHANGED <<rt, frames, value, switching, worker, savedRef>>

\* and after it.  The program finishes the call C made last first, as C must return from
\* it first; and it leaves its critical sections.
ReturnToC(w) ==
  /\ At(w, "run") /\ Goto(w, "start")
  /\ frames # <<>> /\ frames[Len(frames)].worker = w
  /\ gc.atomicState = frames[Len(frames)].depth
  /\ worker' = w
  /\ gc' = SetSaved(AtomicBegin(gc), savedRef[w])
  /\ savedRef' = [savedRef EXCEPT ![w] = NoThread]
  /\ rt' = "returned"
  /\ UNCHANGED <<frames, value, switching>>

\* A faulty variant of LeaveML: The switch back to C is made outside critical sections.
WrongLeaveML ==
  /\ rt = "returned" /\ rt' = "back"
  /\ gc' = SwitchToThread(TakeSaved(gc), gc.savedThread)
  /\ UNCHANGED <<frames, pc, value, switching, worker, savedRef>>

LeaveML ==
  /\ rt = "returned" /\ rt' = "back"
  /\ gc' = SwitchToThread([TakeSaved(gc) EXCEPT !.atomicState = @ + 1], gc.savedThread)
  /\ UNCHANGED <<frames, pc, value, switching, worker, savedRef>>

LowerAtomicState ==
  /\ rt = "back" /\ rt' = "lowered"
  /\ gc' = [gc EXCEPT !.atomicState = @ - 1]
  /\ UNCHANGED <<frames, pc, value, switching, worker, savedRef>>

\* The last test, and the way back to the code that called C.
EndCallFromC ==
  /\ rt = "lowered" /\ rt' = "ml"
  /\ gc' = IF gc.atomicState = 0 /\ gc.signalIsPending
           THEN [gc EXCEPT !.limit = "zero"] ELSE gc
  /\ frames' = SubSeq(frames, 1, Len(frames) - 1)
  /\ UNCHANGED <<pc, value, switching, worker, savedRef>>

-----------------------------------------------------------------------------
Program(t) == Switch(t) \/ NestedSwitch(t) \/ SwitchFails(t) \/ CallFromC(t)

Next ==
  \/ GC_handler \/ LimitCheck
  \/ \E t \in Threads : Begin(t)
  \/ \E t \in Users : Program(t)
  \/ \E t \in Users, u \in Users : AtomicSwitch(t, u)
  \/ TakeInterrupted
  \/ \E u \in Users : FinishSignalHandler(u)
  \/ EnterML \/ ServeIdle \/ MakeFails
  \/ \E w \in Workers : ServeMade(w) \/ Work(w) \/ ReturnToC(w)
  \/ LeaveML \/ LowerAtomicState \/ EndCallFromC

Spec == Init /\ [][Next]_vars

-----------------------------------------------------------------------------
(* Properties.                                                             *)

TypeOK ==
  /\ gc \in [currentThread : All, savedThread : All \cup {NoThread}, atomicState : Nat,
             limit : {"zero", "heap"}, signalIsPending : BOOLEAN,
             amInSignalHandler : BOOLEAN, fault : BOOLEAN]
  /\ rt \in {"ml", "called", "returned", "back", "lowered", "died"}
  /\ frames \in Seq([caller : Users, depth : Nat, worker : Workers \cup {NoThread}])
  /\ pc \in [All -> Points] /\ value \in [Users -> Values]
  /\ switching \in BOOLEAN
  /\ worker \in Workers \cup {NoThread}
  /\ savedRef \in [Workers -> Users \cup {NoThread}]

\* The assertions of handler.c, gc_state.c and copy-thread.c: savedThread is written when
\* it is free, read when it is not, and free while a thread is copied.
SlotFree == ~gc.fault

\* In how many places a thread is held that somebody may resume it from; while it runs the
\* function of its own switch, its value does not count.
Holders(t) ==
  LET one(b) == IF b THEN 1 ELSE 0
  IN one(gc.currentThread = t) + one(value[t] # "Dead" /\ pc[t] # "f") + one(gc.savedThread = t)
     + one(worker = t) + Cardinality({w \in Workers : savedRef[w] = t})

\* Threads are one-shot: whatever is switched, interrupted, raised or called, a thread is
\* held in one place, so that it is never resumed twice and never lost.  In MLton_callFromC
\* the caller is both saved and current for a moment, and a new worker is held by nobody.
OneShot ==
  rt = "ml" =>
    /\ \A t \in Users : Holders(t) <= 1
    /\ \A t \in Threads : Holders(t) = 1
    /\ \A i \in DOMAIN frames :
         LET f == frames[i]
         IN f.worker # NoThread => savedRef[f.worker] = f.caller
    /\ \A w \in Workers : savedRef[w] # NoThread => \E i \in DOMAIN frames : frames[i].worker = w

\* How deep in critical sections thread t is where it stands: what the comments of
\* thread.sml ("Atomic 0" ... "Atomic 2") add to the depth its code was called at.
BaseDepth(t) ==
  IF t = SignalHandler THEN 1
  ELSE IF \E i \in DOMAIN frames : frames[i].worker = t
  THEN frames[CHOOSE i \in DOMAIN frames : frames[i].worker = t].depth
  ELSE 0

AtomicAsCommented ==
  LET t == gc.currentThread
  IN rt = "ml" =>
       gc.atomicState = CASE pc[t] = "run" -> BaseDepth(t)
                          [] pc[t] \in {"f", "start"} -> BaseDepth(t) + 1
                          [] pc[t] = "loop" -> 1
                          [] pc[t] = "take" -> frames[Len(frames)].depth + 2

\* The flag that makes switches exclusive is up exactly while one thread is in a function
\* given to atomicSwitch, at whatever depth of calls through C, and is put back when that
\* function fails.
SwitchingIsExclusive ==
  /\ switching = (\E t \in Users : pc[t] = "f")
  /\ \A t, u \in Users : pc[t] = "f" /\ pc[u] = "f" => t = u
  /\ switching => gc.atomicState > 0

\* A signal that may be handled has the limit check armed when SML code runs.
PendingIsArmed ==
  rt = "ml" /\ gc.atomicState = 0 /\ gc.signalIsPending => gc.limit = "zero"

\* What threads, the handler threads and the calls of C may rely on.
ThreadsOk ==
  TypeOK /\ SlotFree /\ OneShot /\ AtomicAsCommented /\ SwitchingIsExclusive /\ PendingIsArmed

\* C returns to the SML code that called it, at the depth of critical sections it had.
CallsReturn ==
  [][Len(frames') < Len(frames) =>
       LET call == frames[Len(frames)]
       IN gc'.currentThread = call.caller /\ gc'.atomicState = call.depth]_vars
=============================================================================
