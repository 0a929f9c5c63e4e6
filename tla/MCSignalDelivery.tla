-------------------------- MODULE MCSignalDelivery --------------------------
(* Instances of SignalDelivery for TLC, and of three libraries that live     *)
(* with signals: CallsFromC, SysCall and Finalizable.                        *)
EXTENDS SignalDelivery, TLC

CONSTANTS CallThreads, CallWorkers, CallFromCHandler, MaxNested,  \* of CallsFromC
          SysThreads, MaxSysSignals, MaxSysCalls,                  \* of SysCall
          MaxValues, MaxAfters                                     \* of Finalizable

\* The four parts share no variable, so that nothing is lost if three of them rest in an
\* initial state while the other moves: the states are the sum of the four, not the
\* product.
VARIABLES
  part,
  gc, cRt, frames, cPc, value, switching, worker, savedRef,
  current, sInterrupted, sAtomicState, errno, signals, restartFlag, calls, begun, program,
  made, contents, afters, alive, held, r, loops, status, fSignals, history

callVars == <<gc, cRt, frames, cPc, value, switching, worker, savedRef>>
sysVars == <<current, sInterrupted, sAtomicState, errno, signals, restartFlag, calls, begun,
             program>>
finVars == <<made, contents, afters, alive, held, r, loops, status, fSignals, history>>

\* The modules with the proofs are CallsFromC and Finalizable themselves, and what is
\* proved about them; what is proved about SysCall is in SignalDeliveryProofs.
Calls == INSTANCE CallsFromCProofs WITH
  Threads <- CallThreads, Workers <- CallWorkers, SignalHandler <- Handler,
  MaxCalls <- MaxNested, rt <- cRt, pc <- cPc

Sys == INSTANCE SysCall WITH
  Threads <- SysThreads, MaxSignals <- MaxSysSignals, MaxCalls <- MaxSysCalls,
  interrupted <- sInterrupted, atomicState <- sAtomicState

Fin == INSTANCE FinalizableProofs WITH
  Raising <- TRUE, Making <- FALSE, signals <- fSignals

ASSUME CallsThreads == Calls!ThreadsDistinct
ASSUME SysConstants == Sys!ConstantsOk
ASSUME FinConstants == Fin!ValuesNumbered

\* A part that rests needs one initial state only.
MCInit ==
  /\ part \in {"signals", "calls", "system", "finalizers"}
  /\ Init
  /\ Calls!Init /\ (part # "calls" => gc.currentThread = CHOOSE t \in CallThreads : TRUE)
  /\ Sys!Init /\ (part # "system" => current = CHOOSE t \in SysThreads : TRUE)
  /\ Fin!Init

\* Only the delivery of signals never stops.
Stopped == part # "signals" /\ UNCHANGED <<part, vars, callVars, sysVars, finVars>>

MCNext ==
  /\ UNCHANGED part
  /\ \/ part = "signals" /\ Next /\ UNCHANGED <<callVars, sysVars, finVars>>
     \/ part = "calls" /\ Calls!Next /\ UNCHANGED <<vars, sysVars, finVars>>
     \/ part = "system" /\ Sys!Next /\ UNCHANGED <<vars, callVars, finVars>>
     \/ part = "finalizers" /\ Fin!Next /\ UNCHANGED <<vars, callVars, sysVars>>
     \/ Stopped
MCSpec == MCInit /\ [][MCNext]_<<part, vars, callVars, sysVars, finVars>>

\* CallsFromC's ThreadsOk: the slot savedThread, critical sections and threads used once.
ThreadsOk == part = "calls" => Calls!ThreadsOk

\* CallsFromC's CallsReturn: C returns to its caller, at its depth of critical sections.
CallsReturn == Calls!CallsReturn

\* SysCall's SysCallsOk: errno, the mask and critical sections around system calls.
SysCallsOk == part = "system" => Sys!SysCallsOk

\* Finalizable's FinalizersOk: nothing is finalized early, twice or never.
FinalizersOk == part = "finalizers" => Fin!FinalizersOk

\* Finalizable's FinalizeInOrder: what is to be finalized before others is.
FinalizeInOrder == Fin!FinalizeInOrder

\* The threads of SignalDelivery are interchangeable, and so are the signals.
Symmetry == Permutations(Signals) \cup Permutations(Threads)
=============================================================================
