------------------------------- MODULE SysCall -------------------------------
(***************************************************************************)
(* System calls of the Basis Library (posix/error.sml, SysCall.syscallErr):*)
(* the call and the reading of errno in one critical section, what is done *)
(* with an error, and the restart of an interrupted call, with the handled *)
(* signals blocked when the program is in a critical section of its own.   *)
(*                                                                         *)
(* A few threads of the program and the signal handler make such calls,    *)
(* also from the code that takes a call's result.  GC_handler and the      *)
(* start of the signal handler are one step each (SignalDelivery has them  *)
(* in full).  The calls of sigprocmask that block and unblock are calls    *)
(* of syscallErr themselves; as they do not fail they are one step each.   *)
(***************************************************************************)
EXTENDS Integers, FiniteSets, Sequences, SequencesExt

CONSTANTS Threads,     \* threads of the program
          Handler,     \* the signal handler thread
          MaxSignals,  \* bound on the signals that arrive
          MaxCalls     \* bound on the calls begun

ConstantsOk == Handler \notin Threads /\ MaxSignals \in Nat /\ MaxCalls \in Nat

VARIABLES
  current,      \* the thread that runs
  interrupted,  \* the thread the signal handler has interrupted
  atomicState,
  errno,        \* the variable of C
  signals,      \* handled signals: blocked (by the mask), waiting (for it to be lifted),
                \* pending (recorded by GC_handler) and how many have come
  restartFlag,
  calls,        \* calls[t]: the calls t is in, the innermost last
  begun,        \* the calls begun
  program       \* what the program itself has last set: its depth of critical sections in
                \* each thread, and the mask (history)

vars == <<current, interrupted, atomicState, errno, signals, restartFlag, calls, begun, program>>

CallKinds ==   \* the parameters of syscallErr, and the errors its caller handles
  {[clear |-> FALSE, restart |-> TRUE,  handles |-> {}],           \* simpleRestart
   [clear |-> FALSE, restart |-> FALSE, handles |-> {"intr"}],     \* pause, sleep
   [clear |-> TRUE,  restart |-> FALSE, handles |-> {"cleared"}]}  \* readdir, pathconf

Errors == {"cleared", "intr", "other"}
Points == {"call", "f", "failed", "read", "post", "decide", "block", "ok", "exn"}
CallStates ==
  [kind : CallKinds, at : Points, masked : BOOLEAN, mask : BOOLEAN, errno : Errors,
   reported : Errors, unseen : BOOLEAN]

Init ==
  /\ current \in Threads /\ interrupted = Handler
  /\ atomicState = 0 /\ errno = "cleared"
  /\ signals = [blocked |-> FALSE, waiting |-> FALSE, pending |-> FALSE, come |-> 0]
  /\ restartFlag = TRUE
  /\ calls = [t \in Threads \cup {Handler} |-> <<>>] /\ begun = 0
  /\ program = [depth |-> [t \in Threads |-> 0], blocked |-> FALSE]

\* A signal comes: GC_handler records it, or it waits in the system.
Come(s) ==
  IF s.blocked THEN [s EXCEPT !.waiting = TRUE, !.come = @ + 1]
  ELSE [s EXCEPT !.pending = TRUE, !.come = @ + 1]

SetBlocked(s, mask) ==
  IF ~mask /\ s.waiting THEN [s EXCEPT !.blocked = FALSE, !.waiting = FALSE, !.pending = TRUE]
  ELSE [s EXCEPT !.blocked = mask]

Signal ==
  /\ signals.come < MaxSignals
  /\ signals' = Come(signals)
  /\ UNCHANGED <<current, interrupted, atomicState, errno, restartFlag, calls, begun, program>>

-----------------------------------------------------------------------------
\* The innermost call of the running thread is at a point; it goes on to another with the
\* fields of a changed.
At(point) == calls[current] # <<>> /\ Last(calls[current]).at = point
Call == Last(calls[current])
Goto(call) == calls' = [calls EXCEPT ![current] = Append(Front(@), call)]
UserCode == calls[current] = <<>> \/ At("post")

\* The signal handler sees every signal recorded so far, those that interrupted calls too.
Seen == [t \in Threads \cup {Handler} |->
           [i \in DOMAIN calls[t] |-> [calls[t][i] EXCEPT !.unseen = FALSE]]]

\* atomicEnd, with the innermost call at `call` afterwards: the outermost one starts the
\* signal handler if a signal is pending.
EndAtomic(call) ==
  IF atomicState = 1 /\ signals.pending
  THEN /\ interrupted' = current /\ current' = Handler /\ atomicState' = 1
       /\ signals' = [signals EXCEPT !.pending = FALSE]
       /\ calls' = [Seen EXCEPT ![current] = Append(Front(@), [call EXCEPT !.unseen = FALSE])]
  ELSE /\ atomicState' = atomicState - 1
       /\ Goto(call)
       /\ UNCHANGED <<current, interrupted, signals>>

-----------------------------------------------------------------------------
(* The program.                                                            *)

\* The program calls the Basis Library.
Begin(kind) ==
  /\ UserCode /\ begun < MaxCalls
  /\ begun' = begun + 1
  /\ calls' = [calls EXCEPT ![current] = Append(@,
       [kind |-> kind, at |-> "call", masked |-> FALSE, mask |-> FALSE, errno |-> "cleared",
        reported |-> "cleared", unseen |-> FALSE])]
  /\ UNCHANGED <<current, interrupted, atomicState, errno, signals, restartFlag, program>>

\* A limit check outside critical sections, of the program or of the library.
LimitCheck ==
  /\ atomicState = 0 /\ signals.pending
  /\ interrupted' = current /\ current' = Handler /\ atomicState' = 1
  /\ signals' = [signals EXCEPT !.pending = FALSE]
  /\ calls' = Seen
  /\ UNCHANGED <<errno, restartFlag, begun, program>>

\* The signal handler goes back to what it interrupted, or to another thread.
HandlerEnds(t) ==
  /\ current = Handler /\ calls[Handler] = <<>>
  /\ current' = t /\ interrupted' = Handler /\ atomicState' = 0
  /\ UNCHANGED <<errno, signals, restartFlag, calls, begun, program>>

\* The program enters or leaves a critical section of its own,
EnterCritical ==
  /\ current # Handler /\ calls[current] = <<>> /\ program.depth[current] = 0
  /\ atomicState' = atomicState + 1
  /\ program' = [program EXCEPT !.depth[current] = 1]
  /\ UNCHANGED <<current, interrupted, errno, signals, restartFlag, calls, begun>>

LeaveCritical ==
  /\ current # Handler /\ calls[current] = <<>> /\ program.depth[current] = 1
  /\ atomicState' = atomicState - 1
  /\ program' = [program EXCEPT !.depth[current] = 0]
  /\ UNCHANGED <<current, interrupted, errno, signals, restartFlag, calls, begun>>

\* blocks the handled signals or not,
SetMask ==
  /\ calls[current] = <<>>
  /\ program' = [program EXCEPT !.blocked = ~@]
  /\ signals' = SetBlocked(signals, ~signals.blocked)
  /\ UNCHANGED <<current, interrupted, atomicState, errno, restartFlag, calls, begun>>

\* and says whether calls are to be restarted.
SetRestart ==
  /\ calls[current] = <<>> /\ restartFlag' = ~restartFlag
  /\ UNCHANGED <<current, interrupted, atomicState, errno, signals, calls, begun, program>>

-----------------------------------------------------------------------------
(* syscallErr.                                                             *)

\* call: atomicBegin and clearErrno.
Attempt ==
  /\ At("call")
  /\ atomicState' = atomicState + 1
  /\ errno' = IF Call.kind.clear THEN "cleared" ELSE errno
  /\ Goto([Call EXCEPT !.at = "f"])
  /\ UNCHANGED <<current, interrupted, signals, restartFlag, begun, program>>

\* f returns something else than errVal,
Succeed ==
  /\ At("f") /\ Goto([Call EXCEPT !.at = "post"])
  /\ UNCHANGED <<current, interrupted, atomicState, errno, signals, restartFlag, begun, program>>

\* or errVal.  A call is interrupted by a signal that the mask lets through; a call that
\* asks for errno to be cleared may also return errVal without an error.
Fail(e) ==
  /\ At("f")
  /\ e = "cleared" => Call.kind.clear
  /\ e = "intr" => ~signals.blocked /\ signals.come < MaxSignals
  /\ errno' = IF e = "cleared" THEN errno ELSE e
  /\ signals' = IF e = "intr" THEN Come(signals) ELSE signals
  /\ Goto([Call EXCEPT !.at = "failed", !.reported = e, !.unseen = (e = "intr")])
  /\ UNCHANGED <<current, interrupted, atomicState, restartFlag, begun, program>>

\* f raises before the call.
RaiseF ==
  /\ At("f") /\ EndAtomic([Call EXCEPT !.at = "exn"])
  /\ UNCHANGED <<errno, restartFlag, begun, program>>

\* getErrno, "in the critical section",
ReadErrno ==
  /\ At("failed") /\ Goto([Call EXCEPT !.at = "read", !.errno = errno])
  /\ UNCHANGED <<current, interrupted, atomicState, errno, signals, restartFlag, begun, program>>

\* and its end.
EndCall ==
  /\ At("read") /\ EndAtomic([Call EXCEPT !.at = "decide"])
  /\ UNCHANGED <<errno, restartFlag, begun, program>>

\* post returns or raises; either way the critical section ends.
Post(outcome) ==
  /\ At("post") /\ EndAtomic([Call EXCEPT !.at = outcome])
  /\ UNCHANGED <<errno, restartFlag, begun, program>>

MayRestart == Call.kind.restart /\ Call.errno = "intr" /\ restartFlag /\ ~Call.masked

\* err, errUnblocked and errBlocked: a handler for the error, another attempt (one in a
\* critical section of the program with the signals blocked), or SysErr.
Decide ==
  /\ At("decide")
  /\ Goto([Call EXCEPT !.at = CASE Call.errno \in Call.kind.handles -> "ok"
                                [] MayRestart /\ Call.errno \notin Call.kind.handles ->
                                     IF atomicState = 0 THEN "call" ELSE "block"
                                [] OTHER -> "exn"])
  /\ UNCHANGED <<current, interrupted, atomicState, errno, signals, restartFlag, begun, program>>

\* blocker: remember the mask and block the handled signals.
Block ==
  /\ At("block")
  /\ signals' = SetBlocked(signals, TRUE)
  /\ Goto([Call EXCEPT !.at = "call", !.masked = TRUE, !.mask = signals.blocked])
  /\ UNCHANGED <<current, interrupted, atomicState, errno, restartFlag, begun, program>>

\* A faulty variant of Return: The mask is put back only if the call returns.
WrongReturn ==
  /\ At("ok") \/ At("exn")
  /\ signals' = IF Call.masked /\ At("ok") THEN SetBlocked(signals, Call.mask) ELSE signals
  /\ calls' = [calls EXCEPT ![current] = Front(@)]
  /\ UNCHANGED <<current, interrupted, atomicState, errno, restartFlag, begun, program>>

\* The call returns, or raises, with the mask put back.  An exception of a call that was
\* made by post is post's own.
Return ==
  /\ At("ok") \/ At("exn")
  /\ signals' = IF Call.masked THEN SetBlocked(signals, Call.mask) ELSE signals
  /\ calls' = [calls EXCEPT ![current] = Front(@)]
  /\ UNCHANGED <<current, interrupted, atomicState, errno, restartFlag, begun, program>>

Library ==
  \/ Attempt \/ Succeed \/ RaiseF \/ ReadErrno \/ EndCall \/ Decide \/ Block \/ Return
  \/ \E e \in Errors : Fail(e)
  \/ \E outcome \in {"ok", "exn"} : Post(outcome)

Program ==
  \/ \E kind \in CallKinds : Begin(kind)
  \/ \E t \in Threads : HandlerEnds(t)
  \/ EnterCritical \/ LeaveCritical \/ SetMask \/ SetRestart \/ LimitCheck

Next == Signal \/ Library \/ Program
Spec == Init /\ [][Next]_vars

-----------------------------------------------------------------------------
(* Properties.                                                             *)

TypeOK ==
  /\ current \in Threads \cup {Handler} /\ interrupted \in Threads \cup {Handler}
  /\ atomicState \in Nat /\ errno \in Errors /\ restartFlag \in BOOLEAN
  /\ signals \in [blocked : BOOLEAN, waiting : BOOLEAN, pending : BOOLEAN, come : 0 .. MaxSignals]
  /\ calls \in [Threads \cup {Handler} -> Seq(CallStates)]
  /\ begun \in 0 .. MaxCalls
  /\ program \in [depth : [Threads -> 0 .. 1], blocked : BOOLEAN]

\* What a call decides on is the error its own attempt reported, whatever calls the signal
\* handler, other threads and the code before have made ("Must getErrno () in the critical
\* section").
ErrnoIsOwn ==
  \A t \in DOMAIN calls : \A i \in DOMAIN calls[t] :
    calls[t][i].at \in {"read", "decide", "block"} => calls[t][i].errno = calls[t][i].reported

\* Each call has added its critical section to those around it while it is in the system or
\* in post, and nothing afterwards, by whatever path it ends; a thread that does not run is
\* outside all of them.
InSection(call) == call.at \in {"f", "failed", "read", "post"}

Depth(t) == Cardinality({i \in DOMAIN calls[t] : InSection(calls[t][i])})
            + (IF t = Handler THEN 1 ELSE program.depth[t])

DepthBalanced ==
  /\ atomicState = Depth(current)
  /\ \A t \in Threads : t # current => Depth(t) = 0
  /\ current # Handler => calls[Handler] = <<>>

\* The mask is what the program has set, unless a call that is being repeated in a critical
\* section has blocked the handled signals; nobody else ever runs with that mask.
Masked(t) == \E i \in DOMAIN calls[t] : calls[t][i].masked

MaskRestored ==
  /\ \A t \in DOMAIN calls : Masked(t) => t = current /\ atomicState > 0
  /\ signals.blocked = (program.blocked \/ Masked(current))

\* A call repeated with the signals blocked is not interrupted again: once is enough.
MaskedIsNotInterrupted ==
  \A t \in DOMAIN calls : \A i \in DOMAIN calls[t] :
    calls[t][i].masked /\ calls[t][i].at \in {"failed", "read", "decide"} =>
      calls[t][i].reported # "intr"

\* MLtonSignal: "If a system call is interrupted by a signal, then the signal handler will
\* run before the call is restarted or OS.SysError is raised", outside critical sections.
HandlerRunsFirst == At("decide") /\ atomicState = 0 => ~Call.unseen

\* What a system call leaves as it was, and who has run before it ends.
SysCallsOk ==
  /\ TypeOK /\ ErrnoIsOwn /\ DepthBalanced /\ MaskRestored /\ MaskedIsNotInterrupted
  /\ HandlerRunsFirst
=============================================================================
