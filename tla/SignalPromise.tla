--------------------------- MODULE SignalPromise ---------------------------
(***************************************************************************)
(* What MLton.Signal promises an SML program, with no runtime in sight     *)
(* (doc/guide/src/MLtonSignal.adoc): arrived signals wait; outside every   *)
(* critical section the program is interrupted, everything that waits and  *)
(* has a handler is collected at once, each collected handler runs exactly *)
(* once, and only then does the program go on.                             *)
(***************************************************************************)
CONSTANT Signals

VARIABLES
  waiting,    \* signals that have arrived and were not collected
  running,    \* collected signals whose handler functions have not run
  phase,      \* "user", "collect" or "run"
  installed,  \* signals with an SML handler
  critical    \* is the program inside a critical section?

pvars == <<waiting, running, phase, installed, critical>>

PromiseInit ==
  /\ waiting = {} /\ running = {}
  /\ phase = "user"
  /\ installed = {}
  /\ critical = FALSE

Arrive(s) == waiting' = waiting \cup {s} /\ UNCHANGED <<running, phase, installed, critical>>

Interrupt ==
  /\ phase = "user" /\ ~critical
  /\ phase' = "collect"
  /\ UNCHANGED <<waiting, running, installed, critical>>

Collect ==
  /\ phase = "collect"
  /\ phase' = "run"
  /\ running' = waiting \cap installed /\ waiting' = {}
  /\ UNCHANGED <<installed, critical>>

RunOne(s) ==
  /\ phase = "run" /\ s \in running
  /\ running' = running \ {s}
  /\ UNCHANGED <<waiting, phase, installed, critical>>

\* The handler returns inside the critical section it began with.
Return ==
  /\ phase = "run" /\ running = {}
  /\ phase' = "user" /\ critical' \in BOOLEAN
  /\ UNCHANGED <<waiting, running, installed>>

\* The program installs and removes handlers, and enters and leaves critical
\* sections; none of this happens while handlers run.
Program ==
  /\ phase = "user"
  /\ \/ \E s \in Signals : installed' \in {installed \cup {s}, installed \ {s}} /\ UNCHANGED critical
     \/ critical' \in BOOLEAN /\ UNCHANGED installed
  /\ UNCHANGED <<waiting, running, phase>>

PromiseNext ==
  \/ \E s \in Signals : Arrive(s) \/ RunOne(s)
  \/ Interrupt \/ Collect \/ Return \/ Program

PromiseSpec == PromiseInit /\ [][PromiseNext]_pvars
=============================================================================
