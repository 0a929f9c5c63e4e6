----------------------------- MODULE MCProgress -----------------------------
(* MarkCompact and SignalDelivery for TLC: a collection comes to its end, and *)
(* signals come to their handlers.                                            *)
EXTENDS MCMarkCompact

CONSTANTS u1, u2, s1, Handler, GC, NoThread

\* The two parts share no variable, so that nothing is lost if one of them rests in an
\* initial state while the other moves: the states are the sum of the two, not the
\* product.
VARIABLES
  part,
  atomicState, limit, currentThread, savedThread, signalIsPending, amInSignalHandler,
  gcSignalPending, signalsHandled, signalsPending, raised, blocked, disposition, handlers,
  rt, target, sPc, sRequest, todo, mask, interrupted, depth

signalVars == <<atomicState, limit, currentThread, savedThread, signalIsPending,
                amInSignalHandler, gcSignalPending, signalsHandled, signalsPending, raised,
                blocked, disposition, handlers, rt, target, sPc, sRequest, todo, mask,
                interrupted, depth>>

Delivery == INSTANCE SignalDelivery WITH
  Signals <- {s1}, Threads <- {u1, u2}, HandlesGC <- TRUE, Kinds <- {"Default", "Handler"},
  MaxAtomic <- 2, pc <- sPc, request <- sRequest

ASSUME DeliveryThreads == Delivery!ThreadsAssumption
ASSUME DeliverySignals == Delivery!SignalsAssumption

MCVars == <<part, vars, signalVars>>

MCInit ==
  /\ part \in {"compaction", "signals"}
  /\ Init /\ (part = "signals" => origin = EmptyHeap)
  /\ Delivery!Init /\ (part = "compaction" => currentThread = u1)

Compaction(A) == part = "compaction" /\ A /\ UNCHANGED <<part, signalVars>>
Delivering(A) == part = "signals" /\ A /\ UNCHANGED <<part, vars>>

\* A compaction ends; with signals something can always happen.
Stopped == part = "compaction" /\ UNCHANGED MCVars

MCNext ==
  \/ part = "compaction" /\ Next /\ UNCHANGED <<part, signalVars>>
  \/ part = "signals" /\ Delivery!Next /\ UNCHANGED <<part, vars>>
  \/ Stopped

\* The fairness of MarkCompact's Spec and SignalDelivery's Fairness.  A behaviour stays
\* in one part: fairness of actions of both parts is fairness of their disjunction.
MCSpec ==
  /\ MCInit /\ [][MCNext]_MCVars
  /\ SF_MCVars(Delivering(Delivery!MLProgress))
  /\ WF_MCVars(\/ Compaction(Next)
               \/ Delivering(\/ Delivery!Runtime \/ Delivery!AtomicBeginTest
                             \/ Delivery!AtomicEndTest \/ \E t \in {u1, u2} : Delivery!Sigaction(t)))
  /\ SF_MCVars(Delivering(\E t \in {u1, u2} : Delivery!AtomicEnd(t)))
  /\ SF_MCVars(Delivering(depth = 1 /\ \E t \in {u1, u2} : Delivery!AtomicEnd(t)))

\* A compaction ends (MarkCompact's Terminates).
CompactionEnds == part = "compaction" => Terminates

\* SignalDelivery's SignalsAreHandled and GCSignalIsHandled: recorded signals reach a run
\* of the handler.
SignalsAreHandled == part = "signals" => Delivery!SignalsAreHandled
GCSignalIsHandled == part = "signals" => Delivery!GCSignalIsHandled
=============================================================================
