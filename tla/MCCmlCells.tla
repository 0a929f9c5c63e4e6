----------------------------- MODULE MCCmlCells -----------------------------
(* Instances of CmlMailbox, CmlSyncVar and CmlQueue for TLC: the programs  *)
(* their threads are made of.                                              *)
EXTENDS CmlMailbox, TLC

CONSTANTS m1, m2, t1, t2, t3

op(mode, boxes) == [mode |-> mode, boxes |-> boxes]

\* t1 receives in every way, also by a choice that names a mailbox twice; the others
\* send, and compete with it for the messages.
Consumers ==
  [t \in {t1, t2, t3} |->
     {op("recv", <<m1>>)} \cup
     IF t = t1
     THEN {op("poll", <<m1>>), op("sync", <<m1, m1>>), op("sync", <<m1, m2>>)}
     ELSE {op("send", <<m1>>), op("send", <<m2>>)}]

-----------------------------------------------------------------------------
\* CmlSyncVar and CmlQueue are checked in the same run.  The three parts share no
\* variable, so that nothing is lost if two of them rest in an initial state while the
\* third moves: the states are the sum of the three, not the product.
CONSTANTS c1, c2, u1, u2, u3, i1, i2, QueueItems,
          QueueLen   \* bound: items in a queue

put(v) == [mode |-> "put", events |-> <<[kind |-> "get", on |-> v]>>]
read(mode, kinds, vs) ==
  [mode |-> mode, events |-> [i \in DOMAIN kinds |-> [kind |-> kinds[i], on |-> vs[i]]]]

\* Puts, gets, and a choice with two gets of one cell; takes and swaps that wait are
\* made by u1 only, so that no two of them wait for one cell.
OneTaker ==
  [t \in {u1, u2, u3} |->
     {read("sync", <<"get", "get">>, <<c1, c1>>), read("poll", <<"take">>, <<c1>>)}
     \cup IF t = u1
          THEN {read("sync", <<"take", "get">>, <<c1, c2>>), read("call", <<"swap">>, <<c1>>)}
          ELSE {put(c1), read("call", <<"get">>, <<c1>>)}]

VARIABLES
  part,
  cSched, value, readQ, cCancelled, cOps, cRequest, cPc, cVal, cResult, installed, removed,
  front, back, dead, answer

queueVars == <<front, back, dead, answer>>
cellVars  == <<cSched, value, readQ, cCancelled, cOps, cRequest, cPc, cVal, cResult,
               installed, removed>>

Q       == INSTANCE CmlQueue WITH Items <- QueueItems, None <- Nil, MaxLen <- QueueLen
SyncVar  == INSTANCE CmlSyncVarProofs WITH
  Threads <- {u1, u2, u3}, Cells <- {c1, c2}, Requests <- OneTaker,
  sched <- cSched, cancelled <- cCancelled, ops <- cOps, request <- cRequest, pc <- cPc,
  val <- cVal, result <- cResult

ASSUME SyncVarRequests == SyncVar!RequestsAssumption
ASSUME SyncVarTakers == SyncVar!OneTakerAssumption

MCInit ==
  /\ Init /\ SyncVar!Init /\ Q!Init
  /\ part \in {"mailboxes", "cells", "queues"}
  /\ part # "mailboxes" => sched.rdyQ1 = <<Main(t2), Main(t3)>>
  /\ part # "cells" => cSched.rdyQ1 = <<<<u2, 0>>, <<u3, 0>>>>
MCNext ==
  /\ UNCHANGED part
  /\ \/ part = "mailboxes" /\ Next /\ UNCHANGED <<cellVars, queueVars>>
     \/ part = "cells" /\ SyncVar!Next /\ UNCHANGED <<vars, queueVars>>
     \/ part = "queues" /\ Q!Next /\ UNCHANGED <<vars, cellVars>>
MCSpec == MCInit /\ [][MCNext]_<<vars, cellVars, queueVars, part>>

\* The two lists of a queue implement one sequence (CmlQueue's ImplementsSequence).
ImplementsSequence == Q!ImplementsSequence

\* CmlSyncVar's SchedulingOk and ValuesConserved: readers and writers of cells are never
\* lost, nobody sleeps before a full cell, and each value put is in a cell or taken once.
CellsOk == SyncVar!SchedulingOk /\ SyncVar!ValuesConserved

Symmetry == Permutations({t2, t3}) \cup Permutations({u2, u3})
=============================================================================
