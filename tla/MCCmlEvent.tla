----------------------------- MODULE MCCmlEvent -----------------------------
(* Instances of CmlEvent for TLC: the programs its threads are made of.    *)
EXTENDS CmlEvent, TLC

CONSTANTS a, b, t1, t2, t3

send(c) == [kind |-> "send", on |-> c, within |-> {}]
recv(c) == [kind |-> "recv", on |-> c, within |-> {}]
nack(t) == [kind |-> "wait", on |-> <<t, 1>>, within |-> {}]
dead(t) == [kind |-> "wait", on |-> <<t, 0>>, within |-> {}]
withNack(ev, n) == [ev EXCEPT !.within = {n}]

call(ev) == [mode |-> "call", events |-> <<ev>>, nacks |-> {}]
poll(ev) == [mode |-> "poll", events |-> <<ev>>, nacks |-> {}]
sync(evs, ns) == [mode |-> "sync", events |-> evs, nacks |-> ns]

\* Calls and choices over two channels, each thread being a possible partner of
\* each other and a choice offering both directions of one channel.
Choices ==
  {call(send(a)), call(recv(a)), sync(<<send(a), recv(b)>>, {}),
   sync(<<recv(a), send(a)>>, {})}

\* t1 offers choices with nacks; the others serve them, wait for the nacks, or
\* join.  Those who send on a only poll, so that a client never takes a sender from
\* a's queue while the nack this sets wakes a server from b's: see NackRace.
Servers ==
  {sync(<<recv(a), withNack(recv(b), 1)>>, {1}),
   sync(<<withNack(recv(b), 1), withNack(recv(a), 2)>>, {1, 2}),
   sync(<<nack(t1), withNack(send(b), 1)>>, {1}), sync(<<nack(t2), dead(t2)>>, {}),
   sync(<<dead(t2)>>, {}),
   poll(send(a))}

\* A server that waits for a request on b or for the nack of its client, which may
\* be receiving from b and a in one choice.
NackRace ==
  {sync(<<withNack(recv(a), 1), withNack(recv(b), 2)>>, {1, 2}),
   sync(<<nack(t1), send(b)>>, {})}

\* The condition under which no transaction id is forced twice tells the programs apart:
\* those of the passing runs meet it, the one that fails does not.
ASSUME RaceFreedom == RaceFree(Choices) /\ RaceFree(Servers) /\ ~RaceFree(NackRace)

Symmetry == Permutations({t1, t2, t3})
=============================================================================
