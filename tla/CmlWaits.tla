------------------------------ MODULE CmlWaits ------------------------------
(***************************************************************************)
(* Running Concurrent ML, and waiting for what no thread brings about:     *)
(* time-outs, input and output, and the end of another thread.             *)
(*                                                                         *)
(* RunCML.doit runs one program after the other in one process.  Blocked   *)
(* threads are in the queue of time-outs, in the list of the I/O manager   *)
(* and in the condition variables of the threads they join; a choice is in *)
(* several of them.  The timer signal and the pause hook, which runs when  *)
(* no thread is ready, wake whom the time or the descriptors allow, and    *)
(* the hook ends the program when it finds nobody who waits for either.    *)
(* Transaction ids, the scheduler and the helpers of a choice are those of *)
(* CmlEvent.                                                               *)
(***************************************************************************)
EXTENDS CmlScheduler, SequencesExt

CONSTANTS
  Programs,     \* the programs that are run, each the sequence of its threads
  Requests,     \* the operations each thread performs
  Descriptors, Flags, HangUp,
  States(_),    \* what may be true of a descriptor: sets of flags
  MaxOps,       \* bound: operations of a thread
  Fan,          \* bound: base events of one operation
  MaxTime,      \* bound: the last moment, unless somebody waits for a later one
  Nil

Threads == UNION {Range(Programs[p]) : p \in DOMAIN Programs}

\* A request synchronizes on a choice ("sync"), ends the thread or ends the program.
\* Its events are a time-out some time from now or at a given time, a descriptor with
\* the flags asked for, or the end of another thread.
Events == [kind : {"after", "at"}, time : 0 .. MaxTime]
          \cup [kind : {"io"}, pd : Descriptors \X SUBSET Flags]
          \cup [kind : {"join"}, thread : Threads]

ASSUME RequestsAssumption ==
  /\ MaxOps \in Nat /\ Fan \in Nat /\ MaxTime \in Nat /\ HangUp \notin Flags
  /\ \A t \in Threads : \A r \in Requests[t] :
       \/ r.mode \in {"exit", "shutdown"}
       \/ r.mode = "sync" /\ Len(r.events) \in 1 .. Fan /\ Range(r.events) \subseteq Events

Tx       == Threads \X (1 .. MaxOps)
Entities == Threads \X (0 .. Fan)      \* <<t, 0>> is t, <<t, i>> its i-th helper
Main(t)  == <<t, 0>>
Items    == [tx : Tx, thr : Entities]

VARIABLES
  sched,      \* the scheduler
  program,    \* the number of the program that runs
  status,     \* "running", or how it ended
  timeQ,      \* the queue of time-outs, in the order of their times
  waiting,    \* the list of the I/O manager
  dead,       \* of each thread: is its condition variable set, and who waits for it
  cancelled,  \* the transaction ids in state CANCEL
  clock,      \* an approximation of the time, Nil until somebody asks for it
  ops, request, pc,
  result,     \* history: the event each operation returned with
  now, answers

waitVars == <<timeQ, waiting, dead, cancelled>>
vars == <<sched, program, status, waitVars, clock, ops, request, pc, result, now, answers>>

Tx0(t)   == <<t, ops[t]>>
getTime  == IF clock = Nil THEN now ELSE clock
Running(e, point) == status = "running" /\ sched.cur = e /\ sched.atomic = 0 /\ pc[e] = point

\* RunCML.doit: the scheduler and the time-outs are reset, and the initial thread is
\* spawned, which here spawns the others.
Reset == timeQ' = <<>>

Spawned(p) == LET threads == [i \in DOMAIN Programs[p] |-> Main(Programs[p][i])]
              IN Started(Head(threads), Tail(threads))

Init ==
  /\ program = 1 /\ status = "running" /\ sched = Spawned(1)
  /\ timeQ = <<>> /\ waiting = <<>> /\ clock = Nil /\ cancelled = {}
  /\ dead = [t \in Threads |-> [set |-> FALSE, waiting |-> <<>>]]
  /\ ops = [t \in Threads |-> 0] /\ request = [t \in Threads |-> Nil]
  /\ pc = [e \in Entities |-> IF e[2] = 0 THEN "run" ELSE "none"]
  /\ result = [x \in Tx |-> 0]
  /\ now = 0 /\ answers = [d \in Descriptors |-> {}]

\* The end of doit: what was spawned and has not ended is dropped.
EndRun(s) ==
  /\ status' = s /\ sched' = [Spawned(program) EXCEPT !.cur = NoThread, !.rdyQ1 = <<>>]
  /\ Reset

DoIt ==
  /\ status # "running" /\ status # "Fail" /\ program < Len(Programs)
  /\ program' = program + 1 /\ status' = "running" /\ sched' = Spawned(program + 1)
  /\ Reset
  /\ UNCHANGED <<waiting, dead, cancelled, clock, ops, request, pc, result, now, answers>>

-----------------------------------------------------------------------------
(***************************************************************************)
(* Waking.                                                                 *)
(***************************************************************************)

\* A faulty variant of Woken: The state of the transaction is not looked at.
WrongWoken(w, items) ==
  FoldLeft(LAMBDA u, item :
             IF FALSE THEN u
             ELSE [sched |-> ready(u.sched, item.thr), cancelled |-> u.cancelled \cup {item.tx},
                   readied |-> TRUE],
           [w EXCEPT !.readied = FALSE], items)

\* Of the items, those whose transaction nobody has committed are made ready; the first
\* of several items of one transaction wins.
Woken(w, items) ==
  FoldLeft(LAMBDA u, item :
             IF item.tx \in u.cancelled THEN u
             ELSE [sched |-> ready(u.sched, item.thr), cancelled |-> u.cancelled \cup {item.tx},
                   readied |-> TRUE],
           [w EXCEPT !.readied = FALSE], items)

Waking(s) == [sched |-> s, cancelled |-> cancelled, readied |-> FALSE]

\* A faulty variant of CleanTimes: Who is removed is not made ready.
WrongCleanTimes(w, q, time) ==
  {[woken |-> u,
    timeQ |-> SelectSeq(q, LAMBDA item : item.key > time /\ item.tx \notin u.cancelled)] :
     u \in {[w EXCEPT !.readied = FALSE]}}

\* TimeOut's cleaner over the queue, at a time, after w.
CleanTimes(w, q, time) ==
  {[woken |-> u,
    timeQ |-> SelectSeq(q, LAMBDA item : item.key > time /\ item.tx \notin u.cancelled)] :
     u \in {Woken(w, SelectSeq(q, LAMBDA item : item.key <= time))}}

\* IOManager.poll: what is true of a descriptor, as far as it was asked for.
Answer(pd) == answers[pd[1]] \cap (pd[2] \cup {HangUp})
Info(pd)   == <<pd[1], Answer(pd) \ {HangUp}>>

\* IOManager.preempt: the answers come in the order of the items, and each is looked for
\* among the items from where the last one was found.
Filter(items, infos) ==
  FoldLeft(LAMBDA f, item :
             IF f.infos # <<>> /\ Head(f.infos) = item.pd
             THEN [f EXCEPT !.infos = Tail(@), !.found = Append(@, item)]
             ELSE [f EXCEPT !.kept = Append(@, item)],
           [infos |-> infos, found |-> <<>>, kept |-> <<>>], items)

PreemptIO(w) ==
  LET clean == Reverse(SelectSeq(waiting, LAMBDA item : item.tx \notin w.cancelled))
      answered == SelectSeq(clean, LAMBDA item : Answer(item.pd) # {})
  IN {[woken |-> Woken(w, f.found), waiting |-> Reverse(f.kept), fails |-> f.infos # <<>>] :
        f \in {Filter(clean, [i \in DOMAIN answered |-> Info(answered[i].pd)])}}

\* IOManager.preempt, then TimeOut.preempt, which forgets the time.
Preempted(s) ==
  UNION {{[io |-> io, to |-> to, fails |-> io.fails, sched |-> to.woken.sched,
           readied |-> io.woken.readied \/ to.woken.readied] :
            to \in CleanTimes(io.woken, timeQ, now)} : io \in PreemptIO(Waking(s))}

\* An exception in the signal handler or in the pause hook ends it all.
Fails == status' = "Fail" /\ UNCHANGED <<sched, waitVars, clock>>

Takes(p) ==
  /\ waiting' = p.io.waiting /\ timeQ' = p.to.timeQ /\ cancelled' = p.to.woken.cancelled
  /\ clock' = IF timeQ = <<>> THEN Nil ELSE now
  /\ UNCHANGED <<dead, status>>

Next0(s) == [dequeued(s) EXCEPT !.cur = next(s)]

alrm ==
  /\ status = "running" /\ sched.cur # NoThread /\ sched.atomic = 0
  /\ \E p \in Preempted(preempt(sched)) :
       IF p.fails THEN Fails ELSE sched' = Next0(p.sched) /\ Takes(p)
  /\ UNCHANGED <<program, ops, request, pc, result, now, answers>>

\* Nobody is ready: somebody becomes it, or the program has ended, or the hook sleeps
\* and tries again.
pauseHook ==
  /\ status = "running" /\ sched.cur = NoThread
  /\ \E p \in Preempted(sched) :
       \/ p.fails /\ Fails
       \/ ~p.fails /\ p.readied /\ sched' = Next0(p.sched) /\ Takes(p)
       \/ /\ ~p.fails /\ ~p.readied /\ p.io.waiting = <<>> /\ p.to.timeQ = <<>>
          /\ EndRun("failure") /\ waiting' = <<>> /\ UNCHANGED <<dead, cancelled>>
          /\ clock' = IF timeQ = <<>> THEN Nil ELSE now
       \/ /\ ~p.fails /\ ~p.readied /\ (p.io.waiting # <<>> \/ p.to.timeQ # <<>>)
          /\ sched' = sched /\ Takes(p)
  /\ UNCHANGED <<program, ops, request, pc, result, now, answers>>

-----------------------------------------------------------------------------
(***************************************************************************)
(* Synchronizing.                                                          *)
(***************************************************************************)

Evaluate(t, r) ==
  /\ Running(Main(t), "run") /\ ops[t] < MaxOps
  /\ \A i \in DOMAIN r.events : r.events[i].kind = "after" => now + r.events[i].time <= MaxTime
  /\ ops' = [ops EXCEPT ![t] = @ + 1] /\ request' = [request EXCEPT ![t] = r]
  /\ pc' = [pc EXCEPT ![Main(t)] = "sync"]
  /\ UNCHANGED <<sched, program, status, waitVars, clock, result, now, answers>>

Enabled(ev) ==
  CASE ev.kind = "after" -> ev.time = 0
    [] ev.kind = "at"    -> ev.time <= getTime
    [] ev.kind = "io"    -> Answer(ev.pd) # {}
    [] ev.kind = "join"  -> dead[ev.thread].set

EnabledEvents(t) == {i \in DOMAIN request[t].events : Enabled(request[t].events[i])}
Polls(t, kinds)  == \E i \in DOMAIN request[t].events : request[t].events[i].kind \in kinds

SyncEnabled(t) ==
  /\ Running(Main(t), "sync") /\ request[t].mode = "sync"
  /\ \E i \in EnabledEvents(t) : result' = [result EXCEPT ![Tx0(t)] = i]
  /\ pc' = [pc EXCEPT ![Main(t)] = "run"]
  /\ clock' = IF Polls(t, {"at"}) THEN getTime ELSE clock
  /\ UNCHANGED <<sched, program, status, waitVars, ops, request, now, answers>>

Waiter(t, i) == IF Len(request[t].events) > 1 THEN <<t, i>> ELSE Main(t)

\* The items left by the events of some kinds, the one polled last first.
Left(t, kinds) ==
  LET n == Len(request[t].events)
      chosen == SelectSeq([k \in 1 .. n |-> n + 1 - k],
                          LAMBDA i : request[t].events[i].kind \in kinds)
  IN [k \in DOMAIN chosen |-> [ev |-> request[t].events[chosen[k]], tx |-> Tx0(t),
                               thr |-> Waiter(t, chosen[k])]]

Key(ev) == IF ev.kind = "after" THEN ev.time + getTime ELSE ev.time

\* TQ.enque: behind those of the same time.
Enque(q, item) ==
  LET before == SelectSeq(q, LAMBDA i : i.key <= item.key)
  IN before \o <<item>> \o SubSeq(q, Len(before) + 1, Len(q))

Enqueued(items) ==
  FoldLeft(LAMBDA q, l : Enque(q, [key |-> Key(l.ev), tx |-> l.tx, thr |-> l.thr]), timeQ, items)

\* Nothing is enabled: an item for each event, and on to the next thread.  Whoever puts a
\* time-out in the queue wakes those that have expired.
Block(t) ==
  /\ Running(Main(t), "sync") /\ request[t].mode = "sync" /\ EnabledEvents(t) = {}
  /\ LET switching == [atomicBegin(sched) EXCEPT !.marked =
                         @ \cup {Waiter(t, i) : i \in DOMAIN request[t].events}]
         left == Left(t, {"after", "at"})
     IN IF left = <<>>
        THEN sched' = atomicSwitchToNext(switching) /\ UNCHANGED <<timeQ, cancelled, clock>>
        ELSE \E c \in CleanTimes(Waking(switching), Enqueued(left), getTime) :
               /\ sched' = atomicSwitchToNext(c.woken.sched)
               /\ timeQ' = c.timeQ /\ cancelled' = c.woken.cancelled /\ clock' = getTime
  /\ waiting' = FoldLeft(LAMBDA q, l : <<[pd |-> l.ev.pd, tx |-> l.tx, thr |-> l.thr]>> \o q,
                         waiting, Left(t, {"io"}))
  /\ dead' = FoldLeft(LAMBDA cvars, l : [cvars EXCEPT ![l.ev.thread].waiting =
                                          <<[tx |-> l.tx, thr |-> l.thr]>> \o @],
                      dead, Left(t, {"join"}))
  /\ pc' = [e \in Entities |->
       IF \E i \in DOMAIN request[t].events : e = Waiter(t, i) THEN "wait"
       ELSE IF e = Main(t) THEN "helped" ELSE pc[e]]
  /\ UNCHANGED <<program, status, ops, request, result, now, answers>>

\* Who was woken returns from its choice; a helper passes what it got to its thread,
\* which runs at once.
Resume(e) ==
  /\ Running(e, "wait")
  /\ sched' = IF e[2] = 0 THEN sched ELSE switch(sched, Main(e[1]))
  /\ pc' = IF e[2] = 0 THEN [pc EXCEPT ![e] = "run"]
           ELSE [pc EXCEPT ![e] = "none", ![Main(e[1])] = "run"]
  /\ result' = [result EXCEPT ![Tx0(e[1])] = IF e[2] = 0 THEN 1 ELSE e[2]]
  /\ UNCHANGED <<program, status, waitVars, clock, ops, request, now, answers>>

\* Thread.exit, or the end of its function: those who join it are woken.
Exit(t) ==
  /\ Running(Main(t), "sync") /\ request[t].mode = "exit"
  /\ \E w \in {Woken(Waking(atomicBegin(sched)), dead[t].waiting)} :
       sched' = atomicSwitchToNext(w.sched) /\ cancelled' = w.cancelled
  /\ dead' = [dead EXCEPT ![t] = [set |-> TRUE, waiting |-> <<>>]]
  /\ pc' = [pc EXCEPT ![Main(t)] = "dead"]
  /\ UNCHANGED <<program, status, timeQ, waiting, clock, ops, request, result, now, answers>>

shutdown(t) ==
  /\ Running(Main(t), "sync") /\ request[t].mode = "shutdown"
  /\ EndRun("success")
  /\ UNCHANGED <<program, waiting, dead, cancelled, clock, ops, request, pc, result, now, answers>>

Tick ==
  /\ now < MaxTime \/ \E item \in Range(timeQ) : now < item.key
  /\ now' = now + 1
  /\ UNCHANGED <<sched, program, status, waitVars, clock, ops, request, pc, result, answers>>

Arrive ==
  /\ \E d \in Descriptors : \E a \in States(d) : answers' = [answers EXCEPT ![d] = a]
  /\ UNCHANGED <<sched, program, status, waitVars, clock, ops, request, pc, result, now>>

Step ==
  \/ \E t \in Threads : \/ \E r \in Requests[t] : Evaluate(t, r)
                        \/ SyncEnabled(t) \/ Block(t) \/ Exit(t) \/ shutdown(t)
  \/ \E e \in Entities : Resume(e)
  \/ pauseHook \/ DoIt

Next == Step \/ alrm \/ Tick \/ Arrive

\* The timer goes on, so does the time, and programs get on with their operations in the
\* quanta they are given.
Spec == Init /\ [][Next]_vars /\ SF_vars(Step) /\ WF_vars(alrm) /\ WF_vars(Tick)

-----------------------------------------------------------------------------
(***************************************************************************)
(* Properties.                                                             *)
(***************************************************************************)

TypeOK ==
  /\ sched \in SchedulerStates(Entities) /\ sched.atomic = 0
  /\ program \in DOMAIN Programs /\ status \in {"running", "success", "failure", "Fail"}
  /\ Range(timeQ) \subseteq [key : Nat, tx : Tx, thr : Entities]
  /\ Range(waiting) \subseteq [pd : Descriptors \X SUBSET Flags, tx : Tx, thr : Entities]
  /\ \A t \in Threads : dead[t].set \in BOOLEAN /\ Range(dead[t].waiting) \subseteq Items
  /\ cancelled \subseteq Tx /\ (clock # Nil => clock \in 0 .. now)
  /\ pc \in [Entities -> {"run", "sync", "wait", "helped", "none", "dead"}]
  /\ result \in [Tx -> 0 .. Fan]

Of(p)     == Range(Programs[p])
Events0(t) == request[t].events

Scheduled(e) == Places(sched, e)

QueueOf(ev) == CASE ev.kind = "io" -> waiting
                 [] ev.kind = "join" -> dead[ev.thread].waiting
                 [] OTHER -> timeQ

Pending(t) ==
  /\ Tx0(t) \notin cancelled
  /\ \A i \in DOMAIN Events0(t) : \E item \in Range(QueueOf(Events0(t)[i])) :
       item.tx = Tx0(t) /\ item.thr = Waiter(t, i)

\* While a program runs, a thread of it is ready or runs, once; or it waits in the queue of
\* every event of its choice; or one waiter of the choice has been woken, once.  No thread
\* of another program is ready.
NobodyIsLost ==
  status = "running" =>
    /\ \A t \in Of(program) :
         CASE pc[Main(t)] \in {"run", "sync"} -> Scheduled(Main(t)) = 1
           [] pc[Main(t)] = "dead" -> Scheduled(Main(t)) = 0
           [] OTHER ->
                LET woken == {i \in DOMAIN Events0(t) : Scheduled(Waiter(t, i)) > 0}
                IN \/ Pending(t) /\ woken = {}
                   \/ /\ Tx0(t) \in cancelled
                      /\ \E i \in woken : woken = {i} /\ Scheduled(Waiter(t, i)) = 1
    /\ \A e \in Entities : e[1] \notin Of(program) => Scheduled(e) = 0

\* A time-out or an answer that comes together with the end of another thread, or with one
\* another, wakes the thread once (see NobodyIsLost), and no thread returns with a
\* time-out whose moment has not come.
NotBefore ==
  \A t \in Threads :
    LET i == result[Tx0(t)]
    IN ops[t] > 0 /\ i # 0 /\ Events0(t)[i].kind = "at" => Events0(t)[i].time <= now

\* The pause hook ends a program only if it can never go on: whoever is left waits for
\* nothing but the end of threads that have not ended.
EndsOnlyIfStuck ==
  status = "failure" =>
    \A t \in Of(program) :
      \/ pc[Main(t)] = "dead"
      \/ /\ pc[Main(t)] \in {"wait", "helped"}
         /\ \A i \in DOMAIN Events0(t) :
              Events0(t)[i].kind = "join" /\ ~dead[Events0(t)[i].thread].set

\* What holds of whoever waits.
WaitingOk == TypeOK /\ NobodyIsLost /\ NotBefore /\ EndsOnlyIfStuck

\* Who waits for a time-out, among other things, returns, or the program ends: the alarm
\* or the pause hook looks at the queue however the other threads go on.
TimeOutsReturn ==
  \A t \in Threads :
    []<>~(/\ status = "running" /\ pc[Main(t)] \in {"wait", "helped"}
          /\ Polls(t, {"after", "at"}))
=============================================================================
