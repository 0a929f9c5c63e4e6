----------------------------- MODULE MCCmlWaits -----------------------------
(* Instances of CmlWaits for TLC: the programs and their threads. *)
EXTENDS CmlWaits
CONSTANTS t1, t2, t3, d1, d2, in, out

after(n) == [kind |-> "after", time |-> n]
at(n)    == [kind |-> "at", time |-> n]
io(d)    == [kind |-> "io", pd |-> <<d, {in}>>]
both(d)  == [kind |-> "io", pd |-> <<d, {in, out}>>]
join(t)  == [kind |-> "join", thread |-> t]
sync(evs) == [mode |-> "sync", events |-> evs]
exit == [mode |-> "exit", events |-> <<>>]
shut == [mode |-> "shutdown", events |-> <<>>]

\* A program of a time-out, which may be shut down, and then one with input: of d2,
\* which becomes and ceases to be ready for output, some ask for input too: a hang-up is answered like
\* input or output alone, with flags other than those asked for.
TwoPrograms == <<<<t1>>, <<t2, t3>>>>
Mixed == (t1 :> {sync(<<after(1)>>), shut})
         @@ (t2 :> {sync(<<io(d1), after(1)>>), sync(<<join(t3), at(1), io(d1)>>), exit})
         @@ (t3 :> {sync(<<join(t2), at(2)>>), sync(<<both(d2), io(d1)>>), sync(<<join(t2)>>), exit})
Inputs(d) == IF d = d1 THEN {{in}} ELSE {{}, {out}}
=============================================================================
