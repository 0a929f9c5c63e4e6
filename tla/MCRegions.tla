----------------------------- MODULE MCRegions -------------------------------
(* An instance of Regions for TLC: a function that consists of an exclave. *)
EXTENDS Regions

Exclave == [statements |-> <<"pop", "alloc", "push">>,
            transfer |-> [kind |-> "return", labels |-> <<>>, handler |-> None]]

\* fun f x = exclave_ (x, x)
OnlyExclave ==
  [blocks : {<<Exclave>>}, returnsStack : {FALSE}, removes : BOOLEAN, inlined : BOOLEAN]
=============================================================================
