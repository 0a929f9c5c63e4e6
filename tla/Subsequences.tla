---------------------------- MODULE Subsequences ----------------------------
(***************************************************************************)
(* List.filter, on sequences: a function defined by recursion on the       *)
(* length of a prefix, which can be reasoned about by induction.           *)
(***************************************************************************)
EXTENDS Integers, Sequences

\* What is left of each prefix of q when the elements outside S are dropped.
Filtered(q, S) ==
  LET first[n \in 0 .. Len(q)] ==
        IF n = 0 THEN <<>>
        ELSE IF q[n] \in S THEN Append(first[n - 1], q[n]) ELSE first[n - 1]
  IN first

Among(q, S) == Filtered(q, S)[Len(q)]
=============================================================================
