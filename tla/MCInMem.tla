------------------------------- MODULE MCInMem -------------------------------
(* Instances of InMem for TLC *)
EXTENDS InMem, TLC

CONSTANTS t1, t2, a, b, r1

Symmetric == Permutations({t1, t2}) \cup Permutations({a, b})
=============================================================================
