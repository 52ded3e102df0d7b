------------------------------ MODULE MCServer ------------------------------
(* Instances of Server for TLC. *)
EXTENDS Server, TLC

CONSTANTS c1, c2, ada, alan, k1

MCConnPair == {c1, c2}
MCConnOne  == {c1}
MCUsers    == {ada, alan}
MCTarget   == (k1 :> ada)
NoTarget   == <<>>

ConnSymmetry == Permutations(MCConnPair)
=============================================================================
