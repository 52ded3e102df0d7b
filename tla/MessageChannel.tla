---------------------------- MODULE MessageChannel ----------------------------
(***************************************************************************)
(* What the framing layer promises the layers above it: whole messages,    *)
(* unchanged, in order, each at most once.  A connection may die at any    *)
(* time; then the reader has a prefix of what the writer sent.             *)
(***************************************************************************)
EXTENDS Sequences, Naturals

CONSTANT Message

VARIABLES sent, got

Init == sent = <<>> /\ got = <<>>

Send == \E m \in Message : sent' = Append(sent, m) /\ got' = got

Receive ==
  /\ Len(got) < Len(sent)
  /\ got' = Append(got, sent[Len(got) + 1])
  /\ sent' = sent

Spec == Init /\ [][Send \/ Receive]_<<sent, got>>
=============================================================================
