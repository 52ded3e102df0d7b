------------------------------ MODULE MCFraming ------------------------------
(* Instances of Framing for TLC: two-byte bodies, payloads whose bytes tell *)
(* their places apart, of every length from none to two packets and a bit. *)
EXTENDS Framing

CONSTANTS b1, b2, b3, b4, b5

Bytes == {b1, b2, b3, b4, b5}
Payloads == {SubSeq(<<b1, b2, b3, b4, b5>>, 1, n) : n \in 0..5}
=============================================================================
