----------------------------- MODULE MCHandshake -----------------------------
(* TLC instances of Handshake: every configuration of two ends over two     *)
(* secrets and two ids. *)
EXTENDS Handshake

CONSTANTS s1, s2, i1, i2

MCSecrets == {s1, s2}
MCIds == {i1, i2}
=============================================================================
