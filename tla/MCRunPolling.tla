---------------------------- MODULE MCRunPolling ----------------------------
(* Instances of RunPolling for TLC: the workflows w1 and w2. *)
EXTENDS RunPolling

CONSTANTS w1, w2
=============================================================================
