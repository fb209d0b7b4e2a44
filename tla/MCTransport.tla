---------------------------- MODULE MCTransport ----------------------------
(* Instances of TransportConnection.                                       *)
EXTENDS TransportConnection, TLC

Symmetry == Permutations(Observers)
=============================================================================
