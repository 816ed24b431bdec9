------------------------------- MODULE MCLink -------------------------------
(* Model checking of Link.                                                 *)
EXTENDS Link, TLC

(* The messages of the sender, and the buffers of the receiver, are        *)
(* interchangeable (runs without liveness only).                           *)
Symmetry == Permutations(Messages) \cup Permutations(Buffers)
=============================================================================
