-------------------------- MODULE MCMessageWriter --------------------------
(* Model checking of MessageWriter.                                        *)
EXTENDS MessageWriter, TLC

(* The messages are interchangeable (runs without liveness only).          *)
Symmetry == Permutations(Messages)
=============================================================================
