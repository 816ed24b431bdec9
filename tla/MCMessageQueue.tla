--------------------------- MODULE MCMessageQueue ---------------------------
(* Model checking of MessageQueue.                                         *)
EXTENDS MessageQueue, TLC

(* The messages are interchangeable.                                       *)
Symmetry == Permutations(Messages)

(* init() ran.                                                             *)
Initialised == {0}

(* init() ran, or the memory held a one or a two.                          *)
Uninitialised == {0, 1, 2}
=============================================================================
