-------------------------- MODULE MCMessageReader --------------------------
(* Model checking of MessageReader.                                        *)
EXTENDS MessageReader

(* A body that ends with its size word, one shorter and one longer than it. *)
Bodies == {0, 1, 3}
=============================================================================
