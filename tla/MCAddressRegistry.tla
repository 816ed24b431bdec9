------------------------- MODULE MCAddressRegistry -------------------------
(* Model checking of AddressRegistry.                                      *)
EXTENDS AddressRegistry, TLC

(* Ids are numbers: two buckets, one with a chain of up to three nodes.    *)
Numbers == {1, 2, 3, 5}
Bytes == [i \in Numbers |-> i + 4096]
LessThan == {p \in Numbers \X Numbers : p[1] < p[2]}

(* The memory of the nodes is interchangeable.                             *)
Symmetry == Permutations(Nodes)
=============================================================================
