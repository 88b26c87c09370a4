-------------------------------- MODULE MCCart --------------------------------
(* Instances of Cart for TLC. *)
EXTENDS Cart, TLC

Interchangeable == Permutations(Requests)
=============================================================================
