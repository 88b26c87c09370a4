--------------------------- MODULE MCProductLifecycle ---------------------------
(* Instances of ProductLifecycle for TLC. *)
EXTENDS ProductLifecycle, TLC

Interchangeable == Permutations(Sellers) \union Permutations(Calls) \union Permutations(Skus)
=============================================================================
