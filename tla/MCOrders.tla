------------------------------- MODULE MCOrders -------------------------------
(* Instances of Orders for TLC. *)
EXTENDS Orders, TLC

Interchangeable == Permutations(Keys) \union Permutations(Buyers)
                   \union Permutations(Admins) \union Permutations(Retries)
=============================================================================
