------------------------------ MODULE MCInventory ------------------------------
(* Instances of Inventory for TLC. *)
EXTENDS Inventory, TLC

CONSTANTS s1, s2, o1, o2, c1, c2, x1, i1

Row(sum, top) == [sum |-> sum, top |-> top]
Of(s, row) == [NoItems EXCEPT ![s] = row]

(* One unit of the first SKU, or of every SKU. *)
Single == {Of(s1, Row(1, 1))}
OneOrAll == {Of(s1, Row(1, 1)), [s \in Skus |-> Row(1, 1)]}

(* An invoice of one unit of every SKU. *)
OneEach == {[s \in Skus |-> 1]}

Interchangeable ==
    Permutations(Clients) \union Permutations(Orders) \union Permutations(Sellers)
        \union Permutations(Invoices)
=============================================================================
