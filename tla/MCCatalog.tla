------------------------------- MODULE MCCatalog -------------------------------
(* A small instance of Catalog for TLC: a product with two SKUs and others *)
(* with one, and queries that tell the filters apart.                      *)
EXTENDS Catalog

CONSTANTS p1, p2, k1, k2

Red == <<"color", "red">>
Blue == <<"color", "blue">>
Large == <<"size", "L">>
Usb == <<"port", "USB">>
Hdmi == <<"port", "HDMI">>
Both == <<"port", "USB, HDMI">>
Soon == <<"availability", "soon">>
AllTraits == {Red, Blue, Large, Usb, Hdmi, Both, Soon}
Split == [t \in AllTraits |-> IF t = Both THEN {Usb, Hdmi} ELSE {t}]

Pair == [category |-> "shoes", skus |-> {k1, k2},
         price |-> [s \in {k1, k2} |-> IF s = k1 THEN 10 ELSE 90],
         traits |-> [s \in {k1, k2, Whole} |->
                       IF s = k1 THEN {Red} ELSE IF s = k2 THEN {Blue, Usb} ELSE {Large, Soon}]]
Single == [category |-> "hats", skus |-> {k1},
           price |-> [s \in {k1, k2} |-> 50],
           traits |-> [s \in {k1, k2, Whole} |-> IF s = Whole THEN {Red, Both} ELSE {}]]
Goods == [p \in Products |-> IF p = p1 THEN Pair ELSE Single]

(* The shopper's walk asks for twice the largest page, the synchronisation *)
(* for the largest page.                                                   *)
PageLimits == [op \in Operations |-> IF op = "list" THEN 2 * Cap ELSE Cap]
Tries == [op \in Operations |-> IF op = "list" THEN 1 ELSE 2]

(* The pair of shoes is asked for by its id.                               *)
ById == {{p1}}

Everything == [skuIds |-> {}, categories |-> {"shoes", "hats"}, found |-> Products,
               lo |-> 0, hi |-> 100, wanted |-> {}]
Asked ==
    {Everything,
     [Everything EXCEPT !.categories = {"shoes"}, !.lo = 40],
     [Everything EXCEPT !.hi = 20],
     [Everything EXCEPT !.wanted = {Red}],
     [Everything EXCEPT !.wanted = {Red, Large, Soon}],
     [Everything EXCEPT !.wanted = Split[Both]],
     [Everything EXCEPT !.skuIds = {k2}, !.wanted = {Red, Blue}],
     [Everything EXCEPT !.found = {p2}]}
=============================================================================
