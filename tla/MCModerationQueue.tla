------------------------- MODULE MCModerationQueue -------------------------
(* Small instances of ModerationQueue for TLC: one product, one or two     *)
(* moderators, and the shapes of event that B2B writes to its outbox.      *)
EXTENDS ModerationQueue, TLC

CONSTANTS p1, m1, m2, r1, r2

(* Two moderators with one request each ...                                *)
OwnerTwo == [r \in {r1, r2} |-> IF r = r1 THEN m1 ELSE m2]
(* ... or one moderator with one.                                          *)
OwnerOne == [r \in {r1} |-> m1]

Shape(type, status, live) ==
    [product |-> p1, type |-> type, status |-> status, live |-> live,
     content |-> 0]

Edited == Shape("EDITED", "ON_MODERATION", TRUE)
Created == Shape("CREATED", "ON_MODERATION", TRUE)

(* A seller submits the product, edits it and sells its last SKU (an event *)
(* without a snapshot), ...                                                *)
Submissions == {Created, Edited, Shape("OTHER", "NONE", FALSE)}
(* ... or edits and deletes it.                                            *)
Edits == {Edited, Shape("DELETED", "ON_MODERATION", FALSE)}

(* Event handlers are interchangeable, and moderators with their requests. *)
Handlers == Permutations(Workers)
Reviewers == {(m1 :> m2) @@ (m2 :> m1) @@ (r1 :> r2) @@ (r2 :> r1)}
=============================================================================
