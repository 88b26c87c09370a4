------------------------- MODULE MCModerationPipeline -------------------------
(* Instances of ModerationPipeline for TLC: one moderator with one request. *)
EXTENDS ModerationPipeline

CONSTANTS m1, r1

OwnerOne == [r \in {r1} |-> m1]
=============================================================================
