------------------------------- MODULE DecisionLog -------------------------------
(***************************************************************************)
(* What B2B promises moderation and the seller about one product: every    *)
(* decision is taken at most once, and the product stands where the last   *)
(* decision put it until the seller opens the question again.              *)
(***************************************************************************)
EXTENDS Sequences

CONSTANT Decisions   \* the decisions moderation may send; verdict: where one puts the product

VARIABLES
    log,        \* the decisions taken, in order
    standing    \* "open", or where the last decision put the product

logVars == <<log, standing>>

Taken(d) == \E i \in DOMAIN log : log[i] = d

Init == log = <<>> /\ standing = "open"

Take(d) ==
    /\ ~Taken(d)
    /\ log' = Append(log, d)
    /\ standing' = d.verdict

Reopen == standing' = "open" /\ UNCHANGED log

Next == Reopen \/ \E d \in Decisions : Take(d)

Spec == Init /\ [][Next]_logVars
=============================================================================
