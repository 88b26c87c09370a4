----------------------------- MODULE EventChannel -----------------------------
(***************************************************************************)
(* What the services behind the event bus count on: every event that was   *)
(* sent is in the log at some time, perhaps more than once, and never      *)
(* before an event that had been sent when it was made.                    *)
(***************************************************************************)
EXTENDS Naturals, Sequences

CONSTANT Events

VARIABLES
    sent,     \* the events that have been sent
    causes,   \* per event, the events that had been sent when it was made
    log       \* what the consumers read

channelVars == <<sent, causes, log>>

Logged(e) == \E p \in 1..Len(log) : log[p] = e

Init ==
    /\ sent = {}
    /\ causes = [e \in Events |-> {}]
    /\ log = <<>>

Send(e) ==
    /\ e \notin sent
    /\ sent' = sent \union {e}
    /\ \E earlier \in SUBSET sent : causes' = [causes EXCEPT ![e] = earlier]
    /\ UNCHANGED log

Deliver(e) ==
    /\ e \in sent
    /\ \A c \in causes[e] : Logged(c)
    /\ log' = Append(log, e)
    /\ UNCHANGED <<sent, causes>>

Next == \E e \in Events : Send(e) \/ Deliver(e)

Safety == Init /\ [][Next]_channelVars

FirstDelivery(e) == ~Logged(e) /\ Deliver(e)

Spec == Safety /\ \A e \in Events : WF_channelVars(FirstDelivery(e))
=============================================================================
