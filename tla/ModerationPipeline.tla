--------------------------- MODULE ModerationPipeline ---------------------------
(***************************************************************************)
(* One product between its seller, B2B and moderation: ProductLifecycle    *)
(* writes outbox rows, the rows reach ModerationQueue in their order, and  *)
(* a moderator's decision goes back to ProductLifecycle as a call made     *)
(* under the row lock of the card.                                         *)
(*                                                                         *)
(* The components take their own steps.  What is added here is what passes *)
(* between them: which row the consumer has reached, what a row's snapshot *)
(* says about the product's content and SKUs, and whether the call of a    *)
(* decision has left.  Rows arrive once and in order (EventDelivery        *)
(* says when they do), with any delay; the seller has one request at a     *)
(* time (ProductLifecycle has several).                                    *)
(***************************************************************************)
EXTENDS Naturals, Sequences, FiniteSets

CONSTANTS
    Product,       \* the product's id
    Skus,          \* SKUs the product may ever have
    Seller,        \* the seller's request
    Moderators,    \* actors of moderator requests
    NoModerator,   \* assigned_to = None
    Requests,      \* request slots of the moderators
    Owner,         \* the moderator a request slot belongs to
    Consumer,      \* the stream consumer of moderation
    Calls,         \* calls of moderation that B2B may be working on
    NoDecision,    \* a call that is not under way
    MaxRows,       \* bound: outbox rows ever written
    MaxCards,      \* bound: cards ever created
    MaxContent,    \* bound: versions of the product's content
    ManualTypes    \* event types given by the manual enqueue endpoint

VARIABLES
    product, sku, outbox, inbox, seller, call,    \* ProductLifecycle
    cards, req, worker, log, crowded,             \* ModerationQueue
    content,    \* version of the product's title, description, images ...
    carried,    \* what the snapshot of each outbox row says of content and SKUs
    reached,    \* number of outbox rows the consumer has received
    sent,       \* the requests whose decision B2B has received
    byHand      \* cards enqueued by hand since the last row arrived (history)

B2B == INSTANCE ProductLifecycle WITH
           Sellers <- {Seller}, Tickets <- 1..MaxCards

Queue == INSTANCE ModerationQueue WITH
             Products <- {Product}, InStock <- {Product},
             Workers <- {Consumer}, Arrivals <- {}

b2bVars == <<product, sku, outbox, inbox, seller, call>>
queueVars == <<cards, req, worker, log, crowded>>
linkVars == <<content, carried, reached, sent, byHand>>
pipelineVars == <<b2bVars, queueVars, linkVars>>

ASSUME PipelineAssumption ==
    /\ Skus # {}
    /\ NoModerator \notin Moderators
    /\ Owner \in [Requests -> Moderators]
    /\ MaxRows \in Nat /\ MaxCards \in Nat /\ MaxContent \in Nat \ {0}
    /\ NoDecision \notin B2B!Decisions
    /\ ManualTypes \subseteq Queue!CardTypes

TypeOK ==
    /\ B2B!TypeOK
    /\ Queue!TypeOK
    /\ content \in 0..MaxContent
    /\ carried \in Seq([content : 0..MaxContent, live : BOOLEAN])
    /\ Len(carried) = Len(outbox)
    /\ reached \in 0..Len(outbox)
    /\ sent \in [Requests -> BOOLEAN]
    /\ byHand \subseteq Queue!CardIds

Init ==
    /\ B2B!Init
    /\ Queue!Init
    /\ content = 0
    /\ carried = <<>>
    /\ reached = 0
    /\ sent = [r \in Requests |-> FALSE]
    /\ byHand = {}

-----------------------------------------------------------------------------
(* B2B.                                                                    *)

(* The rows a step of B2B writes carry what the product is after the step. *)
Carry ==
    carried' = carried \o
        [i \in 1..(Len(outbox') - Len(outbox)) |->
            [content |-> content', live |-> B2B!Live' # {}]]

Create ==
    /\ B2B!CreateProduct
    /\ content' = 1
    /\ Carry
    /\ UNCHANGED <<queueVars, reached, sent, byHand>>

Edited == seller[Seller].op = "edit" /\ outbox' # outbox
SellerStep ==
    /\ B2B!SellerStep(Seller)
    /\ content' = IF Edited THEN content + 1 ELSE content
    /\ content' <= MaxContent
    /\ Carry
    /\ UNCHANGED <<queueVars, reached, sent, byHand>>

(* B2B applies the decision it was sent, or fails to.  The client may have *)
(* stopped waiting for it.                                                 *)
CallStep(c) ==
    /\ B2B!Decide(c) \/ B2B!CallFails(c)
    /\ UNCHANGED content
    /\ Carry
    /\ UNCHANGED <<queueVars, reached, sent, byHand>>

-----------------------------------------------------------------------------
(* From the outbox to the queue.                                           *)

(* parse_event of a row.  The rows for the shops have no snapshot, and     *)
(* B2B_PRODUCT_URL_TEMPLATE is empty in every deployment of the repository.*)
(* The row of a deletion for the shops says DELETED too.                   *)
EventOf(i) ==
    IF outbox[i].event \in B2B!SnapshotEvents
    THEN [product |-> Product, type |-> outbox[i].event,
          status |-> outbox[i].snapshot.status,
          live |-> carried[i].live, content |-> carried[i].content]
    ELSE [Queue!NoEvent EXCEPT !.type = IF outbox[i].event = "PRODUCT_DELETED"
                                        THEN "DELETED" ELSE @]

Deliver ==
    /\ reached < Len(outbox)
    /\ Queue!Receive(Consumer, EventOf(reached + 1))
    /\ reached' = reached + 1
    /\ byHand' = {}
    /\ UNCHANGED <<b2bVars, content, carried, sent>>

Handle ==
    /\ Queue!HandleEvent(Consumer)
    /\ UNCHANGED <<b2bVars, linkVars>>

-----------------------------------------------------------------------------
(* From the queue to B2B: the call of send_moderation_decision.            *)

Verdict(action) ==
    CASE action = "approve"    -> "MODERATED"
      [] action = "soft-block" -> "BLOCKED"
      [] OTHER                 -> "HARD_BLOCKED"
DecisionOf(r) == [ticket |-> req[r].card, verdict |-> Verdict(req[r].op)]

Send(r, c) ==
    /\ req[r].pc = "deciding"
    /\ ~sent[r]
    /\ B2B!Deliver(c, DecisionOf(r))
    /\ sent' = [sent EXCEPT ![r] = TRUE]
    /\ UNCHANGED <<queueVars, content, carried, reached, byHand>>

(* 2xx: B2B has recorded the decision, now or when it was sent before.     *)
AnswerAnything(r) ==                                                    \* mutant
    /\ Queue!Answered(r)
    /\ UNCHANGED <<b2bVars, linkVars>>
Answer(r) ==
    /\ B2B!Recorded(DecisionOf(r))
    /\ Queue!Answered(r)
    /\ UNCHANGED <<b2bVars, linkVars>>

(* A request that ends, whatever way, forgets the call it made.  The cards *)
(* that a moderator's step adds are those of the manual endpoint.          *)
ModeratorStep(r) ==
    /\ Queue!ModeratorStep(r)
    /\ sent' = [sent EXCEPT ![r] = @ /\ req'[r].pc # "idle"]
    /\ byHand' = byHand \union
           {c \in Queue!CardIds : cards[c].status = "NONE" /\ cards'[c].status # "NONE"}
    /\ UNCHANGED <<b2bVars, content, carried, reached>>

ReviewTimeout ==
    /\ \E c \in Queue!CardIds : Queue!ReviewTimeout(c)
    /\ UNCHANGED <<b2bVars, linkVars>>

-----------------------------------------------------------------------------
Next ==
    \/ Create
    \/ SellerStep
    \/ \E c \in Calls : CallStep(c)
    \/ Deliver
    \/ Handle
    \/ \E r \in Requests, c \in Calls : Send(r, c)
    \/ \E r \in Requests : Answer(r) \/ ModeratorStep(r)
    \/ ReviewTimeout

Spec == Init /\ [][Next]_pipelineVars

(* The consumer goes on reading and handling; a statement that finds its   *)
(* rows free again and again is run; requests and calls end, at the latest *)
(* with a timeout.                                                         *)
FairSpec ==
    /\ Spec
    /\ WF_pipelineVars(Deliver)
    /\ SF_pipelineVars(Handle)
    /\ \A r \in Requests : WF_pipelineVars(ModeratorStep(r) /\ req[r].pc # "idle")

-----------------------------------------------------------------------------
(* Properties.                                                             *)

(* No decision is logged by moderation that B2B has not recorded, whatever *)
(* calls time out, fail or are repeated.                                   *)
LogRecorded ==
    \A d \in log : B2B!Recorded([ticket |-> d[1], verdict |-> Verdict(d[2])])

OpenCard == Queue!OpenCards(Product) # {}
NothingUnderWay ==
    /\ reached = Len(outbox)
    /\ worker[Consumer].pc = "idle"
    /\ \A r \in Requests : req[r].pc = "idle"

(* When every row has been handled, moderators are shown a card only of a  *)
(* product whose last row with a snapshot asks for a review: the row of a  *)
(* decision whose answer was lost takes back the card it left in review,   *)
(* and an older one that was enqueued by hand.  A card that is enqueued by *)
(* hand after the last row arrived is the moderator's own doing.           *)
LastSnapshot(i) ==
    /\ outbox[i].event \in B2B!SnapshotEvents
    /\ \A j \in DOMAIN outbox : j > i => outbox[j].event \notin B2B!SnapshotEvents
QueueFollows ==
    /\ NothingUnderWay /\ ~Queue!HardBlocked(Product)
    /\ Queue!OpenCards(Product) \ byHand # {}
    => \E i \in DOMAIN outbox : LastSnapshot(i) /\ Queue!RequiresModeration(EventOf(i))

(* Whatever a seller's edits, lost answers, repeated calls and timeouts    *)
(* did in between: when every row has been handled, a product that awaits  *)
(* a review has a card that shows what the seller last wrote, unless the   *)
(* queue holds it for hard blocked.  An edit that overtakes the commit of  *)
(* a decision does not revive or lose the card, because the row of the     *)
(* decision is handled before its own.                                     *)
AwaitsReview ==
    product.status = "ON_MODERATION" /\ ~product.deleted /\ B2B!Live # {}
Requeued ==
    NothingUnderWay /\ AwaitsReview /\ ~Queue!HardBlocked(Product) =>
        \E c \in Queue!OpenCards(Product) : cards[c].content = content

(* And it does get one, as long as the consumer runs.  (A card that the    *)
(* bound MaxCards does not let it create counts as one.)                   *)
SubmissionQueued ==
    AwaitsReview ~> \/ OpenCard \/ Queue!OutOfIds(Consumer)
                    \/ ~AwaitsReview \/ Queue!HardBlocked(Product)

(* Every row the consumer has received is done with.                       *)
EventHandled == Queue!EventHandled
=============================================================================
