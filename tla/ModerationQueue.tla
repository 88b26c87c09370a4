--------------------------- MODULE ModerationQueue ---------------------------
(***************************************************************************)
(* The moderation service (services/moderation/moderation_api): the queue  *)
(* of review cards, the events that feed it, and the requests of the       *)
(* moderators who take a card and decide it.                               *)
(*                                                                         *)
(* PostgreSQL runs READ COMMITTED, so a handler is split where it reads    *)
(* rows it does not lock and later acts on what it read.  A statement that *)
(* meets a row locked by a running decision waits for it: here the step is *)
(* not enabled until the lock is gone.  The B2B service and the source of  *)
(* the events are the environment: events arrive in any order, any number  *)
(* of times, and B2B may answer anything, or nothing.                      *)
(***************************************************************************)
EXTENDS Naturals, FiniteSets

CONSTANTS
    Products,      \* product ids
    InStock,       \* the products whose snapshots show a live SKU in stock
    Moderators,    \* actors of moderator requests
    NoModerator,   \* assigned_to = None
    Requests,      \* request slots: one runs at most one HTTP request at a time
    Owner,         \* the moderator a request slot belongs to
    Workers,       \* event handlers: the stream consumer, the HTTP intake
    MaxCards,      \* bound: cards ever created
    MaxContent,    \* bound: content versions of a product (0: no snapshot)
    ManualTypes,   \* event types given by the manual enqueue endpoint
    Arrivals       \* the events that can arrive, in any order and any number

VARIABLES
    cards,    \* ModerationCard rows, numbered in the order of created_at
    req,      \* what each request slot is doing
    worker,   \* what each event handler is doing
    log,      \* ModerationEvent rows, as (card, action) pairs
    crowded   \* products that two may have created a card of at once (history)

queueVars == <<cards, req, worker, log, crowded>>

CardIds == 1..MaxCards
Actions == {"approve", "soft-block", "hard-block"}
CardTypes == {"CREATED", "UPDATED", "EDITED"}
OpenStatuses == {"PENDING", "IN_REVIEW"}
DecidedStatuses == {"APPROVED", "BLOCKED", "HARD_BLOCKED"}

(* "NONE": the id is not used yet; "GONE": the row was deleted.            *)
CardStatuses ==
    OpenStatuses \union DecidedStatuses \union {"ARCHIVED", "NONE", "GONE"}

(* timer: review_started_at, and whether MODERATION_IN_REVIEW_TIMEOUT has  *)
(* passed since.  touched: updated_at > review_started_at.                 *)
Card == [product : Products, status : CardStatuses, etype : CardTypes,
         prio : 1..4, assigned : Moderators \union {NoModerator},
         timer : {"none", "fresh", "stale"}, touched : BOOLEAN,
         content : 0..MaxContent, live : BOOLEAN]

(* An event after parse_event: its type ("OTHER" for the types that are    *)
(* kept raw), and of snapshot_after the product's status, content and      *)
(* whether it lists a live SKU.                                            *)
Events == [product : Products,
           type : {"CREATED", "UPDATED", "EDITED", "DELETED", "OTHER"},
           status : {"NONE", "CREATED", "ON_MODERATION", "MODERATED",
                     "BLOCKED", "HARD_BLOCKED"},
           live : BOOLEAN, content : 0..MaxContent]

ASSUME QueueAssumption ==
    /\ Products # {}
    /\ InStock \subseteq Products
    /\ NoModerator \notin Moderators
    /\ Owner \in [Requests -> Moderators]
    /\ MaxCards \in Nat
    /\ MaxContent \in Nat
    /\ ManualTypes \subseteq CardTypes
    /\ Arrivals \subseteq Events

AnyProduct == CHOOSE p \in Products : TRUE
NoEvent == [product |-> AnyProduct, type |-> "OTHER", status |-> "NONE",
            live |-> FALSE, content |-> 0]

IdleRequest == [pc |-> "idle", op |-> "none", card |-> 0,
                product |-> AnyProduct, held |-> {}]
IdleWorker == [pc |-> "idle", ev |-> NoEvent, seen |-> {}, inReview |-> FALSE]

RequestState ==
    [pc : {"idle", "picking", "opened", "deciding", "answered", "enqueueing"},
     op : Actions \union {"none"}, card : CardIds \union {0},
     product : Products, held : SUBSET CardIds]
WorkerState ==
    [pc : {"idle", "received", "deleting", "listing", "read", "pruning"},
     ev : Events, seen : SUBSET CardIds, inReview : BOOLEAN]

TypeOK ==
    /\ cards \in [CardIds -> Card]
    /\ req \in [Requests -> RequestState]
    /\ worker \in [Workers -> WorkerState]
    /\ log \in SUBSET (CardIds \X Actions)
    /\ crowded \subseteq Products

NoCard == [product |-> AnyProduct, status |-> "NONE",
           etype |-> "CREATED", prio |-> 1, assigned |-> NoModerator,
           timer |-> "none", touched |-> FALSE, content |-> 0, live |-> FALSE]

Init ==
    /\ cards = [c \in CardIds |-> NoCard]
    /\ req = [r \in Requests |-> IdleRequest]
    /\ worker = [w \in Workers |-> IdleWorker]
    /\ log = {}
    /\ crowded = {}

-----------------------------------------------------------------------------
(* Reading the queue.                                                      *)

CardsOf(p) == {c \in CardIds : cards[c].product = p /\ cards[c].status # "NONE"}
PendingOnly(p) == {c \in CardsOf(p) : cards[c].status = "PENDING"}   \* mutant
OpenCards(p) == {c \in CardsOf(p) : cards[c].status \in OpenStatuses}
HardBlocked(p) == \E c \in CardsOf(p) : cards[c].status = "HARD_BLOCKED"

(* Row locks held until commit: a decision holds its card FOR UPDATE, and  *)
(* get-next the stale reviews it has released.                             *)
Deciding(r) == req[r].pc \in {"deciding", "answered"}
Unlocked(c) == c \notin CardIds                                      \* mutant
Holds(r, c) == \/ Deciding(r) /\ req[r].card = c
               \/ c \in req[r].held
Locked(c) == \E r \in Requests : Holds(r, c)

Oldest(S) == CHOOSE c \in S : \A d \in S : c <= d

(* The id the next created card gets.                                      *)
IsNextCard(c) ==
    /\ cards[c].status = "NONE"
    /\ \A d \in CardIds : d < c => cards[d].status # "NONE"

ComputePriority(p, etype) ==
    IF etype = "CREATED" THEN 1
    ELSE IF \E c \in CardsOf(p) : cards[c].status = "BLOCKED" THEN 2
    ELSE IF p \in InStock THEN 3 ELSE 4

Deleted == [NoCard EXCEPT !.status = "GONE"]

NewCard(p, etype, content, live) ==
    [NoCard EXCEPT !.product = p, !.status = "PENDING", !.etype = etype,
                   !.prio = ComputePriority(p, etype),
                   !.content = content, !.live = live]

-----------------------------------------------------------------------------
(* Events: enqueue_from_event, run by the stream consumer or by the HTTP   *)
(* intake.                                                                 *)

StoredType(ev) == IF ev.type \in CardTypes THEN ev.type ELSE "EDITED"
OnlyNewProducts(ev) == ev.type = "CREATED" /\ ev.live                    \* mutant
RequiresModeration(ev) == ev.status = "ON_MODERATION" /\ ev.live

Receive(w, ev) ==
    /\ worker[w].pc = "idle"
    /\ worker' = [worker EXCEPT ![w].pc = "received", ![w].ev = ev]
    /\ UNCHANGED <<cards, req, log, crowded>>

(* A deleted product: every card is archived, HARD_BLOCKED ones included.  *)
ArchiveCards(w) ==
    /\ worker[w].pc = "received"
    /\ worker[w].ev.type = "DELETED"
    /\ LET mine == {c \in CardsOf(worker[w].ev.product) :
                      cards[c].status \notin {"ARCHIVED", "GONE"}}
       IN  /\ \A c \in mine : ~Locked(c)
           /\ cards' = [c \in CardIds |->
                          IF c \in mine
                          THEN [cards[c] EXCEPT !.status = "ARCHIVED"]
                          ELSE cards[c]]
    /\ worker' = [worker EXCEPT ![w] = IdleWorker]
    /\ UNCHANGED <<req, log, crowded>>

IgnoreHardBlocked(w) ==
    /\ worker[w].pc = "received"
    /\ worker[w].ev.type # "DELETED"
    /\ HardBlocked(worker[w].ev.product)
    /\ worker' = [worker EXCEPT ![w] = IdleWorker]
    /\ UNCHANGED <<cards, req, log, crowded>>

(* No card is hard blocked at this moment: the snapshot decides whether    *)
(* there is anything to review.                                            *)
RouteEvent(w) ==
    /\ worker[w].pc = "received"
    /\ worker[w].ev.type # "DELETED"
    /\ ~HardBlocked(worker[w].ev.product)
    /\ worker' = [worker EXCEPT ![w].pc =
                    IF RequiresModeration(worker[w].ev) THEN "listing" ELSE "deleting"]
    /\ UNCHANGED <<cards, req, log, crowded>>

DeleteOpenCards(w) ==
    /\ worker[w].pc = "deleting"
    /\ LET open == OpenCards(worker[w].ev.product)
       IN  /\ \A c \in open : ~Locked(c)
           /\ cards' = [c \in CardIds |-> IF c \in open THEN Deleted ELSE cards[c]]
    /\ worker' = [worker EXCEPT ![w] = IdleWorker]
    /\ UNCHANGED <<req, log, crowded>>

(* Handlers that have listed the product's open cards and will save one or *)
(* create one by that list.                                                *)
Listed(p) == {w \in Workers : worker[w].pc = "read" /\ worker[w].ev.product = p}
HasOpenCard(p) ==
    \E c \in CardIds : cards[c].product = p /\ cards[c].status \in OpenStatuses

(* The open cards are read without a lock ...                              *)
ReadOpenCards(w) ==
    /\ worker[w].pc = "listing"
    /\ LET open == OpenCards(worker[w].ev.product)
       IN  worker' = [worker EXCEPT
               ![w].pc = "read",
               ![w].seen = open,
               ![w].inReview = open # {} /\ cards[Oldest(open)].status = "IN_REVIEW"]
    /\ LET p == worker[w].ev.product
       IN  crowded' = IF Listed(p) # {} /\ ~HasOpenCard(p)
                      THEN crowded \union {p} ELSE crowded
    /\ UNCHANGED <<cards, req, log>>

(* ... and the oldest of them is saved with what was read: a card that was *)
(* in review keeps its holder when the seller edited the product, any      *)
(* other card goes back to PENDING.  The other open cards are deleted, one *)
(* by one.                                                                 *)
WithSnapshot(card, ev) ==
    [card EXCEPT !.etype = StoredType(ev), !.content = ev.content, !.live = ev.live,
                 !.prio = ComputePriority(ev.product, StoredType(ev))]

Requeued(card) == [card EXCEPT !.status = "PENDING", !.assigned = NoModerator,
                               !.timer = "none", !.touched = FALSE]

RefreshedKeepingHolder(card, ev, keepReview) ==                         \* mutant
    IF keepReview
    THEN [WithSnapshot(card, ev) EXCEPT !.touched = card.timer # "none"]
    ELSE [Requeued(WithSnapshot(card, ev)) EXCEPT !.assigned = card.assigned]
Refreshed(card, ev, keepReview) ==
    IF keepReview
    THEN [WithSnapshot(card, ev) EXCEPT !.touched = card.timer # "none"]
    ELSE Requeued(WithSnapshot(card, ev))

SaveOpenCard(w) ==
    /\ worker[w].pc = "read"
    /\ worker[w].seen # {}
    /\ LET ev == worker[w].ev
           first == Oldest(worker[w].seen)
           keep == worker[w].inReview /\ StoredType(ev) = "EDITED"
       IN  /\ cards[first].status # "GONE"
           /\ ~Locked(first)
           /\ cards' = [cards EXCEPT ![first] = Refreshed(@, ev, keep)]
           /\ worker' = [worker EXCEPT ![w].pc = "pruning",
                                       ![w].seen = @ \ {first}]
    /\ UNCHANGED <<req, log, crowded>>

DeleteDuplicate(w) ==
    /\ worker[w].pc = "pruning"
    /\ \E c \in worker[w].seen :
         /\ c = Oldest(worker[w].seen)
         /\ ~Locked(c)
         /\ cards' = [cards EXCEPT ![c] = Deleted]
         /\ worker' = [worker EXCEPT ![w].seen = @ \ {c}]
    /\ UNCHANGED <<req, log, crowded>>

FinishEvent(w) ==
    /\ worker[w].pc = "pruning"
    /\ worker[w].seen = {}
    /\ worker' = [worker EXCEPT ![w] = IdleWorker]
    /\ UNCHANGED <<cards, req, log, crowded>>

CreateCard(w) ==
    /\ worker[w].pc = "read"
    /\ worker[w].seen = {}
    /\ LET ev == worker[w].ev
       IN  \E c \in CardIds :
             /\ IsNextCard(c)
             /\ cards' = [cards EXCEPT ![c] =
                            NewCard(ev.product, StoredType(ev), ev.content, ev.live)]
    /\ worker' = [worker EXCEPT ![w] = IdleWorker]
    /\ UNCHANGED <<req, log, crowded>>

(* The row to save is gone: DatabaseError, and the event is dropped.       *)
SaveGoneCard(w) ==
    /\ worker[w].pc = "read"
    /\ worker[w].seen # {}
    /\ cards[Oldest(worker[w].seen)].status = "GONE"
    /\ worker' = [worker EXCEPT ![w] = IdleWorker]
    /\ UNCHANGED <<cards, req, log, crowded>>

(* Any other exception, or a crash of the handler: the event is dropped.   *)
DropEvent(w) ==
    /\ worker[w].pc # "idle"
    /\ worker' = [worker EXCEPT ![w] = IdleWorker]
    /\ UNCHANGED <<cards, req, log, crowded>>

HandleEvent(w) ==
    \/ ArchiveCards(w)
    \/ IgnoreHardBlocked(w)
    \/ RouteEvent(w)
    \/ DeleteOpenCards(w)
    \/ ReadOpenCards(w)
    \/ SaveOpenCard(w)
    \/ SaveGoneCard(w)
    \/ DeleteDuplicate(w)
    \/ FinishEvent(w)
    \/ CreateCard(w)

-----------------------------------------------------------------------------
(* get-next: acquire_next_card.                                            *)

ReviewTimeout(c) ==
    /\ cards[c].status = "IN_REVIEW"
    /\ cards[c].timer = "fresh"
    /\ cards' = [cards EXCEPT ![c].timer = "stale"]
    /\ UNCHANGED <<req, worker, log, crowded>>

AnyReview(c) == cards[c].status = "IN_REVIEW"                           \* mutant
IsStale(c) == cards[c].status = "IN_REVIEW" /\ cards[c].timer = "stale"

StaleCards == {c \in CardIds : IsStale(c)}

Released(S) ==
    [c \in CardIds |->
        IF c \in S THEN Requeued(cards[c]) ELSE cards[c]]

HasActiveReview(m) ==
    \E c \in CardIds : /\ cards[c].status = "IN_REVIEW"
                       /\ cards[c].assigned = m
                       /\ cards[c].timer = "fresh"

(* 409 MODERATOR_ALREADY_HAS_CARD; the stale reviews stay released.        *)
RefuseNextCard(r) ==
    /\ req[r].pc = "idle"
    /\ \A c \in StaleCards : ~Locked(c)
    /\ HasActiveReview(Owner[r])
    /\ cards' = Released(StaleCards)
    /\ UNCHANGED <<req, worker, log, crowded>>

(* The stale reviews are released, which locks their rows, and the         *)
(* moderator's own reviews are looked up without a lock ...                *)
CheckActiveReview(r) ==
    /\ req[r].pc = "idle"
    /\ \A c \in StaleCards : ~Locked(c)
    /\ ~HasActiveReview(Owner[r])
    /\ req' = [req EXCEPT ![r] = [@ EXCEPT !.pc = "picking", !.held = StaleCards]]
    /\ UNCHANGED <<cards, worker, log, crowded>>

(* ... then the oldest PENDING card of a priority queue is taken and       *)
(* saved, skipping the rows others have locked: of the queue the moderator *)
(* asked for, or of the first in which one of four queries, one per queue, *)
(* finds a card.  The save sets updated_at after review_started_at was     *)
(* computed.  No such card: 204.                                           *)
AcquireNextCard(r) ==
    /\ req[r].pc = "picking"
    /\ \E queue \in 1..4 :
         LET held == req[r].held
             released == Released(held)
             pending == {c \in CardIds :
                           /\ released[c].status = "PENDING"
                           /\ released[c].prio = queue
                           /\ c \in held \/ ~Locked(c)}
             first == Oldest(pending)
         IN  cards' = IF pending = {} THEN released
                      ELSE [released EXCEPT ![first].status = "IN_REVIEW",
                                            ![first].assigned = Owner[r],
                                            ![first].timer = "fresh",
                                            ![first].touched = TRUE]
    /\ req' = [req EXCEPT ![r] = IdleRequest]
    /\ UNCHANGED <<worker, log, crowded>>

-----------------------------------------------------------------------------
(* Decisions: approve_ticket, soft_block_ticket, hard_block_ticket.        *)

EditedDuringReview(card) ==
    /\ card.status = "IN_REVIEW"
    /\ card.etype = "EDITED"
    /\ card.timer # "none"
    /\ card.touched

MayAnyoneDecide(card, m, action) ==                                     \* mutant
    /\ card.status = "IN_REVIEW"
    /\ action = "approve" => card.live /\ ~EditedDuringReview(card)
MayDecide(card, m, action) ==
    /\ card.status = "IN_REVIEW"
    /\ card.assigned = m
    /\ action = "approve" => card.live /\ ~EditedDuringReview(card)

(* The product is checked for a hard block before the card is locked.      *)
OpenTicket(r, c, action) ==
    /\ req[r].pc = "idle"
    /\ cards[c].status \notin {"NONE", "GONE"}
    /\ ~HardBlocked(cards[c].product)
    /\ req' = [req EXCEPT ![r] =
                  [@ EXCEPT !.pc = "opened", !.op = action, !.card = c]]
    /\ UNCHANGED <<cards, worker, log, crowded>>

(* A decision with the idempotency key of this card and action is logged.  *)
NeverLogged(r) == req[r].card \notin CardIds                           \* mutant
AlreadyLogged(r) == <<req[r].card, req[r].op>> \in log

(* The card is locked and validated; the decision leaves for B2B while the *)
(* lock is held.                                                           *)
LockTicket(r) ==
    /\ req[r].pc = "opened"
    /\ ~Locked(req[r].card)
    /\ MayDecide(cards[req[r].card], Owner[r], req[r].op)
    /\ ~AlreadyLogged(r)
    /\ req' = [req EXCEPT ![r].pc = "deciding"]
    /\ UNCHANGED <<cards, worker, log, crowded>>

(* 403, 404, 409, or a decision that is already logged: nothing changes.   *)
RefuseTicket(r) ==
    /\ req[r].pc = "opened"
    /\ ~Locked(req[r].card)
    /\ \/ ~MayDecide(cards[req[r].card], Owner[r], req[r].op)
       \/ AlreadyLogged(r)
    /\ req' = [req EXCEPT ![r] = IdleRequest]
    /\ UNCHANGED <<cards, worker, log, crowded>>

(* B2B answered 2xx.                                                       *)
Answered(r) ==
    /\ req[r].pc = "deciding"
    /\ req' = [req EXCEPT ![r].pc = "answered"]
    /\ UNCHANGED <<cards, worker, log, crowded>>

(* A timeout, a connection error, 404 or another refusal of B2B, a crash   *)
(* of the service at any point: the transaction is rolled back, and what   *)
(* was to be decided stays in review.                                      *)
NoTimeout(r) ==                                                         \* mutant
    /\ req[r].pc \notin {"idle", "deciding"}
    /\ req' = [req EXCEPT ![r] = IdleRequest]
    /\ UNCHANGED <<cards, worker, log, crowded>>
AbandonRequest(r) ==
    /\ req[r].pc # "idle"
    /\ req' = [req EXCEPT ![r] = IdleRequest]
    /\ UNCHANGED <<cards, worker, log, crowded>>

DeclinedStatus(action) ==                                               \* mutant
    IF action = "approve" THEN "APPROVED" ELSE "DECLINED"
DecidedStatus(action) ==
    CASE action = "approve"    -> "APPROVED"
      [] action = "soft-block" -> "BLOCKED"
      [] OTHER                 -> "HARD_BLOCKED"

CommitDecision(r) ==
    /\ req[r].pc = "answered"
    /\ cards' = [cards EXCEPT ![req[r].card].status = DecidedStatus(req[r].op),
                              ![req[r].card].assigned = NoModerator,
                              ![req[r].card].timer = "none",
                              ![req[r].card].touched = FALSE]
    /\ log' = log \union {<<req[r].card, req[r].op>>}
    /\ req' = [req EXCEPT ![r] = IdleRequest]
    /\ UNCHANGED <<worker, crowded>>

-----------------------------------------------------------------------------
(* Manual enqueue: the product is checked, then a card is created whether  *)
(* or not one is open.                                                     *)
CheckEnqueue(r, p) ==
    /\ req[r].pc = "idle"
    /\ ManualTypes # {}
    /\ ~HardBlocked(p)
    /\ req' = [req EXCEPT ![r] = [@ EXCEPT !.pc = "enqueueing", !.product = p]]
    /\ UNCHANGED <<cards, worker, log, crowded>>

EnqueueManually(r, etype, content, live) ==
    /\ req[r].pc = "enqueueing"
    /\ \E c \in CardIds :
         /\ IsNextCard(c)
         /\ cards' = [cards EXCEPT ![c] = NewCard(req[r].product, etype, content, live)]
    /\ LET p == req[r].product
       IN  crowded' = IF Listed(p) # {} \/ HasOpenCard(p)
                      THEN crowded \union {p} ELSE crowded
    /\ req' = [req EXCEPT ![r] = IdleRequest]
    /\ UNCHANGED <<worker, log>>

-----------------------------------------------------------------------------
ModeratorStep(r) ==
    \/ RefuseNextCard(r)
    \/ CheckActiveReview(r)
    \/ AcquireNextCard(r)
    \/ \E c \in CardIds, action \in Actions : OpenTicket(r, c, action)
    \/ LockTicket(r)
    \/ RefuseTicket(r)
    \/ AbandonRequest(r)
    \/ CommitDecision(r)
    \/ \E p \in Products : CheckEnqueue(r, p)
    \/ \E etype \in ManualTypes, content \in 0..MaxContent, live \in BOOLEAN :
         EnqueueManually(r, etype, content, live)

Next ==
    \/ \E w \in Workers, ev \in Arrivals : Receive(w, ev)
    \/ \E w \in Workers : HandleEvent(w) \/ DropEvent(w)
    \/ \E c \in CardIds : ReviewTimeout(c)
    \/ \E r \in Requests : ModeratorStep(r) \/ Answered(r)

Spec == Init /\ [][Next]_queueVars

(* The handlers go on; a request for a row lock is served in turn, so a    *)
(* statement that finds its rows free again and again is run; a call to    *)
(* B2B ends, at the latest with B2B_REQUEST_TIMEOUT.                       *)
FairSpec ==
    /\ Spec
    /\ \A w \in Workers : SF_queueVars(HandleEvent(w))
    /\ \A r \in Requests : WF_queueVars(ModeratorStep(r) /\ req[r].pc # "idle")

-----------------------------------------------------------------------------
(* Properties.                                                             *)

(* An open card is in review exactly when a moderator holds it and its     *)
(* review clock runs: no path (get-next, stale release, seller edit,       *)
(* re-enqueue, rollback) leaves a card that nobody can take or decide.     *)
OpenCardHolder ==
    \A c \in CardIds :
        cards[c].status \in OpenStatuses =>
            /\ cards[c].status = "IN_REVIEW" <=> cards[c].assigned # NoModerator
            /\ cards[c].status = "IN_REVIEW" <=> cards[c].timer # "none"

(* While a decision is on its way to B2B its card stays in review with the *)
(* moderator who decided it, and no second decision on that card is on its *)
(* way: the row lock of _get_in_review_card covers the remote call.        *)
DecisionExclusive ==
    \A r \in Requests : Deciding(r) =>
        /\ cards[req[r].card].status = "IN_REVIEW"
        /\ cards[req[r].card].assigned = Owner[r]
        /\ \A q \in Requests \ {r} : Deciding(q) => req[q].card # req[r].card

(* A card that is under review and not timed out leaves its holder only by *)
(* the holder's own decision or by an event for its product: no get-next   *)
(* of anybody, and no decision of another moderator, takes it away.        *)
FreshReviewKept ==
    [][\A c \in CardIds :
         /\ cards[c].status = "IN_REVIEW"
         /\ cards[c].timer = "fresh"
         /\ cards'[c].assigned # cards[c].assigned
         => \/ \E r \in Requests :
                  /\ Owner[r] = cards[c].assigned
                  /\ req[r].pc = "answered" /\ req[r].card = c
            \/ \E w \in Workers :
                  worker'[w] # worker[w] /\ worker[w].ev.product = cards[c].product
      ]_queueVars

(* A review that ran into its timeout is never decided by whoever held it  *)
(* before the card was given to somebody else: every decision is committed *)
(* by the moderator the card is assigned to at that moment, and on a card  *)
(* whose snapshot, for an approval, lists a live SKU.                      *)
DecidedByHolder ==
    [][\A c \in CardIds, a \in Actions :
         <<c, a>> \in log' \ log =>
            /\ cards[c].status = "IN_REVIEW"
            /\ a = "approve" => cards[c].live
            /\ \E r \in Requests : /\ req[r].card = c /\ req[r].op = a
                                   /\ Owner[r] = cards[c].assigned
      ]_queueVars

(* A logged decision is never taken a second time with the same action.    *)
DecidedOnce ==
    [][\A c \in CardIds :
         cards[c].status \in OpenStatuses /\ cards'[c].status \in DecidedStatuses
         => \E a \in Actions : /\ DecidedStatus(a) = cards'[c].status
                               /\ <<c, a>> \notin log
      ]_queueVars

(* A product has at most one open card, whatever its events and however    *)
(* many handlers take them, and however its cards are decided, timed out,  *)
(* released or deleted in between.  The code lets a second one appear in   *)
(* two ways, and this says there is no third: a handler finds no open card *)
(* while another has the product's open cards listed, or a moderator       *)
(* enqueues by hand a product that has an open card or whose open cards a  *)
(* handler has listed.                                                     *)
OneOpenCard == \A p \in Products \ crowded : \A c, d \in CardIds :
    /\ cards[c].product = p /\ cards[c].status \in OpenStatuses
    /\ cards[d].product = p /\ cards[d].status \in OpenStatuses
    => c = d

(* An event a handler has received is done with, although its card may be  *)
(* locked again and again by decisions that wait for B2B.  (A card that    *)
(* the bound MaxCards does not let it create counts as done.)              *)
OutOfIds(w) == /\ worker[w].pc = "read" /\ worker[w].seen = {}
               /\ \A c \in CardIds : cards[c].status # "NONE"
EventHandled ==
    \A w \in Workers :
        worker[w].pc = "received" ~> (worker[w].pc = "idle" \/ OutOfIds(w))
=============================================================================
