------------------------ MODULE ModerationQueue_proofs ------------------------
(***************************************************************************)
(* Proofs about ModerationQueue, for any number of products, moderators,   *)
(* requests, event handlers and cards.  The row locks are what the safety  *)
(* of the decisions rests on: IInv adds to the two invariants the runs     *)
(* check that a row is locked by one request at most, that only a get-next *)
(* holds released reviews, and that a deciding request names a card.       *)
(***************************************************************************)
EXTENDS ModerationQueue, WellFoundedInduction, TLAPS

LockedByOne ==
    \A r, q \in Requests, c \in CardIds : Holds(r, c) /\ Holds(q, c) => r = q

RequestShape ==
    \A r \in Requests : /\ req[r].held # {} => req[r].pc = "picking"
                        /\ Deciding(r) \/ req[r].pc = "opened"
                           => req[r].card \in CardIds /\ req[r].op \in Actions

LockedReviews ==
    \A r \in Requests :
        /\ Deciding(r) => /\ cards[req[r].card].status = "IN_REVIEW"
                         /\ cards[req[r].card].assigned = Owner[r]
        /\ \A c \in req[r].held : cards[c].status = "IN_REVIEW"

IInv == TypeOK /\ OpenCardHolder /\ LockedByOne /\ RequestShape /\ LockedReviews

-----------------------------------------------------------------------------
(* Types.                                                                  *)

LEMMA AnyProductType == AnyProduct \in Products
  BY QueueAssumption DEF AnyProduct, QueueAssumption

LEMMA NoCardType == NoCard \in Card
<1>1. "NONE" \in CardStatuses /\ "CREATED" \in CardTypes
  BY DEF CardStatuses, CardTypes
<1> QED
  BY <1>1, AnyProductType, QueueAssumption DEF NoCard, Card, QueueAssumption

LEMMA DeletedType == Deleted \in Card
  BY NoCardType DEF Deleted, Card, CardStatuses

LEMMA NoEventType == NoEvent \in Events
  BY AnyProductType, QueueAssumption DEF NoEvent, Events, QueueAssumption

(* compute_priority_queue yields one of the four queues.                   *)
LEMMA PriorityType ==
    ASSUME NEW p, NEW etype
    PROVE  ComputePriority(p, etype) \in 1..4
  BY DEF ComputePriority

LEMMA RequeuedType ==
    ASSUME NEW card \in Card
    PROVE  Requeued(card) \in Card
  BY DEF Requeued, Card, CardStatuses, OpenStatuses

LEMMA RefreshedType ==
    ASSUME NEW card \in Card, NEW ev \in Events, NEW keep \in BOOLEAN
    PROVE  Refreshed(card, ev, keep) \in Card
<1>1. StoredType(ev) \in CardTypes
  BY DEF StoredType, CardTypes
<1>2. WithSnapshot(card, ev) \in Card
  BY <1>1, PriorityType DEF WithSnapshot, Card, Events
<1> QED
  BY <1>2, RequeuedType DEF Refreshed, Card

LEMMA NewCardType ==
    ASSUME NEW p \in Products, NEW etype \in CardTypes,
           NEW content \in 0..MaxContent, NEW live \in BOOLEAN
    PROVE  NewCard(p, etype, content, live) \in Card
  BY NoCardType, PriorityType DEF NewCard, Card, CardStatuses, OpenStatuses

(* The first row of an order_by("created_at", "id") is one of the rows.    *)
LEMMA OldestIn ==
    ASSUME NEW S \in SUBSET CardIds, S # {}
    PROVE  Oldest(S) \in S
<1> DEFINE R == OpToRel(<, Nat)
<1>1. S \subseteq Nat
  BY QueueAssumption DEF CardIds, QueueAssumption
<1>2. IsWellFoundedOn(R, Nat)
  BY NatLessThanWellFounded
<1>3. \A c, d \in Nat : d < c => <<d, c>> \in R
  BY DEF OpToRel
<1> HIDE DEF R
<1>4. PICK c \in S : \A d \in S : ~ (<<d, c>> \in R)
  BY <1>1, <1>2, WFMin
<1>5. ASSUME NEW d \in S
      PROVE  c <= d
  <2>1. c \in Nat /\ d \in Nat
    BY <1>1
  <2>2. ~(d < c)
    BY <2>1, <1>3, <1>4
  <2> QED
    BY <2>1, <2>2
<1> QED
  <2>1. \E x \in S : \A d \in S : x <= d
  BY <1>4, <1>5
<2>2. (CHOOSE x \in S : \A d \in S : x <= d) \in S
  BY ONLY <2>1, Zenon
<2> QED
  BY <2>2 DEF Oldest

-----------------------------------------------------------------------------
(* A step of an event handler that writes cards: no request moves, and the *)
(* rows that are locked keep their status and their holder.                *)

LEMMA LocksKept ==
    ASSUME IInv, UNCHANGED req,
           \A c \in CardIds : Locked(c) => /\ cards'[c].status = cards[c].status
                                          /\ cards'[c].assigned = cards[c].assigned
    PROVE  LockedByOne' /\ RequestShape' /\ LockedReviews'
<1>1. LockedByOne'
  BY DEF IInv, LockedByOne, Holds, Deciding
<1>2. RequestShape'
  BY DEF IInv, RequestShape, Deciding
<1>3. LockedReviews'
  BY DEF IInv, TypeOK, RequestState, WorkerState, LockedReviews, RequestShape, Locked, Holds, Deciding
<1> QED
  BY <1>1, <1>2, <1>3

(* A requeued card has neither a holder nor a running clock.               *)
LEMMA RequeuedHolder ==
    ASSUME NEW card \in Card
    PROVE  /\ Requeued(card).status = "PENDING"
           /\ Requeued(card).assigned = NoModerator
           /\ Requeued(card).timer = "none"
  BY DEF Requeued, Card

LEMMA RequeuedProduct ==
    ASSUME NEW card \in Card
    PROVE  /\ Requeued(card).product = card.product
           /\ Requeued(card).content = card.content
  BY DEF Requeued, Card

LEMMA RefreshedHolder ==
    ASSUME NEW card \in Card, NEW ev \in Events, NEW keep \in BOOLEAN
    PROVE  \/ /\ Refreshed(card, ev, keep).status = card.status
              /\ Refreshed(card, ev, keep).assigned = card.assigned
              /\ Refreshed(card, ev, keep).timer = card.timer
           \/ /\ Refreshed(card, ev, keep).status = "PENDING"
              /\ Refreshed(card, ev, keep).assigned = NoModerator
              /\ Refreshed(card, ev, keep).timer = "none"
<1>1. StoredType(ev) \in CardTypes
  BY DEF StoredType, CardTypes
<1>2. WithSnapshot(card, ev) \in Card
  BY <1>1, PriorityType DEF WithSnapshot, Card, Events
<1>3. /\ WithSnapshot(card, ev).status = card.status
      /\ WithSnapshot(card, ev).assigned = card.assigned
      /\ WithSnapshot(card, ev).timer = card.timer
  BY DEF WithSnapshot, Card
<1>4. CASE keep
  BY <1>2, <1>3, <1>4 DEF Refreshed, Card
<1>5. CASE ~keep
  BY <1>2, <1>5, RequeuedHolder DEF Refreshed
<1> QED
  BY <1>4, <1>5

LEMMA NewCardHolder ==
    ASSUME NEW p, NEW etype, NEW content, NEW live
    PROVE  /\ NewCard(p, etype, content, live).status = "PENDING"
           /\ NewCard(p, etype, content, live).assigned = NoModerator
           /\ NewCard(p, etype, content, live).timer = "none"
  BY DEF NewCard, NoCard

LEMMA ReadStep ==
    ASSUME IInv, UNCHANGED <<cards, req, log>>,
           worker' \in [Workers -> WorkerState], crowded' \subseteq Products
    PROVE  IInv'
<1>1. TypeOK' /\ OpenCardHolder'
  BY DEF IInv, TypeOK, RequestState, WorkerState, OpenCardHolder
<1> QED
  BY <1>1, LocksKept DEF IInv

-----------------------------------------------------------------------------
(* The steps of an event handler.                                          *)

LEMMA IdleWorkerType ==
    IdleWorker \in WorkerState
  BY NoEventType DEF IdleWorker, WorkerState

LEMMA QuietSteps ==
    ASSUME IInv, NEW w \in Workers,
           \/ \E ev \in Arrivals : Receive(w, ev)
           \/ IgnoreHardBlocked(w) \/ RouteEvent(w) \/ ReadOpenCards(w)
           \/ SaveGoneCard(w) \/ FinishEvent(w) \/ DropEvent(w)
    PROVE  IInv'
<1>1. ASSUME NEW ev \in Arrivals, Receive(w, ev)
      PROVE  IInv'
  <2>1. ev \in Events
    BY QueueAssumption DEF QueueAssumption
  <2>2. worker' \in [Workers -> WorkerState]
    BY <1>1, <2>1 DEF Receive, IInv, TypeOK, WorkerState
  <2>3. UNCHANGED <<cards, req, log, crowded>>
    BY <1>1 DEF Receive
  <2> QED
    BY <2>2, <2>3, ReadStep DEF IInv, TypeOK
<1>2. CASE IgnoreHardBlocked(w)
  BY <1>2, ReadStep, IdleWorkerType DEF IgnoreHardBlocked, IInv, TypeOK, RequestState, WorkerState
<1>3. CASE RouteEvent(w)
  BY <1>3, ReadStep DEF RouteEvent, IInv, TypeOK, RequestState, WorkerState
<1>4. CASE ReadOpenCards(w)
  <2> DEFINE open == OpenCards(worker[w].ev.product)
             inReview == open # {} /\ cards[Oldest(open)].status = "IN_REVIEW"
  <2>1. open \in SUBSET CardIds
    BY DEF OpenCards, CardsOf
  <2>2. inReview \in BOOLEAN
    OBVIOUS
  <2>3. /\ worker' = [worker EXCEPT ![w].pc = "read", ![w].seen = open,
                                    ![w].inReview = inReview]
        /\ UNCHANGED <<cards, req, log>>
    BY <1>4 DEF ReadOpenCards
  <2>5. crowded' \subseteq Products
    BY <1>4 DEF ReadOpenCards, IInv, TypeOK, WorkerState, Events
  <2> HIDE DEF open, inReview
  <2>4. worker' \in [Workers -> WorkerState]
    BY <2>1, <2>2, <2>3, ZenonT(30) DEF IInv, TypeOK, RequestState, WorkerState
  <2> QED
    BY <2>3, <2>4, <2>5, ReadStep
<1>5. CASE SaveGoneCard(w)
  BY <1>5, ReadStep, IdleWorkerType DEF SaveGoneCard, IInv, TypeOK, RequestState, WorkerState
<1>6. CASE FinishEvent(w) \/ DropEvent(w)
  BY <1>6, ReadStep, IdleWorkerType DEF FinishEvent, DropEvent, IInv, TypeOK, RequestState, WorkerState
<1> QED
  BY <1>1, <1>2, <1>3, <1>4, <1>5, <1>6

LEMMA ArchiveInv ==
    ASSUME IInv, NEW w \in Workers, ArchiveCards(w)
    PROVE  IInv'
<1>1. TypeOK'
  <2>1. \A card \in Card : [card EXCEPT !.status = "ARCHIVED"] \in Card
    BY DEF Card, CardStatuses
  <2>2. cards' \in [CardIds -> Card]
    BY <2>1 DEF ArchiveCards, IInv, TypeOK, RequestState, WorkerState
  <2> QED
    BY <2>2, IdleWorkerType DEF ArchiveCards, IInv, TypeOK, RequestState, WorkerState
<1>2. OpenCardHolder'
  BY DEF ArchiveCards, IInv, TypeOK, OpenCardHolder, Card, OpenStatuses
<1>3. LockedByOne' /\ RequestShape' /\ LockedReviews'
  <2>1. \A c \in CardIds : Locked(c) => cards'[c] = cards[c]
    BY DEF ArchiveCards
  <2> QED
    BY <2>1, LocksKept DEF ArchiveCards
<1> QED
  BY <1>1, <1>2, <1>3 DEF IInv

LEMMA DeletedHolder == Deleted.status = "GONE"
  BY DEF Deleted, NoCard

LEMMA DeleteOpenInv ==
    ASSUME IInv, NEW w \in Workers, DeleteOpenCards(w)
    PROVE  IInv'
<1>1. TypeOK'
  <2>1. cards' \in [CardIds -> Card]
    BY DeletedType DEF DeleteOpenCards, IInv, TypeOK, RequestState, WorkerState
  <2> QED
    BY <2>1, IdleWorkerType DEF DeleteOpenCards, IInv, TypeOK, RequestState, WorkerState
<1>2. OpenCardHolder'
  BY DeletedHolder DEF DeleteOpenCards, IInv, OpenCardHolder, OpenStatuses
<1>3. LockedByOne' /\ RequestShape' /\ LockedReviews'
  <2>1. \A c \in CardIds : Locked(c) => cards'[c] = cards[c]
    BY DEF DeleteOpenCards
  <2> QED
    BY <2>1, LocksKept DEF DeleteOpenCards
<1> QED
  BY <1>1, <1>2, <1>3 DEF IInv

LEMMA DeleteDuplicateInv ==
    ASSUME IInv, NEW w \in Workers, DeleteDuplicate(w)
    PROVE  IInv'
<1>1. PICK c \in worker[w].seen :
        /\ ~Locked(c)
        /\ cards' = [cards EXCEPT ![c] = Deleted]
        /\ worker' = [worker EXCEPT ![w].seen = @ \ {c}]
  BY DEF DeleteDuplicate
<1>2. UNCHANGED <<req, log, crowded>>
  BY DEF DeleteDuplicate
<1>3. TypeOK'
  <2>1. cards' \in [CardIds -> Card]
    BY <1>1, DeletedType DEF IInv, TypeOK
  <2>2. worker' \in [Workers -> WorkerState]
    BY <1>1 DEF IInv, TypeOK, WorkerState
  <2> QED
    BY <1>2, <2>1, <2>2 DEF IInv, TypeOK
<1>4. \A d \in CardIds : cards'[d] = IF d = c THEN Deleted ELSE cards[d]
  BY <1>1 DEF IInv, TypeOK
<1>5. OpenCardHolder'
  BY <1>4, DeletedHolder DEF IInv, OpenCardHolder, OpenStatuses
<1>6. LockedByOne' /\ RequestShape' /\ LockedReviews'
  <2>1. \A d \in CardIds : Locked(d) => cards'[d] = cards[d]
    BY <1>1, <1>4
  <2> QED
    BY <1>2, <2>1, LocksKept
<1> QED
  BY <1>3, <1>5, <1>6 DEF IInv

LEMMA SaveOpenInv ==
    ASSUME IInv, NEW w \in Workers, SaveOpenCard(w)
    PROVE  IInv'
<1> DEFINE first == Oldest(worker[w].seen)
           ev == worker[w].ev
           keep == worker[w].inReview /\ StoredType(ev) = "EDITED"
<1>1. /\ worker[w] \in WorkerState
      /\ worker[w].seen # {}
  BY DEF IInv, TypeOK, RequestState, WorkerState, SaveOpenCard
<1>2. first \in CardIds /\ ev \in Events /\ keep \in BOOLEAN
  <2>1. worker[w].seen \in SUBSET CardIds /\ ev \in Events
           /\ worker[w].inReview \in BOOLEAN
    BY <1>1 DEF WorkerState
  <2> QED
    BY <1>1, <2>1, OldestIn
<1>3. cards[first] \in Card
  BY <1>2 DEF IInv, TypeOK, RequestState, WorkerState
<1>4. /\ cards' = [cards EXCEPT ![first] = Refreshed(cards[first], ev, keep)]
      /\ ~Locked(first)
      /\ UNCHANGED <<req, log, crowded>>
  BY DEF SaveOpenCard
<1> HIDE DEF first, ev, keep
<1>5. TypeOK'
  <2>1. cards' \in [CardIds -> Card]
    BY <1>2, <1>3, <1>4, RefreshedType DEF IInv, TypeOK, RequestState, WorkerState
  <2>2. worker' \in [Workers -> WorkerState]
    BY <1>1 DEF SaveOpenCard, IInv, TypeOK, RequestState, WorkerState
  <2> QED
    BY <1>4, <2>1, <2>2 DEF IInv, TypeOK, RequestState, WorkerState
<1>6. OpenCardHolder'
  BY <1>2, <1>3, <1>4, RefreshedHolder DEF IInv, TypeOK, RequestState, WorkerState, OpenCardHolder, OpenStatuses
<1>7. LockedByOne' /\ RequestShape' /\ LockedReviews'
  <2>1. \A c \in CardIds : Locked(c) => cards'[c] = cards[c]
    BY <1>2, <1>4 DEF IInv, TypeOK, RequestState, WorkerState
  <2> QED
    BY <1>4, <2>1, LocksKept
<1> QED
  BY <1>5, <1>6, <1>7 DEF IInv

(* A created card takes an id no request has locked: a locked card is in   *)
(* review.                                                                 *)
LEMMA CreatedCard ==
    ASSUME IInv, NEW c \in CardIds, IsNextCard(c), NEW card \in Card,
           card.status = "PENDING", card.assigned = NoModerator,
           card.timer = "none", cards' = [cards EXCEPT ![c] = card]
    PROVE  /\ cards' \in [CardIds -> Card]
           /\ OpenCardHolder'
           /\ ~Locked(c)
<1>1. cards' \in [CardIds -> Card]
  BY DEF IInv, TypeOK, RequestState, WorkerState
<1>2. OpenCardHolder'
  BY DEF IInv, TypeOK, RequestState, WorkerState, OpenCardHolder, OpenStatuses
<1>3. ~Locked(c)
  BY DEF IInv, LockedReviews, Locked, Holds, IsNextCard
<1> QED
  BY <1>1, <1>2, <1>3

LEMMA CreateInv ==
    ASSUME IInv, NEW w \in Workers, CreateCard(w)
    PROVE  IInv'
<1>1. PICK c \in CardIds :
        /\ IsNextCard(c)
        /\ cards' = [cards EXCEPT ![c] = NewCard(worker[w].ev.product,
                        StoredType(worker[w].ev), worker[w].ev.content, worker[w].ev.live)]
  BY DEF CreateCard
<1> DEFINE card == NewCard(worker[w].ev.product, StoredType(worker[w].ev),
                           worker[w].ev.content, worker[w].ev.live)
<1>2. worker[w].ev \in Events
  BY DEF IInv, TypeOK, RequestState, WorkerState
<1>3. card \in Card
  <2>1. StoredType(worker[w].ev) \in CardTypes
    BY DEF StoredType, CardTypes
  <2> QED
    BY <1>2, <2>1, NewCardType DEF Events
<1>4. card.status = "PENDING" /\ card.assigned = NoModerator /\ card.timer = "none"
  BY NewCardHolder
<1>5. UNCHANGED <<req, log, crowded>> /\ worker' = [worker EXCEPT ![w] = IdleWorker]
  BY DEF CreateCard
<1> HIDE DEF card
<1>6. /\ cards' \in [CardIds -> Card]
      /\ OpenCardHolder'
      /\ ~Locked(c)
  BY <1>1, <1>3, <1>4, CreatedCard DEF card
<1>7. TypeOK'
  BY <1>5, <1>6, IdleWorkerType DEF IInv, TypeOK, RequestState, WorkerState
<1>8. LockedByOne' /\ RequestShape' /\ LockedReviews'
  <2>1. \A d \in CardIds : Locked(d) => cards'[d] = cards[d]
    BY <1>1, <1>6 DEF IInv, TypeOK, RequestState, WorkerState
  <2> QED
    BY <1>5, <2>1, LocksKept
<1> QED
  BY <1>6, <1>7, <1>8 DEF IInv

LEMMA TimeoutInv ==
    ASSUME IInv, NEW c \in CardIds, ReviewTimeout(c)
    PROVE  IInv'
<1>1. TypeOK'
  BY DEF ReviewTimeout, IInv, TypeOK, Card
<1>2. OpenCardHolder'
  BY DEF ReviewTimeout, IInv, TypeOK, OpenCardHolder, Card
<1>3. LockedByOne' /\ RequestShape' /\ LockedReviews'
  <2>1. \A d \in CardIds : /\ cards'[d].status = cards[d].status
                           /\ cards'[d].assigned = cards[d].assigned
    BY DEF ReviewTimeout, IInv, TypeOK, Card
  <2> QED
    BY <2>1, LocksKept DEF ReviewTimeout
<1> QED
  BY <1>1, <1>2, <1>3 DEF IInv

-----------------------------------------------------------------------------
(* The steps of a request.                                                 *)

LEMMA IdleRequestType ==
    IdleRequest \in RequestState
  BY AnyProductType DEF IdleRequest, RequestState

(* A request that ends gives up its own locks; the rows that the others    *)
(* have locked keep their status and their holder.                         *)
LEMMA LocksReleased ==
    ASSUME IInv, NEW r \in Requests, req' = [req EXCEPT ![r] = IdleRequest],
           \A q \in Requests \ {r}, c \in CardIds :
               Holds(q, c) => /\ cards'[c].status = cards[c].status
                              /\ cards'[c].assigned = cards[c].assigned
    PROVE  LockedByOne' /\ RequestShape' /\ LockedReviews'
<1>1. req'[r] = IdleRequest /\ \A q \in Requests \ {r} : req'[q] = req[q]
  BY DEF IInv, TypeOK, RequestState, WorkerState
<1>2. ~Deciding(r)' /\ req'[r].held = {} /\ req'[r].pc = "idle"
  BY <1>1 DEF Deciding, IdleRequest
<1>3. LockedByOne'
  BY <1>1, <1>2 DEF IInv, LockedByOne, Holds, Deciding
<1>4. RequestShape'
  BY <1>1, <1>2 DEF IInv, RequestShape, Deciding
<1>5. LockedReviews'
  BY <1>1, <1>2 DEF IInv, TypeOK, RequestState, WorkerState, RequestShape, LockedReviews, Holds, Deciding
<1> QED
  BY <1>3, <1>4, <1>5

LEMMA EndInv ==
    ASSUME IInv, NEW r \in Requests, RefuseTicket(r) \/ AbandonRequest(r)
    PROVE  IInv'
<1>1. UNCHANGED <<cards, worker, log, crowded>> /\ req' = [req EXCEPT ![r] = IdleRequest]
  BY DEF RefuseTicket, AbandonRequest
<1>2. TypeOK'
  BY <1>1, IdleRequestType DEF IInv, TypeOK, RequestState, WorkerState
<1>3. OpenCardHolder'
  BY <1>1 DEF IInv, OpenCardHolder
<1> QED
  BY <1>1, <1>2, <1>3, LocksReleased DEF IInv

LEMMA ReleasedCards ==
    ASSUME IInv, NEW S \in SUBSET CardIds
    PROVE  /\ Released(S) \in [CardIds -> Card]
           /\ \A c \in CardIds :
                IF c \in S THEN /\ Released(S)[c].status = "PENDING"
                               /\ Released(S)[c].assigned = NoModerator
                               /\ Released(S)[c].timer = "none"
                          ELSE Released(S)[c] = cards[c]
  BY RequeuedType, RequeuedHolder DEF Released, IInv, TypeOK, RequestState, WorkerState

LEMMA RefuseNextInv ==
    ASSUME IInv, NEW r \in Requests, RefuseNextCard(r)
    PROVE  IInv'
<1>1. StaleCards \in SUBSET CardIds
  BY DEF StaleCards
<1>2. cards' = Released(StaleCards) /\ UNCHANGED <<req, worker, log, crowded>>
  BY DEF RefuseNextCard
<1>3. TypeOK'
  BY <1>1, <1>2, ReleasedCards DEF IInv, TypeOK, RequestState, WorkerState
<1>4. OpenCardHolder'
  BY <1>1, <1>2, ReleasedCards DEF IInv, OpenCardHolder
<1>5. LockedByOne' /\ RequestShape' /\ LockedReviews'
  <2>1. \A c \in CardIds : Locked(c) => cards'[c] = cards[c]
    BY <1>1, <1>2, ReleasedCards DEF RefuseNextCard
  <2> QED
    BY <1>2, <2>1, LocksKept
<1> QED
  BY <1>3, <1>4, <1>5 DEF IInv

LEMMA CheckReviewInv ==
    ASSUME IInv, NEW r \in Requests, CheckActiveReview(r)
    PROVE  IInv'
<1>1. StaleCards \in SUBSET CardIds
  BY DEF StaleCards
<1>2. /\ req' = [req EXCEPT ![r] = [@ EXCEPT !.pc = "picking", !.held = StaleCards]]
      /\ UNCHANGED <<cards, worker, log, crowded>>
      /\ \A c \in StaleCards : ~Locked(c)
  BY DEF CheckActiveReview
<1>3. TypeOK'
  <2>1. [req[r] EXCEPT !.pc = "picking", !.held = StaleCards] \in RequestState
    BY <1>1 DEF IInv, TypeOK, RequestState
  <2> QED
    BY <1>2, <2>1 DEF IInv, TypeOK
<1>4. OpenCardHolder'
  BY <1>2 DEF IInv, OpenCardHolder
<1>5. /\ req'[r].pc = "picking" /\ req'[r].held = StaleCards
      /\ \A q \in Requests \ {r} : req'[q] = req[q]
  BY <1>2 DEF IInv, TypeOK, RequestState, WorkerState
<1>6. LockedByOne'
  BY <1>2, <1>5 DEF IInv, LockedByOne, Holds, Deciding, Locked
<1>7. RequestShape'
  BY <1>5 DEF IInv, RequestShape, Deciding
<1>8. LockedReviews'
  BY <1>2, <1>5 DEF IInv, LockedReviews, Deciding, StaleCards, IsStale
<1> QED
  BY <1>3, <1>4, <1>6, <1>7, <1>8 DEF IInv

(* What get-next does to a card: a row it holds goes back to the queue,    *)
(* and of these and the free PENDING rows it gives one to its moderator.   *)
LEMMA AcquiredCards ==
    ASSUME IInv, NEW r \in Requests, AcquireNextCard(r)
    PROVE  /\ cards' \in [CardIds -> Card]
           /\ \A c \in CardIds :
                \/ c \notin req[r].held /\ cards'[c] = cards[c]
                \/ /\ \/ c \in req[r].held
                      \/ ~Locked(c) /\ cards[c].status = "PENDING"
                   /\ cards'[c].product = cards[c].product
                   /\ cards'[c].content = cards[c].content
                   /\ \/ /\ cards'[c].status = "PENDING"
                         /\ cards'[c].assigned = NoModerator
                         /\ cards'[c].timer = "none"
                      \/ /\ cards'[c].status = "IN_REVIEW"
                         /\ cards'[c].assigned = Owner[r]
                         /\ cards'[c].timer = "fresh"
<1> DEFINE held == req[r].held
           released == Released(held)
<1>1. PICK queue \in 1..4 :
        LET pending == {c \in CardIds : /\ released[c].status = "PENDING"
                                        /\ released[c].prio = queue
                                        /\ c \in held \/ ~Locked(c)}
            first == Oldest(pending)
        IN  cards' = IF pending = {} THEN released
                     ELSE [released EXCEPT ![first].status = "IN_REVIEW",
                                           ![first].assigned = Owner[r],
                                           ![first].timer = "fresh",
                                           ![first].touched = TRUE]
  BY DEF AcquireNextCard
<1>3. held \in SUBSET CardIds
  BY DEF IInv, TypeOK, RequestState, WorkerState
<1>4. Owner[r] \in Moderators /\ Owner[r] # NoModerator
  BY QueueAssumption DEF QueueAssumption
<1> DEFINE pending == {c \in CardIds : /\ released[c].status = "PENDING"
                                       /\ released[c].prio = queue
                                       /\ c \in held \/ ~Locked(c)}
           first == Oldest(pending)
<1>5. released \in [CardIds -> Card]
  BY <1>3, ReleasedCards
<1>6. ASSUME pending # {}
      PROVE  first \in pending
  <2>1. pending \in SUBSET CardIds
    OBVIOUS
  <2> HIDE DEF pending
  <2> QED
    BY <1>6, <2>1, OldestIn
<1>7. \/ cards' = released
      \/ /\ pending # {}
         /\ cards' = [released EXCEPT ![first].status = "IN_REVIEW",
                                      ![first].assigned = Owner[r],
                                      ![first].timer = "fresh",
                                      ![first].touched = TRUE]
  BY <1>1
<1>8. /\ first \in pending => first \in CardIds
      /\ first \in pending => first \in held \/ ~Locked(first)
  OBVIOUS
<1>20. \A c \in CardIds : /\ released[c].product = cards[c].product
                          /\ released[c].content = cards[c].content
  BY RequeuedProduct DEF Released, IInv, TypeOK
<1>21. first \in pending => released[first].status = "PENDING"
  OBVIOUS
<1> HIDE DEF released, first, pending
<1>9. cards' \in [CardIds -> Card]
  <2>1. CASE cards' = released
    BY <1>5, <2>1
  <2>2. CASE cards' # released
    <3>1. released[first] \in Card
      BY <1>5, <1>6, <1>7, <1>8, <2>2
    <3>2. [released[first] EXCEPT !.status = "IN_REVIEW", !.assigned = Owner[r],
                                  !.timer = "fresh", !.touched = TRUE] \in Card
      BY <1>4, <3>1 DEF Card, CardStatuses, OpenStatuses
    <3> QED
      BY <1>5, <1>6, <1>7, <1>8, <2>2, <3>2
  <2> QED
    BY <2>1, <2>2
<1>10. \A c \in CardIds :
         \/ cards'[c] = released[c]
         \/ /\ c = first /\ (c \in held \/ ~Locked(c))
            /\ released[c].status = "PENDING"
            /\ cards'[c].product = released[c].product
            /\ cards'[c].content = released[c].content
            /\ cards'[c].status = "IN_REVIEW"
            /\ cards'[c].assigned = Owner[r]
            /\ cards'[c].timer = "fresh"
  <2>1. \A c \in CardIds : released[c] \in Card
    BY <1>5
  <2> QED
    BY <1>5, <1>6, <1>7, <1>8, <1>21, <2>1 DEF Card
<1>11. \A c \in CardIds :
         IF c \in held THEN /\ released[c].status = "PENDING"
                           /\ released[c].assigned = NoModerator
                           /\ released[c].timer = "none"
                      ELSE released[c] = cards[c]
  BY <1>3, ReleasedCards DEF released
<1> QED
  BY <1>9, <1>10, <1>11, <1>20

LEMMA AcquireInv ==
    ASSUME IInv, NEW r \in Requests, AcquireNextCard(r)
    PROVE  IInv'
<1>1. /\ req' = [req EXCEPT ![r] = IdleRequest]
      /\ UNCHANGED <<worker, log, crowded>>
  BY DEF AcquireNextCard
<1>2. Owner[r] \in Moderators /\ Owner[r] # NoModerator
  BY QueueAssumption DEF QueueAssumption
<1>3. TypeOK'
  BY <1>1, AcquiredCards, IdleRequestType DEF IInv, TypeOK
<1>4. OpenCardHolder'
  BY <1>2, AcquiredCards DEF IInv, OpenCardHolder
<1>5. LockedByOne' /\ RequestShape' /\ LockedReviews'
  <2>1. ASSUME NEW q \in Requests \ {r}, NEW c \in CardIds, Holds(q, c)
        PROVE  cards'[c] = cards[c]
    <3>1. Locked(c)
      BY <2>1 DEF Locked
    <3>2. c \notin req[r].held
      BY <2>1 DEF IInv, LockedByOne, Holds
    <3> QED
      BY <3>1, <3>2, AcquiredCards
  <2> QED
    BY <1>1, <2>1, LocksReleased
<1> QED
  BY <1>3, <1>4, <1>5 DEF IInv

LEMMA OpenTicketInv ==
    ASSUME IInv, NEW r \in Requests, NEW c \in CardIds, NEW action \in Actions,
           OpenTicket(r, c, action)
    PROVE  IInv'
<1>1. /\ req' = [req EXCEPT ![r] =
                   [@ EXCEPT !.pc = "opened", !.op = action, !.card = c]]
      /\ UNCHANGED <<cards, worker, log, crowded>>
      /\ req[r].pc = "idle"
  BY DEF OpenTicket
<1>2. TypeOK'
  <2>1. [req[r] EXCEPT !.pc = "opened", !.op = action, !.card = c] \in RequestState
    BY DEF IInv, TypeOK, RequestState
  <2> QED
    BY <1>1, <2>1 DEF IInv, TypeOK
<1>3. OpenCardHolder'
  BY <1>1 DEF IInv, OpenCardHolder
<1>4. /\ req'[r].pc = "opened" /\ req'[r].held = req[r].held
      /\ req'[r].card = c /\ req'[r].op = action
      /\ \A q \in Requests \ {r} : req'[q] = req[q]
  BY <1>1 DEF IInv, TypeOK, RequestState, WorkerState
<1>5. req[r].held = {}
  BY <1>1 DEF IInv, RequestShape
<1>6. LockedByOne' /\ RequestShape'
  BY <1>4, <1>5 DEF IInv, LockedByOne, RequestShape, Holds, Deciding
<1>7. LockedReviews'
  BY <1>1, <1>4 DEF IInv, LockedReviews, Deciding
<1> QED
  BY <1>2, <1>3, <1>6, <1>7 DEF IInv

LEMMA LockTicketInv ==
    ASSUME IInv, NEW r \in Requests, LockTicket(r)
    PROVE  IInv'
<1>1. /\ req' = [req EXCEPT ![r].pc = "deciding"]
      /\ UNCHANGED <<cards, worker, log, crowded>>
      /\ req[r].pc = "opened"
      /\ ~Locked(req[r].card)
      /\ cards[req[r].card].status = "IN_REVIEW"
      /\ cards[req[r].card].assigned = Owner[r]
  BY DEF LockTicket, MayDecide
<1>2. TypeOK'
  BY <1>1 DEF IInv, TypeOK, RequestState, WorkerState
<1>3. OpenCardHolder'
  BY <1>1 DEF IInv, OpenCardHolder
<1>4. /\ req'[r].pc = "deciding" /\ req'[r].held = req[r].held
      /\ req'[r].card = req[r].card /\ req'[r].op = req[r].op
      /\ \A q \in Requests \ {r} : req'[q] = req[q]
  BY <1>1 DEF IInv, TypeOK, RequestState, WorkerState
<1>5. req[r].held = {} /\ req[r].card \in CardIds
  BY <1>1 DEF IInv, RequestShape
<1>6. LockedByOne'
  BY <1>1, <1>4, <1>5 DEF IInv, LockedByOne, Holds, Deciding, Locked
<1>7. RequestShape' /\ LockedReviews'
  BY <1>1, <1>4, <1>5 DEF IInv, RequestShape, LockedReviews, Deciding
<1> QED
  BY <1>2, <1>3, <1>6, <1>7 DEF IInv

LEMMA AnsweredInv ==
    ASSUME IInv, NEW r \in Requests, Answered(r)
    PROVE  IInv'
<1>1. /\ req' = [req EXCEPT ![r].pc = "answered"]
      /\ UNCHANGED <<cards, worker, log, crowded>>
      /\ req[r].pc = "deciding"
  BY DEF Answered
<1>2. TypeOK'
  BY <1>1 DEF IInv, TypeOK, RequestState, WorkerState
<1>3. OpenCardHolder'
  BY <1>1 DEF IInv, OpenCardHolder
<1>4. /\ req'[r].pc = "answered" /\ req'[r].held = req[r].held
      /\ req'[r].card = req[r].card /\ req'[r].op = req[r].op
      /\ \A q \in Requests \ {r} : req'[q] = req[q]
  BY <1>1 DEF IInv, TypeOK, RequestState, WorkerState
<1>5. \A q \in Requests : Deciding(q)' = Deciding(q) /\ req'[q].held = req[q].held
                         /\ req'[q].card = req[q].card
  BY <1>1, <1>4 DEF Deciding
<1>6. LockedByOne' /\ LockedReviews'
  BY <1>1, <1>5 DEF IInv, LockedByOne, LockedReviews, Holds
<1>7. RequestShape'
  BY <1>1, <1>4, <1>5 DEF IInv, RequestShape, Deciding
<1> QED
  BY <1>2, <1>3, <1>6, <1>7 DEF IInv

LEMMA CommitInv ==
    ASSUME IInv, NEW r \in Requests, CommitDecision(r)
    PROVE  IInv'
<1> DEFINE c == req[r].card
<1>1. /\ req' = [req EXCEPT ![r] = IdleRequest]
      /\ cards' = [cards EXCEPT ![c].status = DecidedStatus(req[r].op),
                                ![c].assigned = NoModerator,
                                ![c].timer = "none", ![c].touched = FALSE]
      /\ log' = log \union {<<c, req[r].op>>}
      /\ UNCHANGED <<worker, crowded>>
      /\ Deciding(r)
  BY DEF CommitDecision, Deciding
<1>2. c \in CardIds
  BY <1>1 DEF IInv, RequestShape
<1>3. DecidedStatus(req[r].op) \in DecidedStatuses
  BY DEF DecidedStatus, DecidedStatuses
<1>4. cards' \in [CardIds -> Card]
  BY <1>1, <1>2, <1>3, SMTT(30) DEF IInv, TypeOK, RequestState, WorkerState, Card, CardStatuses
<1>5. TypeOK'
  <2>1. req[r].op \in Actions
    BY <1>1 DEF IInv, RequestShape
  <2> QED
    BY <1>1, <1>2, <1>4, <2>1, IdleRequestType DEF IInv, TypeOK, RequestState, WorkerState
<1>6. /\ \A d \in CardIds \ {c} : cards'[d] = cards[d]
      /\ cards'[c].status \in DecidedStatuses
  BY <1>1, <1>2, <1>3 DEF IInv, TypeOK, RequestState, WorkerState, Card
<1>7. OpenCardHolder'
  BY <1>2, <1>6 DEF IInv, OpenCardHolder, OpenStatuses, DecidedStatuses
<1>8. LockedByOne' /\ RequestShape' /\ LockedReviews'
  <2>1. ASSUME NEW q \in Requests \ {r}, NEW d \in CardIds, Holds(q, d)
        PROVE  cards'[d] = cards[d]
    BY <1>1, <1>2, <1>6, <2>1 DEF IInv, LockedByOne, Holds
  <2> QED
    BY <1>1, <2>1, LocksReleased
<1> QED
  BY <1>5, <1>7, <1>8 DEF IInv

LEMMA CheckEnqueueInv ==
    ASSUME IInv, NEW r \in Requests, NEW p \in Products, CheckEnqueue(r, p)
    PROVE  IInv'
<1>1. /\ req' = [req EXCEPT ![r] = [@ EXCEPT !.pc = "enqueueing", !.product = p]]
      /\ UNCHANGED <<cards, worker, log, crowded>>
      /\ req[r].pc = "idle"
  BY DEF CheckEnqueue
<1>2. TypeOK'
  <2>1. [req[r] EXCEPT !.pc = "enqueueing", !.product = p] \in RequestState
    BY DEF IInv, TypeOK, RequestState
  <2> QED
    BY <1>1, <2>1 DEF IInv, TypeOK
<1>3. OpenCardHolder'
  BY <1>1 DEF IInv, OpenCardHolder
<1>4. /\ req'[r].pc = "enqueueing" /\ req'[r].held = req[r].held
      /\ \A q \in Requests \ {r} : req'[q] = req[q]
  BY <1>1 DEF IInv, TypeOK, RequestState, WorkerState
<1>5. req[r].held = {}
  BY <1>1 DEF IInv, RequestShape
<1>6. LockedByOne' /\ RequestShape' /\ LockedReviews'
  BY <1>1, <1>4, <1>5 DEF IInv, LockedByOne, RequestShape, LockedReviews, Holds, Deciding
<1> QED
  BY <1>2, <1>3, <1>6 DEF IInv

LEMMA EnqueueInv ==
    ASSUME IInv, NEW r \in Requests, NEW etype \in ManualTypes,
           NEW content \in 0..MaxContent, NEW live \in BOOLEAN,
           EnqueueManually(r, etype, content, live)
    PROVE  IInv'
<1> DEFINE card == NewCard(req[r].product, etype, content, live)
<1>1. PICK c \in CardIds : IsNextCard(c) /\ cards' = [cards EXCEPT ![c] = card]
  BY DEF EnqueueManually
<1>2. card \in Card
  <2>1. etype \in CardTypes /\ req[r].product \in Products
    BY QueueAssumption DEF QueueAssumption, IInv, TypeOK, RequestState, WorkerState
  <2> QED
    BY <2>1, NewCardType
<1>3. card.status = "PENDING" /\ card.assigned = NoModerator /\ card.timer = "none"
  BY NewCardHolder
<1>4. /\ UNCHANGED <<worker, log>> /\ req' = [req EXCEPT ![r] = IdleRequest]
      /\ crowded' \subseteq Products
  BY DEF EnqueueManually, IInv, TypeOK, RequestState
<1> HIDE DEF card
<1>5. /\ cards' \in [CardIds -> Card]
      /\ OpenCardHolder'
      /\ ~Locked(c)
  BY <1>1, <1>2, <1>3, CreatedCard
<1>6. TypeOK'
  BY <1>4, <1>5, IdleRequestType DEF IInv, TypeOK, RequestState, WorkerState
<1>7. LockedByOne' /\ RequestShape' /\ LockedReviews'
  <2>1. ASSUME NEW q \in Requests \ {r}, NEW d \in CardIds, Holds(q, d)
        PROVE  cards'[d] = cards[d]
    BY <1>1, <1>5, <2>1 DEF IInv, TypeOK, RequestState, WorkerState, Locked
  <2> QED
    BY <1>4, <2>1, LocksReleased
<1> QED
  BY <1>5, <1>6, <1>7 DEF IInv

-----------------------------------------------------------------------------
(* The invariant.                                                          *)

LEMMA InitInv == Init => IInv
<1> SUFFICES ASSUME Init
             PROVE  IInv
  OBVIOUS
<1>1. TypeOK
  BY NoCardType, IdleRequestType, IdleWorkerType DEF Init, TypeOK
<1>2. OpenCardHolder
  BY DEF Init, OpenCardHolder, NoCard, OpenStatuses
<1>3. LockedByOne /\ RequestShape /\ LockedReviews
  BY DEF Init, LockedByOne, RequestShape, LockedReviews, Holds, Deciding, IdleRequest
<1> QED
  BY <1>1, <1>2, <1>3 DEF IInv

LEMMA HandlerInv ==
    ASSUME IInv, NEW w \in Workers, HandleEvent(w) \/ DropEvent(w)
    PROVE  IInv'
  BY QuietSteps, ArchiveInv, DeleteOpenInv, DeleteDuplicateInv, SaveOpenInv, CreateInv
     DEF HandleEvent

LEMMA ModeratorInv ==
    ASSUME IInv, NEW r \in Requests, ModeratorStep(r) \/ Answered(r)
    PROVE  IInv'
  BY RefuseNextInv, CheckReviewInv, AcquireInv, OpenTicketInv, LockTicketInv, EndInv,
     AnsweredInv, CommitInv, CheckEnqueueInv, EnqueueInv
     DEF ModeratorStep

LEMMA NextInv == IInv /\ [Next]_queueVars => IInv'
<1> SUFFICES ASSUME IInv, [Next]_queueVars
             PROVE  IInv'
  OBVIOUS
<1>1. ASSUME NEW w \in Workers, NEW ev \in Arrivals, Receive(w, ev)
      PROVE  IInv'
  BY <1>1, QuietSteps
<1>2. ASSUME NEW w \in Workers, HandleEvent(w) \/ DropEvent(w)
      PROVE  IInv'
  BY <1>2, HandlerInv
<1>3. ASSUME NEW c \in CardIds, ReviewTimeout(c)
      PROVE  IInv'
  BY <1>3, TimeoutInv
<1>4. ASSUME NEW r \in Requests, ModeratorStep(r) \/ Answered(r)
      PROVE  IInv'
  BY <1>4, ModeratorInv
<1>5. CASE UNCHANGED queueVars
  BY <1>5, ReadStep DEF queueVars, IInv, TypeOK
<1> QED
  BY <1>1, <1>2, <1>3, <1>4, <1>5 DEF Next

THEOREM Invariance == Spec => []IInv
  BY InitInv, NextInv, PTL DEF Spec

(* Every reachable state is well typed: whatever the interleaving, cards,  *)
(* requests, handlers and the decision log keep the shapes the models.py   *)
(* fields and the handlers' local variables give them.                     *)
THEOREM TypeCorrect == Spec => []TypeOK
<1>1. IInv => TypeOK
  BY DEF IInv
<1> QED
  BY <1>1, Invariance, PTL

(* No interleaving leaves an open card in review without a holder, or held *)
(* without a running review clock.                                         *)
THEOREM OpenCardsHeld == Spec => []OpenCardHolder
<1>1. IInv => OpenCardHolder
  BY DEF IInv
<1> QED
  BY <1>1, Invariance, PTL

(* The row lock of _get_in_review_card keeps a card in review, with the    *)
(* moderator who decided it, until the decision is committed or given up,  *)
(* and admits one decision on a card at a time.                            *)
THEOREM DecisionsExclude == Spec => []DecisionExclusive
<1>1. IInv => DecisionExclusive
  BY DEF IInv, DecisionExclusive, LockedByOne, LockedReviews, RequestShape, Holds
<1> QED
  BY <1>1, Invariance, PTL

-----------------------------------------------------------------------------
(* What a step does to one card, and who may do it.  SInv adds to IInv     *)
(* what the handlers and get-next remember of the cards between two        *)
(* statements, and that what was checked under the row lock stays true     *)
(* until the decision is committed.                                        *)

(* The cards of a handler's list are cards of its event's product, unless  *)
(* somebody has deleted them since.                                        *)
SeenCards ==
    \A w \in Workers : worker[w].pc \in {"read", "pruning"} =>
        \A c \in worker[w].seen :
            \/ cards[c].status = "GONE"
            \/ /\ cards[c].status # "NONE"
               /\ cards[c].product = worker[w].ev.product

(* get-next holds the rows it has found timed out.                         *)
HeldStale == \A r \in Requests : \A c \in req[r].held : IsStale(c)

(* The checks of a decision hold until it is committed.                    *)
StillValid ==
    \A r \in Requests : Deciding(r) =>
        /\ req[r].op = "approve" => cards[req[r].card].live
        /\ ~AlreadyLogged(r)

SInv == IInv /\ SeenCards /\ HeldStale /\ StillValid

Enqueues(r) ==
    \E etype \in ManualTypes, content \in 0..MaxContent, live \in BOOLEAN :
        EnqueueManually(r, etype, content, live)

(* A card is created under an id that was not used.                        *)
Appears(c) ==
    /\ cards[c].status = "NONE"
    /\ cards'[c].status = "PENDING"
    /\ \/ \E r \in Requests : Enqueues(r)
       \/ \E w \in Workers : /\ CreateCard(w)
                             /\ cards'[c].product = worker[w].ev.product

(* A handler archives, deletes or saves a card of its event's product.     *)
Handled(c) ==
    /\ ~Locked(c)
    /\ cards[c].status \notin {"NONE", "GONE"}
    /\ \E w \in Workers :
         /\ worker'[w] # worker[w]
         /\ cards[c].product = worker[w].ev.product
         /\ \/ cards'[c].status = "GONE"
            \/ /\ cards'[c].status = "ARCHIVED"
               /\ cards'[c].product = cards[c].product
            \/ /\ SaveOpenCard(w)
               /\ c = Oldest(worker[w].seen)
               /\ cards'[c].product = cards[c].product
               /\ cards'[c].status \in {"PENDING", cards[c].status}

TimesOut(c) ==
    /\ cards[c].status = "IN_REVIEW"
    /\ cards'[c] = [cards[c] EXCEPT !.timer = "stale"]

(* get-next releases a timed-out card or gives a waiting one away; whoever *)
(* had the row locked is the request that does it, and it ends.            *)
GivenAway(c) ==
    /\ IsStale(c) \/ cards[c].status = "PENDING"
    /\ cards'[c].product = cards[c].product
    /\ cards'[c].content = cards[c].content
    /\ cards'[c].status \in OpenStatuses
    /\ \A q \in Requests : Holds(q, c) => req'[q] = IdleRequest

Committed(c) == \E r \in Requests : /\ req[r].card = c
                                    /\ CommitDecision(r)

CardMoves(c) ==
    \/ cards'[c] = cards[c]
    \/ cards[c].status = "GONE" /\ cards'[c].status = "GONE"
    \/ Appears(c)
    \/ Handled(c)
    \/ TimesOut(c)
    \/ GivenAway(c)
    \/ Committed(c)

LEMMA RefreshedProduct ==
    ASSUME NEW card \in Card, NEW ev \in Events, NEW keep \in BOOLEAN
    PROVE  /\ Refreshed(card, ev, keep).product = card.product
           /\ Refreshed(card, ev, keep).content = ev.content
<1>1. StoredType(ev) \in CardTypes
  BY DEF StoredType, CardTypes
<1>2. WithSnapshot(card, ev) \in Card
  BY <1>1, PriorityType DEF WithSnapshot, Card, Events
<1>3. /\ WithSnapshot(card, ev).product = card.product
      /\ WithSnapshot(card, ev).content = ev.content
  BY DEF WithSnapshot, Card
<1> QED
  BY <1>2, <1>3, RequeuedProduct DEF Refreshed, Card

LEMMA NewCardProduct ==
    ASSUME NEW p, NEW etype, NEW content, NEW live
    PROVE  /\ NewCard(p, etype, content, live).product = p
           /\ NewCard(p, etype, content, live).content = content
  BY DEF NewCard, NoCard

-----------------------------------------------------------------------------
(* The steps of an event handler.                                          *)

LEMMA WorkerEnds ==
    ASSUME IInv, NEW w \in Workers, worker[w].pc # "idle",
           worker' = [worker EXCEPT ![w] = IdleWorker]
    PROVE  worker'[w] # worker[w]
  BY DEF IInv, TypeOK, IdleWorker

LEMMA ArchiveMoves ==
    ASSUME SInv, NEW w \in Workers, ArchiveCards(w), NEW c \in CardIds
    PROVE  CardMoves(c)
<1>1. IInv
  BY DEF SInv
<1>2. worker'[w] # worker[w]
  BY <1>1, WorkerEnds DEF ArchiveCards
<1>3. CASE /\ c \in CardsOf(worker[w].ev.product)
           /\ cards[c].status \notin {"ARCHIVED", "GONE"}
  <2>1. ~Locked(c) /\ cards'[c] = [cards[c] EXCEPT !.status = "ARCHIVED"]
    BY <1>3 DEF ArchiveCards
  <2>2. cards[c] \in Card
    BY <1>1 DEF IInv, TypeOK
  <2>3. cards'[c].status = "ARCHIVED" /\ cards'[c].product = cards[c].product
    BY <2>1, <2>2 DEF Card
  <2> QED
    BY <1>2, <1>3, <2>1, <2>3 DEF CardMoves, Handled, CardsOf
<1>4. CASE ~ (/\ c \in CardsOf(worker[w].ev.product)
              /\ cards[c].status \notin {"ARCHIVED", "GONE"})
  <2>1. cards'[c] = cards[c]
    BY <1>4 DEF ArchiveCards
  <2> QED
    BY <2>1 DEF CardMoves
<1> QED
  BY <1>3, <1>4

LEMMA DeleteOpenMoves ==
    ASSUME SInv, NEW w \in Workers, DeleteOpenCards(w), NEW c \in CardIds
    PROVE  CardMoves(c)
<1>1. worker'[w] # worker[w]
  BY WorkerEnds DEF DeleteOpenCards, SInv
<1>2. CASE c \in OpenCards(worker[w].ev.product)
  <2>1. ~Locked(c) /\ cards'[c] = Deleted
    BY <1>2 DEF DeleteOpenCards
  <2> QED
    BY <1>1, <1>2, <2>1, DeletedHolder
       DEF CardMoves, Handled, OpenCards, CardsOf, OpenStatuses
<1>3. CASE c \notin OpenCards(worker[w].ev.product)
  BY <1>3 DEF DeleteOpenCards, CardMoves
<1> QED
  BY <1>2, <1>3

LEMMA DuplicateMoves ==
    ASSUME SInv, NEW w \in Workers, DeleteDuplicate(w), NEW c \in CardIds
    PROVE  CardMoves(c)
<1>1. PICK d \in worker[w].seen :
        /\ ~Locked(d)
        /\ cards' = [cards EXCEPT ![d] = Deleted]
        /\ worker' = [worker EXCEPT ![w].seen = @ \ {d}]
  BY DEF DeleteDuplicate
<1>2. CASE c = d
  <2>1. cards'[c] = Deleted /\ worker'[w] # worker[w]
    BY <1>1, <1>2 DEF SInv, IInv, TypeOK, WorkerState
  <2>2. \/ cards[c].status = "GONE"
        \/ cards[c].status # "NONE" /\ cards[c].product = worker[w].ev.product
    BY <1>1, <1>2 DEF SInv, SeenCards, DeleteDuplicate
  <2> QED
    BY <1>1, <1>2, <2>1, <2>2, DeletedHolder DEF CardMoves, Handled
<1>3. CASE c # d
  BY <1>1, <1>3 DEF SInv, IInv, TypeOK, CardMoves
<1> QED
  BY <1>2, <1>3

(* What the save of the oldest open card does.                             *)
LEMMA SavedCard ==
    ASSUME SInv, NEW w \in Workers, SaveOpenCard(w), NEW first,
           first = Oldest(worker[w].seen)
    PROVE  /\ first \in CardIds /\ first \in worker[w].seen
           /\ ~Locked(first)
           /\ cards[first].status \notin {"GONE", "NONE"}
           /\ cards[first].product = worker[w].ev.product
           /\ cards'[first].product = cards[first].product
           /\ cards'[first].status \in {"PENDING", cards[first].status}
           /\ cards'[first].content = worker[w].ev.content
           /\ \A c \in CardIds \ {first} : cards'[c] = cards[c]
           /\ worker[w].pc = "read"
           /\ worker' = [worker EXCEPT ![w].pc = "pruning", ![w].seen = @ \ {first}]
<1> DEFINE ev == worker[w].ev
           keep == worker[w].inReview /\ StoredType(ev) = "EDITED"
<1>1. IInv /\ worker[w] \in WorkerState /\ worker[w].seen # {}
  BY DEF SInv, IInv, TypeOK, SaveOpenCard
<1>2. ev \in Events /\ keep \in BOOLEAN /\ worker[w].seen \in SUBSET CardIds
  BY <1>1 DEF WorkerState
<1>3. first \in worker[w].seen /\ first \in CardIds
  BY <1>1, <1>2, OldestIn
<1>4. cards[first] \in Card
  BY <1>1, <1>3 DEF IInv, TypeOK
<1>5. /\ cards' = [cards EXCEPT ![first] = Refreshed(cards[first], ev, keep)]
      /\ ~Locked(first)
      /\ cards[first].status # "GONE"
      /\ worker[w].pc = "read"
      /\ worker' = [worker EXCEPT ![w].pc = "pruning", ![w].seen = @ \ {first}]
  BY DEF SaveOpenCard
<1> HIDE DEF ev, keep
<1>6. cards'[first] = Refreshed(cards[first], ev, keep)
  BY <1>1, <1>3, <1>5 DEF IInv, TypeOK
<1>7. /\ cards'[first].product = cards[first].product
      /\ cards'[first].status \in {"PENDING", cards[first].status}
      /\ cards'[first].content = ev.content
  BY <1>2, <1>4, <1>6, RefreshedProduct, RefreshedHolder
<1>8. cards[first].status # "NONE" /\ cards[first].product = worker[w].ev.product
  BY <1>3, <1>5 DEF SInv, SeenCards
<1>9. \A c \in CardIds \ {first} : cards'[c] = cards[c]
  BY <1>1, <1>5 DEF IInv, TypeOK
<1> QED
  BY <1>3, <1>5, <1>7, <1>8, <1>9 DEF ev

LEMMA SaveMoves ==
    ASSUME SInv, NEW w \in Workers, SaveOpenCard(w), NEW c \in CardIds
    PROVE  CardMoves(c)
<1> DEFINE first == Oldest(worker[w].seen)
<1>1. /\ ~Locked(first)
      /\ cards[first].status \notin {"GONE", "NONE"}
      /\ cards[first].product = worker[w].ev.product
      /\ cards'[first].product = cards[first].product
      /\ cards'[first].status \in {"PENDING", cards[first].status}
      /\ \A d \in CardIds \ {first} : cards'[d] = cards[d]
      /\ worker[w].pc = "read"
      /\ worker' = [worker EXCEPT ![w].pc = "pruning", ![w].seen = @ \ {first}]
  BY SavedCard
<1> HIDE DEF first
<1>2. CASE c = first
  <2>1. worker'[w].pc = "pruning"
    BY <1>1 DEF SInv, IInv, TypeOK, WorkerState
  <2>2. worker'[w] # worker[w]
    BY <1>1, <2>1
  <2> QED
    BY <1>1, <1>2, <2>2 DEF CardMoves, Handled, first
<1>3. CASE c # first
  BY <1>1, <1>3 DEF CardMoves
<1> QED
  BY <1>2, <1>3

LEMMA CreateMoves ==
    ASSUME SInv, NEW w \in Workers, CreateCard(w), NEW c \in CardIds
    PROVE  CardMoves(c)
<1>1. PICK d \in CardIds :
        /\ IsNextCard(d)
        /\ cards' = [cards EXCEPT ![d] = NewCard(worker[w].ev.product,
                        StoredType(worker[w].ev), worker[w].ev.content, worker[w].ev.live)]
  BY DEF CreateCard
<1>2. CASE c = d
  <2>1. cards'[c].product = worker[w].ev.product /\ cards'[c].status = "PENDING"
    BY <1>1, <1>2, NewCardProduct, NewCardHolder DEF SInv, IInv, TypeOK
  <2> QED
    BY <1>1, <1>2, <2>1 DEF CardMoves, Appears, IsNextCard
<1>3. CASE c # d
  BY <1>1, <1>3 DEF SInv, IInv, TypeOK, CardMoves
<1> QED
  BY <1>2, <1>3

LEMMA HandlerMoves ==
    ASSUME SInv, NEW w \in Workers, HandleEvent(w) \/ DropEvent(w), NEW c \in CardIds
    PROVE  CardMoves(c)
<1>1. CASE \/ IgnoreHardBlocked(w) \/ RouteEvent(w) \/ ReadOpenCards(w)
           \/ SaveGoneCard(w) \/ FinishEvent(w) \/ DropEvent(w)
  <2>1. cards' = cards
    BY <1>1 DEF IgnoreHardBlocked, RouteEvent, ReadOpenCards, SaveGoneCard, FinishEvent,
                DropEvent
  <2> QED
    BY <2>1 DEF CardMoves
<1> QED
  BY <1>1, ArchiveMoves, DeleteOpenMoves, DuplicateMoves, SaveMoves, CreateMoves
     DEF HandleEvent


-----------------------------------------------------------------------------
(* The other steps.                                                        *)

LEMMA RefuseMoves ==
    ASSUME SInv, NEW r \in Requests, RefuseNextCard(r), NEW c \in CardIds
    PROVE  CardMoves(c)
<1>1. IInv /\ cards[c] \in Card
  BY DEF SInv, IInv, TypeOK
<1>2. CASE c \in StaleCards
  <2>1. cards'[c] = Requeued(cards[c]) /\ ~Locked(c) /\ IsStale(c)
    BY <1>2 DEF RefuseNextCard, Released, StaleCards
  <2>2. /\ cards'[c].product = cards[c].product
        /\ cards'[c].content = cards[c].content
        /\ cards'[c].status = "PENDING"
    BY <1>1, <2>1, RequeuedProduct, RequeuedHolder
  <2> QED
    BY <2>1, <2>2 DEF CardMoves, GivenAway, Locked, OpenStatuses
<1>3. CASE c \notin StaleCards
  BY <1>3 DEF RefuseNextCard, Released, CardMoves
<1> QED
  BY <1>2, <1>3

LEMMA AcquireMoves ==
    ASSUME SInv, NEW r \in Requests, AcquireNextCard(r), NEW c \in CardIds
    PROVE  CardMoves(c)
<1>1. IInv
  BY DEF SInv
<1>2. CASE cards'[c] = cards[c]
  BY <1>2 DEF CardMoves
<1>3. CASE cards'[c] # cards[c]
  <2>1. /\ c \in req[r].held \/ (~Locked(c) /\ cards[c].status = "PENDING")
        /\ cards'[c].product = cards[c].product
        /\ cards'[c].content = cards[c].content
        /\ cards'[c].status \in OpenStatuses
    BY <1>1, <1>3, AcquiredCards DEF OpenStatuses
  <2>2. IsStale(c) \/ cards[c].status = "PENDING"
    BY <2>1 DEF SInv, HeldStale
  <2>3. ASSUME NEW q \in Requests, Holds(q, c)
        PROVE  req'[q] = IdleRequest
    <3>1. Locked(c)
      BY <2>3 DEF Locked
    <3>2. Holds(r, c)
      BY <2>1, <3>1 DEF Holds
    <3>3. q = r
      BY <1>1, <2>3, <3>2 DEF IInv, LockedByOne
    <3> QED
      BY <1>1, <3>3 DEF AcquireNextCard, IInv, TypeOK
  <2> QED
    BY <2>1, <2>2, <2>3 DEF CardMoves, GivenAway
<1> QED
  BY <1>2, <1>3

LEMMA EnqueueMoves ==
    ASSUME SInv, NEW r \in Requests, NEW etype \in ManualTypes,
           NEW content \in 0..MaxContent, NEW live \in BOOLEAN,
           EnqueueManually(r, etype, content, live), NEW c \in CardIds
    PROVE  CardMoves(c)
<1>1. PICK d \in CardIds :
        /\ IsNextCard(d)
        /\ cards' = [cards EXCEPT ![d] = NewCard(req[r].product, etype, content, live)]
  BY DEF EnqueueManually
<1>2. CASE c = d
  <2>1. cards'[c].status = "PENDING"
    BY <1>1, <1>2, NewCardHolder DEF SInv, IInv, TypeOK
  <2> QED
    BY <1>1, <1>2, <2>1 DEF CardMoves, Appears, Enqueues, IsNextCard
<1>3. CASE c # d
  BY <1>1, <1>3 DEF SInv, IInv, TypeOK, CardMoves
<1> QED
  BY <1>2, <1>3

LEMMA CommitMoves ==
    ASSUME SInv, NEW r \in Requests, CommitDecision(r), NEW c \in CardIds
    PROVE  CardMoves(c)
<1>1. CASE c = req[r].card
  BY <1>1 DEF CardMoves, Committed
<1>2. CASE c # req[r].card
  BY <1>2 DEF CommitDecision, SInv, IInv, TypeOK, CardMoves
<1> QED
  BY <1>1, <1>2

LEMMA NextMoves ==
    ASSUME SInv, [Next]_queueVars, NEW c \in CardIds
    PROVE  CardMoves(c)
<1>1. ASSUME NEW w \in Workers, NEW ev \in Arrivals, Receive(w, ev)
      PROVE  CardMoves(c)
  BY <1>1 DEF Receive, CardMoves
<1>2. ASSUME NEW w \in Workers, HandleEvent(w) \/ DropEvent(w)
      PROVE  CardMoves(c)
  BY <1>2, HandlerMoves
<1>3. ASSUME NEW d \in CardIds, ReviewTimeout(d)
      PROVE  CardMoves(c)
  BY <1>3 DEF ReviewTimeout, SInv, IInv, TypeOK, CardMoves, TimesOut
<1>4. ASSUME NEW r \in Requests, ModeratorStep(r) \/ Answered(r)
      PROVE  CardMoves(c)
  <2>1. CASE UNCHANGED cards
    BY <2>1 DEF CardMoves
  <2>2. CASE cards' # cards
    <3>1. \/ RefuseNextCard(r) \/ AcquireNextCard(r) \/ CommitDecision(r)
          \/ \E etype \in ManualTypes, content \in 0..MaxContent, live \in BOOLEAN :
               EnqueueManually(r, etype, content, live)
      BY <1>4, <2>2 DEF ModeratorStep, Answered, CheckActiveReview, OpenTicket,
                        LockTicket, RefuseTicket, AbandonRequest, CheckEnqueue
    <3> QED
      BY <3>1, RefuseMoves, AcquireMoves, CommitMoves, EnqueueMoves
  <2> QED
    BY <2>1, <2>2
<1>5. CASE UNCHANGED queueVars
  BY <1>5 DEF queueVars, CardMoves
<1> QED
  BY <1>1, <1>2, <1>3, <1>4, <1>5 DEF Next


-----------------------------------------------------------------------------
(* SInv is kept.                                                           *)

LEMMA RequestFrame ==
    ASSUME SInv, [Next]_queueVars, NEW q \in Requests
    PROVE  \/ req'[q] = req[q]
           \/ req'[q].held = {} /\ ~Deciding(q)'
           \/ CheckActiveReview(q) \/ LockTicket(q) \/ Answered(q)
<1>1. req \in [Requests -> RequestState] /\ \A r \in Requests : req[r].pc = "idle" => req[r].held = {}
  BY DEF SInv, IInv, TypeOK, RequestShape
<1>2. CASE \/ \E w \in Workers, ev \in Arrivals : Receive(w, ev)
           \/ \E w \in Workers : HandleEvent(w) \/ DropEvent(w)
           \/ \E c \in CardIds : ReviewTimeout(c)
           \/ UNCHANGED queueVars
  BY <1>2 DEF Receive, HandleEvent, DropEvent, ReviewTimeout, ArchiveCards,
              IgnoreHardBlocked, RouteEvent, DeleteOpenCards, ReadOpenCards, SaveOpenCard,
              SaveGoneCard, DeleteDuplicate, FinishEvent, CreateCard, queueVars
<1>3. ASSUME NEW r \in Requests, ModeratorStep(r) \/ Answered(r)
      PROVE  \/ req'[q] = req[q]
             \/ req'[q].held = {} /\ ~Deciding(q)'
             \/ CheckActiveReview(q) \/ LockTicket(q) \/ Answered(q)
  <2>1. CASE RefuseNextCard(r)
    BY <2>1 DEF RefuseNextCard
  <2>2. CASE CheckActiveReview(r) \/ LockTicket(r) \/ Answered(r)
    BY <1>1, <2>2 DEF CheckActiveReview, LockTicket, Answered
  <2>3. CASE req' = [req EXCEPT ![r] = IdleRequest]
    BY <1>1, <2>3 DEF IdleRequest, Deciding
  <2>4. CASE \E c \in CardIds, action \in Actions : OpenTicket(r, c, action)
    BY <1>1, <2>4 DEF OpenTicket, Deciding, RequestState
  <2>5. CASE \E p \in Products : CheckEnqueue(r, p)
    BY <1>1, <2>5 DEF CheckEnqueue, Deciding, RequestState
  <2>6. \/ RefuseNextCard(r)
        \/ CheckActiveReview(r) \/ LockTicket(r) \/ Answered(r)
        \/ req' = [req EXCEPT ![r] = IdleRequest]
        \/ \E c \in CardIds, action \in Actions : OpenTicket(r, c, action)
        \/ \E p \in Products : CheckEnqueue(r, p)
    BY <1>3 DEF ModeratorStep, AcquireNextCard, RefuseTicket, AbandonRequest,
                CommitDecision, EnqueueManually
  <2> QED
    BY <2>1, <2>2, <2>3, <2>4, <2>5, <2>6
<1> QED
  BY <1>2, <1>3 DEF Next

LEMMA WorkerFrame ==
    ASSUME SInv, [Next]_queueVars, NEW v \in Workers
    PROVE  \/ worker'[v] = worker[v]
           \/ worker'[v].pc \notin {"read", "pruning"}
           \/ ReadOpenCards(v) \/ SaveOpenCard(v) \/ DeleteDuplicate(v)
<1>1. worker \in [Workers -> WorkerState]
  BY DEF SInv, IInv, TypeOK
<1>2. CASE UNCHANGED worker
  BY <1>2
<1>3. ASSUME NEW w \in Workers, NEW ev \in Arrivals, Receive(w, ev)
      PROVE  worker'[v] = worker[v] \/ worker'[v].pc \notin {"read", "pruning"}
  BY <1>1, <1>3 DEF Receive, WorkerState
<1>4. ASSUME NEW w \in Workers, HandleEvent(w) \/ DropEvent(w)
      PROVE  \/ worker'[v] = worker[v]
             \/ worker'[v].pc \notin {"read", "pruning"}
             \/ ReadOpenCards(v) \/ SaveOpenCard(v) \/ DeleteDuplicate(v)
  <2>1. CASE ReadOpenCards(w) \/ SaveOpenCard(w) \/ DeleteDuplicate(w)
    BY <1>1, <2>1 DEF ReadOpenCards, SaveOpenCard, DeleteDuplicate
  <2>2. CASE RouteEvent(w)
    BY <1>1, <2>2 DEF RouteEvent, WorkerState
  <2>3. CASE worker' = [worker EXCEPT ![w] = IdleWorker]
    BY <1>1, <2>3 DEF IdleWorker
  <2>4. \/ ReadOpenCards(w) \/ SaveOpenCard(w) \/ DeleteDuplicate(w) \/ RouteEvent(w)
        \/ worker' = [worker EXCEPT ![w] = IdleWorker]
    BY <1>4 DEF HandleEvent, DropEvent, ArchiveCards, IgnoreHardBlocked,
                DeleteOpenCards, SaveGoneCard, FinishEvent, CreateCard
  <2> QED
    BY <2>1, <2>2, <2>3, <2>4
<1>5. \/ UNCHANGED worker
      \/ \E w \in Workers, ev \in Arrivals : Receive(w, ev)
      \/ \E w \in Workers : HandleEvent(w) \/ DropEvent(w)
  BY ZenonT(30) DEF Next, ReviewTimeout, ModeratorStep, Answered, RefuseNextCard, CheckActiveReview,
         AcquireNextCard, OpenTicket, LockTicket, RefuseTicket, AbandonRequest,
         CommitDecision, CheckEnqueue, EnqueueManually, queueVars
<1> QED
  BY <1>2, <1>3, <1>4, <1>5

LEMMA LogFrame ==
    ASSUME [Next]_queueVars
    PROVE  log' = log \/ \E r \in Requests : CommitDecision(r)
  BY ZenonT(30) DEF Next, HandleEvent, DropEvent, Receive, ReviewTimeout, ArchiveCards,
         IgnoreHardBlocked, RouteEvent, DeleteOpenCards, ReadOpenCards, SaveOpenCard,
         SaveGoneCard, DeleteDuplicate, FinishEvent, CreateCard, ModeratorStep, Answered,
         RefuseNextCard, CheckActiveReview, AcquireNextCard, OpenTicket, LockTicket,
         RefuseTicket, AbandonRequest, CheckEnqueue, EnqueueManually, queueVars

(* A card that exists keeps its product until it is deleted, and a deleted *)
(* card does not come back.                                                *)
LEMMA ProductKept ==
    ASSUME SInv, [Next]_queueVars, NEW c \in CardIds, cards[c].status # "NONE"
    PROVE  \/ cards'[c].status = "GONE"
           \/ /\ cards[c].status # "GONE"
              /\ cards'[c].status # "NONE"
              /\ cards'[c].product = cards[c].product
<1>1. IInv /\ cards[c] \in Card /\ CardMoves(c)
  BY NextMoves DEF SInv, IInv, TypeOK
<1>2. ASSUME Committed(c)
      PROVE  cards[c].status # "GONE" /\ cards'[c].status # "NONE"
             /\ cards'[c].product = cards[c].product
  <2>1. PICK r \in Requests : req[r].card = c /\ CommitDecision(r)
    BY <1>2 DEF Committed
  <2>2. cards[c].status = "IN_REVIEW"
    BY <1>1, <2>1 DEF IInv, LockedReviews, CommitDecision, Deciding
  <2>3. /\ cards'[c].product = cards[c].product
        /\ cards'[c].status = DecidedStatus(req[r].op)
    BY <1>1, <2>1 DEF CommitDecision, IInv, TypeOK, Card
  <2> QED
    BY <2>2, <2>3 DEF DecidedStatus
<1>3. ASSUME TimesOut(c) \/ GivenAway(c) \/ Handled(c)
      PROVE  \/ cards'[c].status = "GONE"
             \/ /\ cards[c].status # "GONE"
                /\ cards'[c].status # "NONE"
                /\ cards'[c].product = cards[c].product
  BY <1>1, <1>3 DEF TimesOut, GivenAway, Handled, IsStale, OpenStatuses, Card
<1> QED
  BY <1>1, <1>2, <1>3 DEF CardMoves, Appears

LEMMA SeenInv == SInv /\ [Next]_queueVars => SeenCards'
<1> SUFFICES ASSUME SInv, [Next]_queueVars,
                    NEW v \in Workers, worker'[v].pc \in {"read", "pruning"},
                    NEW c \in worker'[v].seen
             PROVE  \/ cards'[c].status = "GONE"
                    \/ /\ cards'[c].status # "NONE"
                       /\ cards'[c].product = worker'[v].ev.product
  BY DEF SeenCards
<1>1. IInv /\ worker[v] \in WorkerState /\ worker \in [Workers -> WorkerState]
  BY DEF SInv, IInv, TypeOK
<1>2. CASE \/ worker'[v] = worker[v]
           \/ SaveOpenCard(v) \/ DeleteDuplicate(v)
  <2>1. /\ worker[v].pc \in {"read", "pruning"}
        /\ c \in worker[v].seen
        /\ worker'[v].ev = worker[v].ev
    BY <1>1, <1>2 DEF SaveOpenCard, DeleteDuplicate, WorkerState
  <2>2. c \in CardIds
    BY <1>1, <2>1 DEF WorkerState
  <2> QED
    BY <2>1, <2>2, ProductKept DEF SInv, SeenCards
<1>3. CASE ReadOpenCards(v)
  <2>1. /\ worker'[v].seen = OpenCards(worker[v].ev.product)
        /\ worker'[v].ev = worker[v].ev
        /\ cards' = cards
    BY <1>1, <1>3 DEF ReadOpenCards, WorkerState
  <2> QED
    BY <2>1 DEF OpenCards, CardsOf
<1> QED
  BY <1>2, <1>3, WorkerFrame

LEMMA HeldInv == SInv /\ [Next]_queueVars => HeldStale'
<1> SUFFICES ASSUME SInv, [Next]_queueVars,
                    NEW q \in Requests, NEW c \in req'[q].held
             PROVE  IsStale(c)'
  BY DEF HeldStale
<1>1. IInv /\ req \in [Requests -> RequestState]
  BY DEF SInv, IInv, TypeOK
<1>2. CASE CheckActiveReview(q)
  BY <1>1, <1>2 DEF CheckActiveReview, StaleCards, IsStale, RequestState
<1>3. CASE c \in req[q].held /\ req'[q].held = req[q].held
  <2>1. c \in CardIds /\ IsStale(c) /\ Locked(c) /\ Holds(q, c) /\ ~Deciding(q)
    BY <1>1, <1>3 DEF RequestState, SInv, HeldStale, Locked, Holds, IInv, RequestShape, Deciding
  <2>2. req'[q] # IdleRequest
    BY <1>3 DEF IdleRequest
  <2>3. ~Committed(c)
    BY <1>1, <2>1 DEF Committed, CommitDecision, IInv, LockedByOne, Holds, Deciding
  <2>4. cards[c] \in Card /\ CardMoves(c)
    BY <1>1, <2>1, NextMoves DEF IInv, TypeOK
  <2> QED
    BY <2>1, <2>2, <2>3, <2>4
       DEF CardMoves, Appears, Handled, TimesOut, GivenAway, IsStale, Card
<1>4. CASE LockTicket(q) \/ Answered(q)
  <2>1. req'[q].held = req[q].held
    BY <1>1, <1>4 DEF LockTicket, Answered, RequestState
  <2> QED
    BY <1>3, <2>1
<1> QED
  BY <1>2, <1>3, <1>4, RequestFrame

LEMMA ValidInv == SInv /\ [Next]_queueVars => StillValid'
<1> SUFFICES ASSUME SInv, [Next]_queueVars, NEW q \in Requests, Deciding(q)'
             PROVE  /\ req'[q].op = "approve" => cards'[req'[q].card].live
                    /\ <<req'[q].card, req'[q].op>> \notin log'
  BY DEF StillValid, AlreadyLogged
<1>1. IInv /\ req \in [Requests -> RequestState]
  BY DEF SInv, IInv, TypeOK
<1>2. CASE LockTicket(q)
  <2>1. /\ req'[q].card = req[q].card /\ req'[q].op = req[q].op
        /\ UNCHANGED <<cards, log>>
    BY <1>1, <1>2 DEF LockTicket, RequestState
  <2> QED
    BY <1>2, <2>1 DEF LockTicket, MayDecide, AlreadyLogged
<1>3. CASE /\ Deciding(q)
           /\ req'[q].card = req[q].card /\ req'[q].op = req[q].op
  <2> DEFINE c == req[q].card
  <2>1. c \in CardIds /\ Holds(q, c) /\ Locked(c) /\ cards[c].status = "IN_REVIEW"
    BY <1>1, <1>3 DEF IInv, RequestShape, Locked, Holds, LockedReviews
  <2>2. req'[q] # IdleRequest
    BY DEF IdleRequest, Deciding
  <2>3. ASSUME NEW r \in Requests, CommitDecision(r), req[r].card = c
        PROVE  FALSE
    <3>1. Holds(r, c)
      BY <2>3 DEF CommitDecision, Holds, Deciding
    <3>2. r = q
      BY <1>1, <2>1, <3>1 DEF IInv, LockedByOne
    <3>3. req' = [req EXCEPT ![r] = IdleRequest]
      BY <2>3 DEF CommitDecision
    <3>4. req'[r] = IdleRequest
      BY <1>1, <3>3
    <3> QED
      BY <2>2, <3>2, <3>4
  <2>4. <<c, req[q].op>> \notin log'
    <3>1. <<c, req[q].op>> \notin log
      BY <1>3 DEF SInv, StillValid, AlreadyLogged
    <3>2. CASE log' = log
      BY <3>1, <3>2
    <3>3. ASSUME NEW r \in Requests, CommitDecision(r)
          PROVE  <<c, req[q].op>> \notin log'
      <4>1. log' = log \union {<<req[r].card, req[r].op>>}
        BY <3>3 DEF CommitDecision
      <4>2. req[r].card # c
        BY <2>3, <3>3
      <4> QED
        BY <3>1, <4>1, <4>2
    <3> QED
      BY <3>2, <3>3, LogFrame
  <2>5. cards'[c].live = cards[c].live
    <3>1. cards[c] \in Card /\ CardMoves(c)
      BY <1>1, <2>1, NextMoves DEF IInv, TypeOK
    <3>2. ~Committed(c)
      BY <2>3 DEF Committed
    <3> HIDE DEF c
    <3> QED
      BY <2>1, <2>2, <3>1, <3>2 DEF CardMoves, Appears, Handled, TimesOut, GivenAway, Card
  <2> QED
    BY <1>3, <2>4, <2>5 DEF SInv, StillValid
<1>4. CASE req'[q] = req[q] \/ Answered(q)
  <2>1. Deciding(q) /\ req'[q].card = req[q].card /\ req'[q].op = req[q].op
    BY <1>1, <1>4 DEF Deciding, Answered, RequestState
  <2> QED
    BY <1>3, <2>1
<1>5. ~CheckActiveReview(q)
  BY <1>1 DEF CheckActiveReview, Deciding, RequestState
<1> QED
  BY <1>2, <1>4, <1>5, RequestFrame

LEMMA InitStep == Init => SInv
<1> SUFFICES ASSUME Init
             PROVE  SInv
  OBVIOUS
<1>1. SeenCards
  BY DEF Init, SeenCards, IdleWorker
<1>2. HeldStale /\ StillValid
  BY DEF Init, HeldStale, StillValid, IdleRequest, Deciding
<1> QED
  BY <1>1, <1>2, InitInv DEF SInv

LEMMA NextStep == SInv /\ [Next]_queueVars => SInv'
  BY NextInv, SeenInv, HeldInv, ValidInv DEF SInv

THEOREM StepInvariance == Spec => []SInv
  BY InitStep, NextStep, PTL DEF Spec

(* A card that is under review and not timed out leaves its holder by the  *)
(* holder's own decision or by an event for its product, and in no other   *)
(* way: not by the get-next of anybody.                                    *)
THEOREM ReviewsKept == Spec => FreshReviewKept
<1>1. ASSUME SInv, [Next]_queueVars
      PROVE  \A c \in CardIds :
               /\ cards[c].status = "IN_REVIEW"
               /\ cards[c].timer = "fresh"
               /\ cards'[c].assigned # cards[c].assigned
               => \/ \E r \in Requests :
                        /\ Owner[r] = cards[c].assigned
                        /\ req[r].pc = "answered" /\ req[r].card = c
                  \/ \E w \in Workers :
                        worker'[w] # worker[w] /\ worker[w].ev.product = cards[c].product
  <2> SUFFICES ASSUME NEW c \in CardIds, cards[c].status = "IN_REVIEW",
                      cards[c].timer = "fresh",
                      cards'[c].assigned # cards[c].assigned
               PROVE  \/ \E r \in Requests :
                            /\ Owner[r] = cards[c].assigned
                            /\ req[r].pc = "answered" /\ req[r].card = c
                      \/ \E w \in Workers : /\ worker'[w] # worker[w]
                                            /\ worker[w].ev.product = cards[c].product
    BY <1>1
  <2>1. IInv /\ cards[c] \in Card /\ CardMoves(c)
    BY <1>1, NextMoves DEF SInv, IInv, TypeOK
  <2>2. Handled(c) \/ Committed(c)
    BY <2>1 DEF CardMoves, Appears, TimesOut, GivenAway, IsStale, Card
  <2>3. CASE Handled(c)
    BY <2>3 DEF Handled
  <2>4. CASE Committed(c)
    BY <2>1, <2>4 DEF Committed, CommitDecision, IInv, LockedReviews, Deciding
  <2> QED
    BY <2>2, <2>3, <2>4
<1> QED
  BY <1>1, StepInvariance, PTL DEF FreshReviewKept, Spec

(* However long B2B takes to answer, a decision is committed on a card     *)
(* that is still in review with the moderator who took it, and an approval *)
(* on a snapshot that still lists a live SKU.                              *)
THEOREM HoldersDecide == Spec => DecidedByHolder
<1>1. ASSUME SInv, [Next]_queueVars
      PROVE  \A c \in CardIds, a \in Actions :
               <<c, a>> \in log' \ log =>
                  /\ cards[c].status = "IN_REVIEW"
                  /\ a = "approve" => cards[c].live
                  /\ \E r \in Requests : /\ req[r].card = c /\ req[r].op = a
                                         /\ Owner[r] = cards[c].assigned
  <2> SUFFICES ASSUME NEW c \in CardIds, NEW a \in Actions, <<c, a>> \in log' \ log
               PROVE  /\ cards[c].status = "IN_REVIEW"
                      /\ a = "approve" => cards[c].live
                      /\ \E r \in Requests : /\ req[r].card = c /\ req[r].op = a
                                             /\ Owner[r] = cards[c].assigned
    BY <1>1
  <2>1. PICK r \in Requests : CommitDecision(r)
    BY <1>1, LogFrame
  <2>2. req[r].card = c /\ req[r].op = a /\ Deciding(r)
    BY <2>1 DEF CommitDecision, Deciding
  <2> QED
    BY <1>1, <2>2 DEF SInv, IInv, LockedReviews, StillValid
<1> QED
  BY <1>1, StepInvariance, PTL DEF DecidedByHolder, Spec

(* A card goes from open to decided by a decision whose key is not in the  *)
(* log yet: the same action is never taken twice on a card.                *)
THEOREM DecisionsOnce == Spec => DecidedOnce
<1>1. ASSUME SInv, [Next]_queueVars
      PROVE  \A c \in CardIds :
               cards[c].status \in OpenStatuses /\ cards'[c].status \in DecidedStatuses
               => \E a \in Actions : /\ DecidedStatus(a) = cards'[c].status
                                     /\ <<c, a>> \notin log
  <2> SUFFICES ASSUME NEW c \in CardIds, cards[c].status \in OpenStatuses,
                      cards'[c].status \in DecidedStatuses
               PROVE  \E a \in Actions : /\ DecidedStatus(a) = cards'[c].status
                                         /\ <<c, a>> \notin log
    BY <1>1
  <2>1. IInv /\ cards[c] \in Card /\ CardMoves(c)
    BY <1>1, NextMoves DEF SInv, IInv, TypeOK
  <2>2. Committed(c)
    BY <2>1 DEF CardMoves, Appears, Handled, TimesOut, GivenAway, Card, OpenStatuses,
                DecidedStatuses
  <2>3. PICK r \in Requests : req[r].card = c /\ CommitDecision(r)
    BY <2>2 DEF Committed
  <2>4. Deciding(r) /\ req[r].op \in Actions
    BY <2>1, <2>3 DEF CommitDecision, Deciding, IInv, RequestShape
  <2>5. <<c, req[r].op>> \notin log
    BY <1>1, <2>3, <2>4 DEF SInv, StillValid, AlreadyLogged
  <2>6. cards'[c].status = DecidedStatus(req[r].op)
    BY <2>1, <2>3 DEF CommitDecision, IInv, TypeOK, Card
  <2> QED
    BY <2>4, <2>5, <2>6
<1> QED
  BY <1>1, StepInvariance, PTL DEF DecidedOnce, Spec


-----------------------------------------------------------------------------
(* One open card.  What enqueue_from_event reads without a lock may be out *)
(* of date when it saves or creates, but of a product that is not crowded  *)
(* only in the harmless direction: no open card is missing from the list   *)
(* of a handler, and handlers that have lists at once have the same one.   *)

SameList(v, w) == worker[v].seen = worker[w].seen /\ worker[w].seen # {}
OpenSeen ==
    \A p \in Products \ crowded : \A w \in Listed(p) :
        /\ \A c \in OpenCards(p) : c \in worker[w].seen
        /\ \A c, d \in worker[w].seen : c = d
        /\ \A v \in Listed(p) \ {w} : SameList(v, w)

OInv == OneOpenCard /\ OpenSeen

LEMMA OpenIs ==
    ASSUME NEW p, NEW c
    PROVE  c \in OpenCards(p) <=> /\ c \in CardIds /\ cards[c].product = p
                                  /\ cards[c].status \in OpenStatuses
  BY DEF OpenCards, CardsOf, OpenStatuses

LEMMA CrowdedFrame ==
    ASSUME [Next]_queueVars
    PROVE  \/ crowded' = crowded
           \/ \E w \in Workers : ReadOpenCards(w)
           \/ \E r \in Requests : Enqueues(r)
  BY ZenonT(60) DEF Next, HandleEvent, DropEvent, Receive, ReviewTimeout, ArchiveCards,
         IgnoreHardBlocked, RouteEvent, DeleteOpenCards, SaveOpenCard,
         SaveGoneCard, DeleteDuplicate, FinishEvent, CreateCard, ModeratorStep, Answered,
         RefuseNextCard, CheckActiveReview, AcquireNextCard, OpenTicket, LockTicket,
         RefuseTicket, AbandonRequest, CheckEnqueue, CommitDecision, Enqueues, queueVars

(* No other step than a save, a create or a manual enqueue opens a card.   *)
LEMMA OpenKept ==
    ASSUME SInv, [Next]_queueVars, \A r \in Requests : ~Enqueues(r),
           \A w \in Workers : ~SaveOpenCard(w) /\ ~CreateCard(w),
           NEW c \in CardIds, cards'[c].status \in OpenStatuses
    PROVE  cards[c].status \in OpenStatuses /\ cards'[c].product = cards[c].product
<1>1. IInv /\ cards[c] \in Card /\ CardMoves(c)
  BY NextMoves DEF SInv, IInv, TypeOK
<1>2. ~Committed(c)
  <2>1. ASSUME NEW r \in Requests, req[r].card = c, CommitDecision(r)
        PROVE  FALSE
    <3>1. cards'[c].status = DecidedStatus(req[r].op)
      BY <1>1, <2>1 DEF CommitDecision, IInv, TypeOK, Card
    <3> QED
      BY <3>1 DEF DecidedStatus, OpenStatuses
  <2> QED
    BY <2>1 DEF Committed
<1> QED
  BY <1>1, <1>2 DEF CardMoves, Appears, Handled, TimesOut, GivenAway, IsStale,
                    OpenStatuses, Card

(* When one handler gives up its list, and the cards that are open and not *)
(* this one card were open before, nothing changes but for its product.    *)
LEMMA ListEnds ==
    ASSUME OInv, NEW w \in Workers, NEW d \in CardIds, UNCHANGED crowded,
           NEW next \in WorkerState, next.pc # "read", worker \in [Workers -> WorkerState],
           w \in Listed(worker[w].ev.product),
           worker' = [worker EXCEPT ![w] = next],
           \A c \in CardIds \ {d} : cards'[c] = cards[c],
           cards'[d].product = worker[w].ev.product,
           worker[w].ev.product \notin crowded =>
               /\ \A c \in worker[w].seen : c = d
               /\ worker[w].seen = {} \/ cards[d].product = worker[w].ev.product,
           cards[d].product = worker[w].ev.product \/ cards[d].status \notin OpenStatuses
    PROVE  OInv'
<1> PICK q : q = worker[w].ev.product
  OBVIOUS
<1>1. \A v \in Workers : worker'[v] = IF v = w THEN next ELSE worker[v]
  OBVIOUS
<1>2. \A p : Listed(p)' = Listed(p) \ {w}
  BY <1>1 DEF Listed
<1>3. \A p : p # q => OpenCards(p)' = OpenCards(p)
  <2> SUFFICES ASSUME NEW p, p # q
               PROVE  OpenCards(p)' = OpenCards(p)
    OBVIOUS
  <2>1. \A c \in CardIds : /\ cards'[c].product = p /\ cards'[c].status \in OpenStatuses
                           <=> cards[c].product = p /\ cards[c].status \in OpenStatuses
    OBVIOUS
  <2> QED
    BY <2>1 DEF OpenCards, CardsOf, OpenStatuses
<1>4. \A c \in OpenCards(q)' : q \notin crowded => c = d
  <2> SUFFICES ASSUME NEW c \in OpenCards(q)', q \notin crowded, c # d
               PROVE  FALSE
    OBVIOUS
  <2>0. c \in CardIds /\ cards'[c].product = q /\ cards'[c].status \in OpenStatuses
    BY DEF OpenCards, CardsOf
  <2>1. cards[c].product = q /\ cards[c].status \in OpenStatuses
    BY <2>0
  <2>2. worker[w] \in WorkerState
    OBVIOUS
  <2>3. q \in Products
    BY <2>2 DEF WorkerState, Events
  <2>4. c \in OpenCards(q)
    BY <2>0, <2>1, OpenIs
  <2>5. c \in worker[w].seen
    BY <2>3, <2>4 DEF OInv, OpenSeen
  <2> QED
    BY <2>5
<1>5. OneOpenCard'
  <2> SUFFICES ASSUME NEW p \in Products \ crowded, NEW b \in OpenCards(p)',
                      NEW c \in OpenCards(p)'
               PROVE  b = c
    BY DEF OneOpenCard, OpenCards, CardsOf, OpenStatuses
  <2>1. CASE p = q
    BY <1>4, <2>1
  <2>2. CASE p # q
    BY <1>3, <2>2 DEF OInv, OneOpenCard, OpenCards, CardsOf
  <2> QED
    BY <2>1, <2>2
<1>6. OpenSeen'
  <2> SUFFICES ASSUME NEW p \in Products \ crowded, NEW v \in Listed(p)'
               PROVE  /\ \A c \in OpenCards(p)' : c \in worker'[v].seen
                      /\ \A b, c \in worker'[v].seen : b = c
                      /\ \A u \in Listed(p)' \ {v} : SameList(u, v)'
    BY DEF OpenSeen
  <2>1. v \in Listed(p) /\ v # w /\ worker'[v] = worker[v] /\ v \in Workers
    BY <1>1, <1>2 DEF Listed
  <2>2. \A b, c \in worker'[v].seen : b = c
    BY <2>1 DEF OInv, OpenSeen
  <2>3. \A u \in Listed(p)' \ {v} : SameList(u, v)'
    BY <1>1, <1>2, <2>1 DEF OInv, OpenSeen, SameList, Listed
  <2>4. ASSUME NEW c \in OpenCards(p)'
        PROVE  c \in worker'[v].seen
    <3>1. CASE p # q
      BY <1>3, <2>1, <2>4, <3>1 DEF OInv, OpenSeen
    <3>2. CASE p = q
      <4>1. SameList(v, w) /\ c = d
        BY <1>4, <2>1, <2>4, <3>2 DEF OInv, OpenSeen
      <4> QED
        BY <2>1, <3>2, <4>1 DEF SameList
    <3> QED
      BY <3>1, <3>2
  <2> QED
    BY <2>2, <2>3, <2>4
<1> QED
  BY <1>5, <1>6 DEF OInv

LEMMA SaveKeepsOne ==
    ASSUME SInv, OInv, NEW w \in Workers, SaveOpenCard(w)
    PROVE  OInv'
<1> PICK first : first = Oldest(worker[w].seen)
  OBVIOUS
<1>1. /\ first \in CardIds /\ first \in worker[w].seen
      /\ cards[first].product = worker[w].ev.product
      /\ cards'[first].product = cards[first].product
      /\ \A c \in CardIds \ {first} : cards'[c] = cards[c]
      /\ worker[w].pc = "read"
      /\ worker' = [worker EXCEPT ![w].pc = "pruning", ![w].seen = @ \ {first}]
  BY SavedCard
<1>2. worker[w] \in WorkerState /\ worker \in [Workers -> WorkerState] /\ UNCHANGED crowded
  BY DEF SInv, IInv, TypeOK, SaveOpenCard
<1>3. PICK next : next = [worker[w] EXCEPT !.pc = "pruning", !.seen = @ \ {first}]
  OBVIOUS
<1>4. next \in WorkerState /\ next.pc = "pruning"
  BY <1>2, <1>3 DEF WorkerState
<1>5. worker' = [worker EXCEPT ![w] = next]
  BY <1>1, <1>3
<1>6. w \in Listed(worker[w].ev.product) /\ worker[w].ev.product \in Products
  BY <1>1, <1>2 DEF Listed, WorkerState, Events
<1>7. worker[w].ev.product \notin crowded => \A c \in worker[w].seen : c = first
  BY <1>1, <1>6 DEF OInv, OpenSeen
<1>8. /\ cards'[first].product = worker[w].ev.product
      /\ next.pc # "read" /\ w \in Listed(worker[w].ev.product)
      /\ worker[w].ev.product \notin crowded =>
           /\ \A c \in worker[w].seen : c = first
           /\ worker[w].seen = {} \/ cards[first].product = worker[w].ev.product
      /\ \/ cards[first].product = worker[w].ev.product
         \/ cards[first].status \notin OpenStatuses
  BY <1>1, <1>4, <1>6, <1>7
<1>9. first \in CardIds /\ \A c \in CardIds \ {first} : cards'[c] = cards[c]
  BY <1>1
<1> QED
  BY <1>2, <1>4, <1>5, <1>8, <1>9, ListEnds

LEMMA CreateKeepsOne ==
    ASSUME SInv, OInv, NEW w \in Workers, CreateCard(w)
    PROVE  OInv'
<1>1. PICK d \in CardIds :
        /\ IsNextCard(d)
        /\ cards' = [cards EXCEPT ![d] = NewCard(worker[w].ev.product,
                        StoredType(worker[w].ev), worker[w].ev.content, worker[w].ev.live)]
  BY DEF CreateCard
<1>2. /\ worker[w].pc = "read" /\ worker[w].seen = {} /\ UNCHANGED crowded
      /\ worker' = [worker EXCEPT ![w] = IdleWorker]
  BY DEF CreateCard
<1>3. /\ cards'[d].product = worker[w].ev.product
      /\ \A c \in CardIds \ {d} : cards'[c] = cards[c]
  BY <1>1, NewCardProduct DEF SInv, IInv, TypeOK
<1>4. cards[d].status \notin OpenStatuses
  BY <1>1 DEF IsNextCard, OpenStatuses
<1>5. IdleWorker \in WorkerState /\ IdleWorker.pc # "read" /\ worker \in [Workers -> WorkerState]
  BY IdleWorkerType DEF IdleWorker, SInv, IInv, TypeOK
<1>6. w \in Listed(worker[w].ev.product)
  BY <1>2 DEF Listed
<1> QED
  BY <1>2, <1>3, <1>4, <1>5, <1>6, ListEnds

(* A list that is read while another handler has one is the same, or the   *)
(* product is crowded.                                                     *)
LEMMA ReadKeepsOne ==
    ASSUME SInv, OInv, NEW w \in Workers, ReadOpenCards(w)
    PROVE  OInv'
<1> DEFINE q == worker[w].ev.product
<1>1. worker[w] \in WorkerState /\ worker \in [Workers -> WorkerState] /\ q \in Products
  BY DEF SInv, IInv, TypeOK, WorkerState, Events
<1>2. /\ worker'[w].seen = OpenCards(q) /\ worker'[w].ev = worker[w].ev
      /\ worker'[w].pc = "read" /\ worker[w].pc = "listing"
      /\ \A v \in Workers \ {w} : worker'[v] = worker[v]
      /\ cards' = cards
  BY <1>1 DEF ReadOpenCards, WorkerState
<1>3. /\ crowded \subseteq crowded'
      /\ Listed(q) # {} /\ ~HasOpenCard(q) => q \in crowded'
  BY DEF ReadOpenCards
<1>4. \A p : OpenCards(p)' = OpenCards(p)
  BY <1>2 DEF OpenCards, CardsOf
<1>5. \A p : Listed(p)' = IF p = q THEN Listed(p) \union {w} ELSE Listed(p)
  BY <1>2 DEF Listed
<1>6. OneOpenCard'
  BY <1>2, <1>3 DEF OInv, OneOpenCard
<1>7. \A b, c \in OpenCards(q) : q \notin crowded => b = c
  BY <1>1, OpenIs DEF OInv, OneOpenCard
<1>8. ASSUME q \notin crowded', NEW v \in Listed(q)
      PROVE  worker[v].seen = OpenCards(q) /\ OpenCards(q) # {} /\ v # w
  <2>1. q \notin crowded /\ HasOpenCard(q)
    BY <1>3, <1>8
  <2>2. OpenCards(q) # {}
    BY <2>1, OpenIs DEF HasOpenCard
  <2>3. /\ \A c \in OpenCards(q) : c \in worker[v].seen
        /\ \A c, d \in worker[v].seen : c = d
    BY <1>1, <1>8, <2>1 DEF OInv, OpenSeen
  <2> QED
    BY <1>2, <1>8, <2>2, <2>3 DEF Listed
<1>9. OpenSeen'
  <2> SUFFICES ASSUME NEW p \in Products \ crowded', NEW v \in Listed(p)'
               PROVE  /\ \A c \in OpenCards(p) : c \in worker'[v].seen
                      /\ \A b, c \in worker'[v].seen : b = c
                      /\ \A u \in Listed(p)' \ {v} : SameList(u, v)'
    BY <1>4 DEF OpenSeen
  <2>1. p \in Products \ crowded
    BY <1>3
  <2>2. CASE p # q
    <3>1. \A u \in Listed(p) : u # w /\ worker'[u] = worker[u]
      BY <1>2, <2>2 DEF Listed
    <3> QED
      BY <1>5, <2>1, <2>2, <3>1 DEF OInv, OpenSeen, SameList
  <2>3. CASE p = q
    <3>1. \A u \in Listed(p)' : worker'[u].seen = OpenCards(q)
      BY <1>2, <1>5, <1>8, <2>3 DEF Listed
    <3>2. ASSUME NEW u \in Listed(p)' \ {v}
          PROVE  OpenCards(q) # {}
      <4>1. u \in Listed(q) \/ v \in Listed(q)
        BY <1>5, <2>3
      <4> QED
        BY <1>8, <2>3, <4>1
    <3> QED
      BY <1>7, <2>1, <2>3, <3>1, <3>2 DEF SameList
  <2> QED
    BY <2>2, <2>3
<1> QED
  BY <1>6, <1>9 DEF OInv

LEMMA EnqueueKeepsOne ==
    ASSUME SInv, OInv, NEW r \in Requests, Enqueues(r)
    PROVE  OInv'
<1> DEFINE q == req[r].product
<1>1. PICK etype \in ManualTypes, content \in 0..MaxContent, live \in BOOLEAN :
        EnqueueManually(r, etype, content, live)
  BY DEF Enqueues
<1>2. PICK d \in CardIds :
        IsNextCard(d) /\ cards' = [cards EXCEPT ![d] = NewCard(q, etype, content, live)]
  BY <1>1 DEF EnqueueManually
<1>3. /\ cards'[d].product = q /\ cards[d].status \notin OpenStatuses
      /\ \A c \in CardIds \ {d} : cards'[c] = cards[c]
  BY <1>2, NewCardProduct DEF IsNextCard, OpenStatuses, SInv, IInv, TypeOK
<1>4. /\ crowded \subseteq crowded' /\ UNCHANGED worker
      /\ q \notin crowded' => Listed(q) = {} /\ ~HasOpenCard(q)
  BY <1>1 DEF EnqueueManually
<1>5. \A p : Listed(p)' = Listed(p)
  BY <1>4 DEF Listed
<1>6. ASSUME NEW p \in Products \ crowded', NEW c \in OpenCards(p)'
      PROVE  \/ p = q /\ c = d
             \/ p # q /\ c \in OpenCards(p)
  <2>1. c \in CardIds /\ cards'[c].product = p /\ cards'[c].status \in OpenStatuses
    BY <1>6 DEF OpenCards, CardsOf
  <2>2. CASE c = d
    BY <1>3, <2>1, <2>2
  <2>3. CASE c # d
    <3>1. c \in OpenCards(p) /\ HasOpenCard(p)
      BY <1>3, <2>1, <2>3, OpenIs DEF HasOpenCard
    <3> QED
      BY <1>4, <3>1
  <2> QED
    BY <2>2, <2>3
<1>7. OneOpenCard'
  <2> SUFFICES ASSUME NEW p \in Products \ crowded', NEW b \in OpenCards(p)',
                      NEW c \in OpenCards(p)'
               PROVE  b = c
    BY DEF OneOpenCard, OpenCards, CardsOf, OpenStatuses
  <2>1. p \notin crowded
    BY <1>4
  <2> QED
    BY <1>6, <2>1, OpenIs DEF OInv, OneOpenCard
<1>8. OpenSeen'
  <2> SUFFICES ASSUME NEW p \in Products \ crowded', NEW w \in Listed(p)
               PROVE  /\ \A c \in OpenCards(p)' : c \in worker[w].seen
                      /\ \A b, c \in worker[w].seen : b = c
                      /\ \A v \in Listed(p) \ {w} : SameList(v, w)
    BY <1>4, <1>5 DEF OpenSeen, SameList
  <2>1. p \notin crowded /\ p # q
    BY <1>4
  <2> QED
    BY <1>6, <2>1 DEF OInv, OpenSeen
<1> QED
  BY <1>7, <1>8 DEF OInv

(* Every other step leaves lists as they are or ends them, and closes open *)
(* cards if anything.                                                      *)
LEMMA OthersKeepOne ==
    ASSUME SInv, OInv, [Next]_queueVars, \A r \in Requests : ~Enqueues(r),
           \A w \in Workers : ~SaveOpenCard(w) /\ ~CreateCard(w) /\ ~ReadOpenCards(w)
    PROVE  OInv'
<1>1. UNCHANGED crowded
  BY CrowdedFrame
<1>2. \A c \in CardIds : cards'[c].status \in OpenStatuses =>
        cards[c].status \in OpenStatuses /\ cards'[c].product = cards[c].product
  BY OpenKept
<1>3. ASSUME NEW p, NEW w \in Listed(p)'
      PROVE  w \in Listed(p) /\ worker'[w] = worker[w]
  <2>1. w \in Workers /\ worker'[w].pc = "read" /\ worker'[w].ev.product = p
    BY <1>3 DEF Listed
  <2>2. ~DeleteDuplicate(w)
    BY <2>1 DEF DeleteDuplicate, SInv, IInv, TypeOK, WorkerState
  <2> QED
    BY <2>1, <2>2, WorkerFrame DEF Listed
<1>4. \A p : \A c \in OpenCards(p)' : c \in OpenCards(p)
  BY <1>2 DEF OpenCards, CardsOf, OpenStatuses
<1>5. OneOpenCard'
  BY <1>1, <1>2 DEF OInv, OneOpenCard
<1>6. OpenSeen'
  BY <1>1, <1>3, <1>4 DEF OInv, OpenSeen, SameList
<1> QED
  BY <1>5, <1>6 DEF OInv

LEMMA NextKeepsOne == SInv /\ OInv /\ [Next]_queueVars => OInv'
  BY SaveKeepsOne, CreateKeepsOne, ReadKeepsOne, EnqueueKeepsOne, OthersKeepOne

(* A product never has two open cards, whatever its events, however many   *)
(* handlers take them and however its cards are decided, timed out or      *)
(* deleted in between, unless a handler has found no open card while       *)
(* another had listed them, or a moderator has enqueued the product by     *)
(* hand over an open card or over such a list.                             *)
THEOREM OneCardOpen == Spec => []OneOpenCard
<1>1. Init => OInv
  BY DEF Init, OInv, OneOpenCard, OpenSeen, Listed, NoCard, IdleWorker, OpenStatuses
<1>2. OInv => OneOpenCard
  BY DEF OInv
<1> QED
  BY <1>1, <1>2, NextKeepsOne, StepInvariance, PTL DEF Spec

=============================================================================
