------------------------ MODULE ModerationPipeline_proofs ------------------------
(***************************************************************************)
(* What holds of a product on its way between B2B and moderation, for any  *)
(* number of SKUs, moderators, requests, calls, cards and rows.  Every     *)
(* step of the pipeline is a step of ModerationQueue or of                 *)
(* ProductLifecycle, or leaves it alone, so what is proved of the two      *)
(* holds in the composition; what is proved here is what passes between    *)
(* them.                                                                   *)
(***************************************************************************)
EXTENDS ModerationPipeline, TLAPS

(* The events that outbox rows can become.                                 *)
RowEvents == [product : {Product},
              type : {"CREATED", "UPDATED", "EDITED", "DELETED", "OTHER"},
              status : {"NONE", "CREATED", "ON_MODERATION", "MODERATED",
                        "BLOCKED", "HARD_BLOCKED"},
              live : BOOLEAN, content : 0..MaxContent]

(* The two components again, with what is proved of them.                  *)
QueueP == INSTANCE ModerationQueue_proofs WITH
              Products <- {Product}, InStock <- {Product},
              Workers <- {Consumer}, Arrivals <- RowEvents
B2BP == INSTANCE ProductLifecycle_proofs WITH
            Sellers <- {Seller}, Tickets <- 1..MaxCards

LEMMA QueueAssumed == QueueP!QueueAssumption
  BY PipelineAssumption
     DEF PipelineAssumption, QueueP!QueueAssumption, RowEvents, QueueP!Events,
         QueueP!CardTypes, Queue!CardTypes

LEMMA B2BAssumed == B2BP!LifecycleAssumption
  BY PipelineAssumption
     DEF PipelineAssumption, B2BP!LifecycleAssumption, B2BP!Decisions, B2B!Decisions,
         B2BP!Verdicts, B2B!Verdicts

(* Their definitions are the ones the pipeline is made of.                 *)
LEMMA SameHandler ==
    /\ Queue!HandleEvent(Consumer) <=> QueueP!HandleEvent(Consumer)
    /\ \A ev : Queue!Receive(Consumer, ev) <=> QueueP!Receive(Consumer, ev)
  BY DEF Queue!CardIds, QueueP!CardIds, Queue!Actions, QueueP!Actions,
         Queue!CardTypes, QueueP!CardTypes, Queue!OpenStatuses,
         QueueP!OpenStatuses, Queue!DecidedStatuses,
         QueueP!DecidedStatuses, Queue!CardStatuses, QueueP!CardStatuses,
         Queue!Card, QueueP!Card, Queue!Events, QueueP!Events,
         Queue!AnyProduct, QueueP!AnyProduct, Queue!NoEvent,
         QueueP!NoEvent, Queue!IdleRequest, QueueP!IdleRequest,
         Queue!IdleWorker, QueueP!IdleWorker, Queue!RequestState,
         QueueP!RequestState, Queue!WorkerState, QueueP!WorkerState,
         Queue!TypeOK, QueueP!TypeOK, Queue!NoCard, QueueP!NoCard,
         Queue!CardsOf, QueueP!CardsOf, Queue!OpenCards, QueueP!OpenCards,
         Queue!HardBlocked, QueueP!HardBlocked, Queue!Deciding,
         QueueP!Deciding, Queue!Holds, QueueP!Holds, Queue!Locked,
         QueueP!Locked, Queue!Oldest, QueueP!Oldest, Queue!IsNextCard,
         QueueP!IsNextCard, Queue!ComputePriority, QueueP!ComputePriority,
         Queue!Deleted, QueueP!Deleted, Queue!NewCard, QueueP!NewCard,
         Queue!StoredType, QueueP!StoredType, Queue!RequiresModeration,
         QueueP!RequiresModeration, Queue!Receive, QueueP!Receive,
         Queue!ArchiveCards, QueueP!ArchiveCards, Queue!IgnoreHardBlocked,
         QueueP!IgnoreHardBlocked, Queue!RouteEvent, QueueP!RouteEvent,
         Queue!DeleteOpenCards, QueueP!DeleteOpenCards,
         Queue!ReadOpenCards, QueueP!ReadOpenCards, Queue!WithSnapshot,
         QueueP!WithSnapshot, Queue!Requeued, QueueP!Requeued,
         Queue!Refreshed, QueueP!Refreshed, Queue!SaveOpenCard,
         QueueP!SaveOpenCard, Queue!DeleteDuplicate,
         QueueP!DeleteDuplicate, Queue!FinishEvent, QueueP!FinishEvent,
         Queue!Listed, QueueP!Listed, Queue!HasOpenCard,
         QueueP!HasOpenCard, Queue!CreateCard, QueueP!CreateCard,
         Queue!SaveGoneCard, QueueP!SaveGoneCard, Queue!HandleEvent,
         QueueP!HandleEvent

LEMMA SameRequests ==
    ASSUME NEW r \in Requests
    PROVE  /\ Queue!ModeratorStep(r) <=> QueueP!ModeratorStep(r)
           /\ Queue!Answered(r) <=> QueueP!Answered(r)
  BY DEF Queue!CardIds, QueueP!CardIds, Queue!Actions, QueueP!Actions,
         Queue!CardTypes, QueueP!CardTypes, Queue!OpenStatuses,
         QueueP!OpenStatuses, Queue!DecidedStatuses,
         QueueP!DecidedStatuses, Queue!CardStatuses, QueueP!CardStatuses,
         Queue!AnyProduct, QueueP!AnyProduct, Queue!IdleRequest,
         QueueP!IdleRequest, Queue!NoCard, QueueP!NoCard, Queue!CardsOf,
         QueueP!CardsOf, Queue!OpenCards, QueueP!OpenCards,
         Queue!HardBlocked, QueueP!HardBlocked, Queue!Deciding,
         QueueP!Deciding, Queue!Holds, QueueP!Holds, Queue!Locked,
         QueueP!Locked, Queue!Oldest, QueueP!Oldest, Queue!IsNextCard,
         QueueP!IsNextCard, Queue!ComputePriority, QueueP!ComputePriority,
         Queue!NewCard, QueueP!NewCard, Queue!Requeued, QueueP!Requeued,
         Queue!ReviewTimeout, QueueP!ReviewTimeout, Queue!IsStale,
         QueueP!IsStale, Queue!StaleCards, QueueP!StaleCards,
         Queue!Released, QueueP!Released, Queue!HasActiveReview,
         QueueP!HasActiveReview, Queue!RefuseNextCard,
         QueueP!RefuseNextCard, Queue!CheckActiveReview,
         QueueP!CheckActiveReview, Queue!AcquireNextCard,
         QueueP!AcquireNextCard, Queue!EditedDuringReview,
         QueueP!EditedDuringReview, Queue!MayDecide, QueueP!MayDecide,
         Queue!OpenTicket, QueueP!OpenTicket, Queue!AlreadyLogged,
         QueueP!AlreadyLogged, Queue!LockTicket, QueueP!LockTicket,
         Queue!RefuseTicket, QueueP!RefuseTicket, Queue!Answered,
         QueueP!Answered, Queue!AbandonRequest, QueueP!AbandonRequest,
         Queue!DecidedStatus, QueueP!DecidedStatus, Queue!CommitDecision,
         QueueP!CommitDecision, Queue!CheckEnqueue, QueueP!CheckEnqueue,
         Queue!EnqueueManually, QueueP!EnqueueManually, Queue!Listed,
         QueueP!Listed, Queue!HasOpenCard, QueueP!HasOpenCard,
         Queue!ModeratorStep, QueueP!ModeratorStep

LEMMA SameStates ==
    /\ Queue!Init <=> QueueP!Init
    /\ Queue!TypeOK <=> QueueP!TypeOK
    /\ Queue!CardIds = QueueP!CardIds
    /\ \A c : Queue!ReviewTimeout(c) <=> QueueP!ReviewTimeout(c)
  BY DEF Queue!Init, QueueP!Init, Queue!TypeOK, QueueP!TypeOK,
         Queue!CardIds, QueueP!CardIds, Queue!Card, QueueP!Card,
         Queue!CardTypes, QueueP!CardTypes, Queue!CardStatuses,
         QueueP!CardStatuses, Queue!OpenStatuses, QueueP!OpenStatuses,
         Queue!DecidedStatuses, QueueP!DecidedStatuses, Queue!Actions,
         QueueP!Actions, Queue!RequestState, QueueP!RequestState,
         Queue!WorkerState, QueueP!WorkerState, Queue!Events,
         QueueP!Events, Queue!NoCard, QueueP!NoCard, Queue!IdleRequest,
         QueueP!IdleRequest, Queue!IdleWorker, QueueP!IdleWorker,
         Queue!NoEvent, QueueP!NoEvent, Queue!AnyProduct,
         QueueP!AnyProduct, Queue!ReviewTimeout, QueueP!ReviewTimeout

LEMMA SameB2B ==
    /\ B2B!Init <=> B2BP!Init
    /\ B2B!TypeOK <=> B2BP!TypeOK
    /\ B2B!CreateProduct <=> B2BP!CreateProduct
    /\ B2B!SellerStep(Seller) <=> B2BP!SellerStep(Seller)
    /\ \A c : B2B!Decide(c) <=> B2BP!Decide(c)
    /\ \A c : B2B!CallFails(c) <=> B2BP!CallFails(c)
    /\ \A c, d : B2B!Deliver(c, d) <=> B2BP!Deliver(c, d)
  BY DEF B2B!Verdicts, B2BP!Verdicts, B2B!Statuses, B2BP!Statuses,
         B2B!Decisions, B2BP!Decisions, B2B!ProductRow, B2BP!ProductRow,
         B2B!NoProduct, B2BP!NoProduct, B2B!Marked, B2BP!Marked,
         B2B!SkuStates, B2BP!SkuStates, B2B!SnapshotEvents,
         B2BP!SnapshotEvents, B2B!ShopEvents, B2BP!ShopEvents,
         B2B!OutboxRow, B2BP!OutboxRow, B2B!Operations, B2BP!Operations,
         B2B!SellerState, B2BP!SellerState, B2B!ASku, B2BP!ASku,
         B2B!IdleSeller, B2BP!IdleSeller, B2B!TypeOK, B2BP!TypeOK,
         B2B!Init, B2BP!Init, B2B!Live, B2BP!Live, B2B!Row, B2BP!Row,
         B2B!ForShops, B2BP!ForShops, B2B!SkuLocked, B2BP!SkuLocked,
         B2B!Write, B2BP!Write, B2B!Start, B2BP!Start, B2B!Finish,
         B2BP!Finish, B2B!NotHardBlocked, B2BP!NotHardBlocked,
         B2B!WasDecided, B2BP!WasDecided, B2B!PutOnModeration,
         B2BP!PutOnModeration, B2B!CreateProduct, B2BP!CreateProduct,
         B2B!EditRead, B2BP!EditRead, B2B!SavedAs, B2BP!SavedAs,
         B2B!EditWrite, B2BP!EditWrite, B2B!AddRead, B2BP!AddRead,
         B2B!AddWrite, B2BP!AddWrite, B2B!EditSkuRead, B2BP!EditSkuRead,
         B2B!EditSkuWrite, B2BP!EditSkuWrite, B2B!EditSkuSnapshot,
         B2BP!EditSkuSnapshot, B2B!EditSkuAnnounce, B2BP!EditSkuAnnounce,
         B2B!DropSkuRead, B2BP!DropSkuRead, B2B!DropSkuSave,
         B2BP!DropSkuSave, B2B!DropSkuCommit, B2BP!DropSkuCommit, B2B!DropRead, B2BP!DropRead, B2B!DropWrite,
         B2BP!DropWrite, B2B!SellerFails, B2BP!SellerFails, B2B!Recorded,
         B2BP!Recorded, B2B!Deliver, B2BP!Deliver, B2B!DecisionRows,
         B2BP!DecisionRows, B2B!Apply, B2BP!Apply, B2B!Decide,
         B2BP!Decide, B2B!CallFails, B2BP!CallFails, B2B!SellerStep,
         B2BP!SellerStep

-----------------------------------------------------------------------------
(* Types, and the refinement of the two components.                        *)

Snapshot == [content : 0..MaxContent, live : BOOLEAN]
Links ==
    /\ content \in 0..MaxContent
    /\ carried \in Seq(Snapshot)
    /\ Len(carried) = Len(outbox)
    /\ reached \in 0..Len(outbox)
    /\ sent \in [Requests -> BOOLEAN]
    /\ byHand \subseteq Queue!CardIds

Sound == QueueP!SInv /\ B2BP!IInv /\ Links

LEMMA OutboxShape ==
    ASSUME Sound
    PROVE  /\ outbox \in Seq(B2BP!OutboxRow)
           /\ Len(outbox) \in Nat
           /\ DOMAIN outbox = 1..Len(outbox) /\ DOMAIN carried = 1..Len(outbox)
           /\ \A i \in 1..Len(outbox) : /\ outbox[i] \in B2BP!OutboxRow
                                        /\ carried[i] \in Snapshot
  BY DEF Sound, B2BP!IInv, B2BP!TypeOK, Links

LEMMA RowEvent ==
    ASSUME Sound, NEW i \in 1..Len(outbox)
    PROVE  EventOf(i) \in RowEvents
<1>1. outbox[i] \in B2BP!OutboxRow /\ carried[i] \in Snapshot
  BY OutboxShape
<1>2. outbox[i].snapshot.status \in B2BP!Statuses \union {"NONE"}
  BY <1>1 DEF B2BP!OutboxRow, B2BP!ProductRow
<1>3. CASE outbox[i].event \in B2B!SnapshotEvents
  BY <1>1, <1>2, <1>3 DEF EventOf, RowEvents, B2B!SnapshotEvents, B2BP!Statuses,
                          B2BP!Verdicts, Snapshot
<1>4. CASE outbox[i].event \notin B2B!SnapshotEvents
  <2>1. Queue!AnyProduct \in {Product}
    BY DEF Queue!AnyProduct
  <2>2. 0 \in 0..MaxContent
    BY PipelineAssumption DEF PipelineAssumption
  <2>3. Queue!NoEvent \in RowEvents
    BY <2>1, <2>2 DEF Queue!NoEvent, RowEvents
  <2> QED
    BY <1>4, <2>3 DEF EventOf, RowEvents
<1> QED
  BY <1>3, <1>4

(* Every step of the pipeline is one of the queue's or leaves it alone ... *)
LEMMA QueueSteps ==
    ASSUME Sound, [Next]_pipelineVars
    PROVE  [QueueP!Next]_(QueueP!queueVars)
<1>1. CASE \/ Create \/ SellerStep \/ \E c \in Calls : CallStep(c)
           \/ \E r \in Requests, c \in Calls : Send(r, c)
           \/ UNCHANGED pipelineVars
  BY <1>1 DEF Create, SellerStep, CallStep, Send, pipelineVars, queueVars, QueueP!queueVars
<1>2. CASE Deliver
  <2>1. Queue!Receive(Consumer, EventOf(reached + 1)) /\ reached + 1 \in 1..Len(outbox)
    BY <1>2, OutboxShape DEF Deliver, Sound, Links
  <2>2. EventOf(reached + 1) \in RowEvents
    BY <2>1, RowEvent
  <2> QED
    BY <2>1, <2>2, SameHandler DEF QueueP!Next
<1>3. CASE Handle
  BY <1>3, SameHandler DEF Handle, QueueP!Next
<1>4. ASSUME NEW r \in Requests, Answer(r) \/ ModeratorStep(r)
      PROVE  QueueP!Next
  BY <1>4, SameRequests DEF Answer, ModeratorStep, QueueP!Next
<1>5. CASE ReviewTimeout
  BY <1>5, SameStates DEF ReviewTimeout, QueueP!Next
<1> QED
  BY <1>1, <1>2, <1>3, <1>4, <1>5 DEF Next

(* ... and one of B2B's or leaves that alone: what a moderator sends is a  *)
(* decision on a card.                                                     *)
LEMMA SentDecision ==
    ASSUME Sound, NEW r \in Requests, req[r].pc \in {"deciding", "answered"}
    PROVE  /\ req[r].card \in 1..MaxCards /\ cards[req[r].card].status = "IN_REVIEW"
           /\ DecisionOf(r) \in B2BP!Decisions
           /\ DecisionOf(r).ticket = req[r].card
<1>1. /\ req[r].card \in 1..MaxCards
      /\ cards[req[r].card].status = "IN_REVIEW"
  BY DEF Sound, QueueP!SInv, QueueP!IInv, QueueP!RequestShape, QueueP!LockedReviews,
         QueueP!Deciding, QueueP!CardIds
<1>2. Verdict(req[r].op) \in B2BP!Verdicts
  BY DEF Verdict, B2BP!Verdicts
<1> QED
  BY <1>1, <1>2 DEF DecisionOf, B2BP!Decisions

LEMMA B2BSteps ==
    ASSUME Sound, [Next]_pipelineVars
    PROVE  [B2BP!Next]_(B2BP!lifecycleVars)
<1>1. CASE \/ Deliver \/ Handle \/ \E r \in Requests : Answer(r) \/ ModeratorStep(r)
           \/ ReviewTimeout \/ UNCHANGED pipelineVars
  BY <1>1 DEF Deliver, Handle, Answer, ModeratorStep, ReviewTimeout, pipelineVars, b2bVars,
              B2BP!lifecycleVars
<1>2. CASE Create
  BY <1>2, SameB2B DEF Create, B2BP!Next
<1>3. CASE SellerStep
  BY <1>3, SameB2B DEF SellerStep, B2BP!Next
<1>4. ASSUME NEW c \in Calls, CallStep(c)
      PROVE  B2BP!Next
  BY <1>4, SameB2B DEF CallStep, B2BP!Next, B2BP!CallStep
<1>5. ASSUME NEW r \in Requests, NEW c \in Calls, Send(r, c)
      PROVE  B2BP!Next
  <2>1. B2B!Deliver(c, DecisionOf(r)) /\ DecisionOf(r) \in B2BP!Decisions
    BY <1>5, SentDecision DEF Send
  <2> QED
    BY <2>1, SameB2B DEF B2BP!Next, B2BP!CallStep
<1> QED
  BY <1>1, <1>2, <1>3, <1>4, <1>5 DEF Next

(* What the steps of B2B add to the outbox.                                *)
Grown(rows) ==
    /\ rows \in Seq(B2BP!OutboxRow)
    /\ outbox' = outbox \o rows
    /\ \A i \in DOMAIN rows : rows[i].event = "UPDATED" => rows[i].snapshot.status \in B2BP!Verdicts

LEMMA NothingAppended ==
    ASSUME NEW S, NEW s \in Seq(S)
    PROVE  s \o <<>> = s /\ <<>> \in Seq(S) /\ DOMAIN <<>> = {}
  OBVIOUS

LEMMA RowsGrow ==
    ASSUME Sound, [Next]_pipelineVars
    PROVE  \E rows : Grown(rows)
<1>1. outbox \in Seq(B2BP!OutboxRow) /\ B2BP!IInv
  BY OutboxShape DEF Sound
<1>2. CASE UNCHANGED outbox
  <2>1. /\ outbox' = outbox \o <<>> /\ <<>> \in Seq(B2BP!OutboxRow)
        /\ DOMAIN <<>> = {}
    BY <1>1, <1>2, NothingAppended
  <2>2. Grown(<<>>)
    BY <2>1, Zenon DEF Grown
  <2> QED
    BY <2>2
<1>3. CASE Create \/ SellerStep
  <2>1. B2BP!Told
    BY <1>1, <1>3, SameB2B, B2BAssumed, B2BP!CreateKept, B2BP!SellerKept
       DEF Create, SellerStep, B2BP!Kept
  <2> QED
    BY <2>1 DEF B2BP!Told, B2BP!Undecided, Grown
<1>4. ASSUME NEW c \in Calls, CallStep(c), outbox' # outbox
      PROVE  \E rows : Grown(rows)
  <2>1. B2BP!Decide(c)
    BY <1>4, SameB2B DEF CallStep, B2BP!CallFails
  <2>2. call[c] \in B2BP!Decisions
    BY <1>1, <2>1 DEF B2BP!Decide, B2BP!IInv, B2BP!TypeOK
  <2> DEFINE d == call[c]
             snapshot == B2BP!Marked(product, d.verdict, d.verdict # "MODERATED")
             rows == B2BP!DecisionRows(d.verdict, snapshot)
  <2>3. outbox' = outbox \o rows
    BY <2>1 DEF B2BP!Decide, B2BP!Apply, B2BP!Write
  <2>4. snapshot \in B2BP!ProductRow /\ snapshot.status = d.verdict /\ d.verdict \in B2BP!Verdicts
    BY <1>1, <2>2, B2BAssumed, B2BP!MarkedTyped, ZenonT(30)
       DEF B2BP!Decisions, B2BP!Statuses, B2BP!IInv, B2BP!TypeOK
  <2> HIDE DEF snapshot
  <2>5. rows \in Seq(B2BP!OutboxRow)
    <3>1. B2BP!Row("UPDATED", snapshot) \in B2BP!OutboxRow
      BY <2>4, B2BAssumed, B2BP!RowTyped DEF B2BP!SnapshotEvents
    <3>2. B2BP!ForShops("PRODUCT_BLOCKED") \in B2BP!OutboxRow
      BY B2BAssumed, B2BP!ShopRowTyped DEF B2BP!ShopEvents
    <3> QED
      BY <3>1, <3>2 DEF B2BP!DecisionRows
  <2>6. \A i \in DOMAIN rows :
          rows[i].event = "UPDATED" => rows[i].snapshot.status \in B2BP!Verdicts
    BY <2>4 DEF B2BP!DecisionRows, B2BP!Row, B2BP!ForShops
  <2> QED
    BY <2>3, <2>5, <2>6 DEF Grown
<1>5. ~(Create \/ SellerStep) /\ (\A c \in Calls : ~CallStep(c)) => UNCHANGED outbox
  BY DEF Next, Deliver, Handle, Send, B2B!Deliver, Answer, ModeratorStep, ReviewTimeout,
         pipelineVars, b2bVars
<1> QED
  BY <1>2, <1>3, <1>4, <1>5

LEMMA Concatenated ==
    ASSUME NEW S, NEW s \in Seq(S), NEW rows \in Seq(S), NEW t, t = s \o rows
    PROVE  /\ Len(s) \in Nat /\ Len(rows) \in Nat /\ Len(t) = Len(s) + Len(rows)
           /\ t \in Seq(S)
           /\ \A i \in 1..Len(s) : t[i] = s[i]
           /\ \A i \in (Len(s) + 1)..Len(t) :
                i - Len(s) \in DOMAIN rows /\ t[i] = rows[i - Len(s)]
  OBVIOUS

LEMMA ContentTyped ==
    ASSUME Sound, [Next]_pipelineVars
    PROVE  content' \in 0..MaxContent
<1>1. content \in Nat /\ content \in 0..MaxContent /\ MaxContent \in Nat /\ 1 <= MaxContent
  BY PipelineAssumption DEF PipelineAssumption, Sound, Links
<1> QED
  BY <1>1 DEF Next, Create, SellerStep, CallStep, Deliver, Handle, Send, Answer, ModeratorStep,
              ReviewTimeout, pipelineVars, linkVars

(* The outbox and what it carries grow together and nothing in them        *)
(* changes; a new row carries what the product is after the step.          *)
LEMMA OldRows ==
    ASSUME Sound, [Next]_pipelineVars
    PROVE  /\ Len(outbox') \in Nat /\ Len(outbox) <= Len(outbox')
           /\ carried' \in Seq(Snapshot)
           /\ Len(carried') = Len(outbox')
           /\ \A i \in 1..Len(outbox) : outbox'[i] = outbox[i] /\ carried'[i] = carried[i]
           /\ \A i \in (Len(outbox) + 1)..Len(outbox') :
                /\ carried'[i].content = content'
                /\ carried'[i].live <=> B2B!Live' # {}
                /\ outbox'[i].event = "UPDATED" =>
                     outbox'[i].snapshot.status \in B2BP!Verdicts
<1>1. PICK rows : Grown(rows)
  BY RowsGrow
<1> DEFINE now == [content |-> content', live |-> B2B!Live' # {}]
<1>2. /\ outbox \in Seq(B2BP!OutboxRow) /\ carried \in Seq(Snapshot)
      /\ rows \in Seq(B2BP!OutboxRow) /\ outbox' = outbox \o rows
      /\ Len(carried) = Len(outbox)
  BY <1>1, OutboxShape DEF Grown, Sound, Links
<1>3. /\ Len(outbox) \in Nat /\ Len(rows) \in Nat
      /\ Len(outbox') = Len(outbox) + Len(rows)
      /\ \A i \in 1..Len(outbox) : outbox'[i] = outbox[i]
      /\ \A i \in (Len(outbox) + 1)..Len(outbox') :
           i - Len(outbox) \in DOMAIN rows /\ outbox'[i] = rows[i - Len(outbox)]
  <2> HIDE <1>1
  <2> QED
    BY ONLY <1>2, Concatenated
<1>4. \A i \in (Len(outbox) + 1)..Len(outbox') :
         outbox'[i].event = "UPDATED" => outbox'[i].snapshot.status \in B2BP!Verdicts
  BY <1>1, <1>3 DEF Grown
<1>5. now \in Snapshot /\ now.content = content' /\ (now.live <=> B2B!Live' # {})
  BY ContentTyped DEF Snapshot
<1>6. CASE Carry
  <2> HIDE DEF now
  <2> DEFINE added == [i \in 1..(Len(outbox') - Len(outbox)) |-> now]
  <2>1. /\ added \in Seq(Snapshot) /\ Len(added) = Len(rows)
        /\ \A i \in DOMAIN added : added[i] = now
    BY <1>3, <1>5
  <2>2. carried' = carried \o added
    BY <1>6 DEF Carry, now
  <2> HIDE DEF added
  <2>5. PICK news : news = added
    OBVIOUS
  <2>6. /\ news \in Seq(Snapshot) /\ Len(news) = Len(rows)
        /\ \A i \in DOMAIN news : news[i] = now
        /\ carried' = carried \o news
    BY <2>1, <2>2, <2>5
  <2>3. /\ Len(carried') = Len(outbox') /\ carried' \in Seq(Snapshot)
        /\ \A i \in 1..Len(outbox) : carried'[i] = carried[i]
        /\ \A i \in (Len(outbox) + 1)..Len(outbox') :
             i - Len(outbox) \in DOMAIN news /\ carried'[i] = news[i - Len(outbox)]
    <3>0. /\ carried \in Seq(Snapshot) /\ news \in Seq(Snapshot)
          /\ carried' = carried \o news
      BY <1>2, <2>6
    <3>1. /\ Len(carried') = Len(carried) + Len(news) /\ carried' \in Seq(Snapshot)
          /\ \A i \in 1..Len(carried) : carried'[i] = carried[i]
          /\ \A i \in (Len(carried) + 1)..Len(carried') :
               i - Len(carried) \in DOMAIN news /\ carried'[i] = news[i - Len(carried)]
      BY ONLY <3>0, Concatenated
    <3> QED
      BY <1>2, <1>3, <2>6, <3>1
  <2>4. \A i \in (Len(outbox) + 1)..Len(outbox') : carried'[i] = now
    BY <2>3, <2>6
  <2> QED
    BY <1>3, <1>4, <1>5, <2>3, <2>4
<1>7. CASE UNCHANGED <<outbox, carried>>
  BY <1>2, <1>3, <1>7
<1>8. Carry \/ UNCHANGED <<outbox, carried>>
  BY DEF Next, Create, SellerStep, CallStep, Deliver, Handle, Send, B2B!Deliver, Answer,
         ModeratorStep, ReviewTimeout, pipelineVars, linkVars, b2bVars
<1> QED
  BY <1>6, <1>7, <1>8

LEMMA LinksKept ==
    ASSUME Sound, [Next]_pipelineVars
    PROVE  Links'
<1>1. reached' \in 0..Len(outbox')
  <2>1. reached \in 0..Len(outbox) /\ Len(outbox) \in Nat
    BY OutboxShape DEF Sound, Links
  <2>2. reached' = reached \/ (reached' = reached + 1 /\ reached < Len(outbox))
    BY DEF Next, Create, SellerStep, CallStep, Deliver, Handle, Send, Answer, ModeratorStep,
           ReviewTimeout, pipelineVars, linkVars
  <2> QED
    BY <2>1, <2>2, OldRows
<1>2. sent' \in [Requests -> BOOLEAN]
  <2>1. sent \in [Requests -> BOOLEAN]
    BY DEF Sound, Links
  <2>2. ASSUME NEW r \in Requests, ModeratorStep(r)
        PROVE  sent' \in [Requests -> BOOLEAN]
    <3>1. PICK b \in BOOLEAN : b <=> sent[r] /\ req'[r].pc # "idle"
      OBVIOUS
    <3>2. sent' = [sent EXCEPT ![r] = sent[r] /\ req'[r].pc # "idle"]
      BY <2>2 DEF ModeratorStep
    <3> QED
      BY <2>1, <3>2, Zenon
  <2>3. ASSUME NEW r \in Requests, NEW c \in Calls, Send(r, c)
        PROVE  sent' \in [Requests -> BOOLEAN]
    BY <2>1, <2>3 DEF Send
  <2>4. CASE UNCHANGED sent
    BY <2>1, <2>4
  <2> QED
    BY <2>2, <2>3, <2>4 DEF Next, Create, SellerStep, CallStep, Deliver, Handle, Answer,
                            ReviewTimeout, pipelineVars, linkVars
<1>3. byHand' \subseteq Queue!CardIds
  BY DEF Sound, Links, Next, Create, SellerStep, CallStep, Deliver, Handle, Send, Answer,
         ModeratorStep, ReviewTimeout, pipelineVars, linkVars, Queue!CardIds
<1> QED
  BY <1>1, <1>2, <1>3, OldRows, ContentTyped DEF Links, Queue!CardIds

LEMMA SoundInit == Init => Sound
<1> SUFFICES ASSUME Init
             PROVE  Sound
  OBVIOUS
<1>1. QueueP!SInv
  BY SameStates, QueueAssumed, QueueP!InitStep DEF Init
<1>2. B2BP!IInv
  BY SameB2B, B2BAssumed, B2BP!InitInv DEF Init
<1>3. outbox = <<>>
  BY DEF Init, B2B!Init
<1>4. Links
  BY <1>3, PipelineAssumption DEF Init, Links, PipelineAssumption
<1> QED
  BY <1>1, <1>2, <1>4 DEF Sound

LEMMA SoundNext ==
    ASSUME Sound, [Next]_pipelineVars
    PROVE  Sound'
<1>1. QueueP!SInv'
  BY QueueSteps, QueueAssumed, QueueP!NextStep DEF Sound
<1>2. B2BP!IInv'
  BY B2BSteps, B2BAssumed, B2BP!NextInv DEF Sound
<1> QED
  BY <1>1, <1>2, LinksKept DEF Sound

THEOREM PipelineSound == Spec => []Sound
  BY SoundInit, SoundNext, PTL DEF Spec

(* The rows, the cards and what passes between them keep their shape.      *)
THEOREM PipelineTyped == Spec => []TypeOK
<1>1. Sound => TypeOK
  BY SameStates, SameB2B
     DEF Sound, TypeOK, QueueP!SInv, QueueP!IInv, B2BP!IInv, Links, Snapshot
<1> QED
  BY <1>1, PipelineSound, PTL

(* The pipeline runs the queue: whatever holds of ModerationQueue for all  *)
(* events that outbox rows can become holds of the queue at B2B's end.     *)
THEOREM PipelineRunsQueue == Spec => QueueP!Spec
<1>1. Init => QueueP!Init
  BY SameStates DEF Init
<1>2. Sound /\ [Next]_pipelineVars => [QueueP!Next]_(QueueP!queueVars)
  BY QueueSteps
<1> QED
  BY <1>1, <1>2, PipelineSound, PTL DEF Spec, QueueP!Spec

(* And it runs B2B: a moderator sends nothing that B2B does not expect.    *)
THEOREM PipelineRunsB2B == Spec => B2BP!Spec
<1>1. Init => B2BP!Init
  BY SameB2B DEF Init
<1>2. Sound /\ [Next]_pipelineVars => [B2BP!Next]_(B2BP!lifecycleVars)
  BY B2BSteps
<1> QED
  BY <1>1, <1>2, PipelineSound, PTL DEF Spec, B2BP!Spec

-----------------------------------------------------------------------------
(* Decisions on their way.                                                 *)

(* A 2xx answer means that B2B has recorded what was sent.                 *)
AnswerRecorded ==
    \A r \in Requests : req[r].pc = "answered" => B2B!Recorded(DecisionOf(r))

(* B2B records a decision and never forgets it.                            *)
LEMMA InboxGrows ==
    ASSUME Sound, [Next]_pipelineVars
    PROVE  /\ \A i \in DOMAIN inbox : i \in DOMAIN inbox' /\ inbox'[i] = inbox[i]
           /\ \/ UNCHANGED inbox
              \/ \E c \in Calls : B2BP!Decide(c) /\ CallStep(c)
<1>1. B2BP!IInv /\ inbox \in Seq(B2BP!Decisions)
  BY DEF Sound, B2BP!IInv, B2BP!TypeOK
<1>2. CASE UNCHANGED inbox
  BY <1>2
<1>3. ASSUME NEW c \in Calls, CallStep(c), B2BP!Decide(c)
      PROVE  \A i \in DOMAIN inbox : i \in DOMAIN inbox' /\ inbox'[i] = inbox[i]
  <2>1. call[c] \in B2BP!Decisions
    BY <1>1, <1>3 DEF B2BP!Decide, B2BP!IInv, B2BP!TypeOK
  <2>2. inbox' = Append(inbox, call[c])
    BY <1>3 DEF B2BP!Decide, B2BP!Apply
  <2> QED
    BY <1>1, <2>1, <2>2
<1>4. CASE SellerStep
  <2>1. B2BP!Kept
    BY <1>1, <1>4, SameB2B, B2BAssumed, B2BP!SellerKept DEF SellerStep
  <2> QED
    BY <1>2, <2>1 DEF B2BP!Kept
<1>5. ASSUME NEW c \in Calls, CallStep(c)
      PROVE  B2BP!Decide(c) \/ UNCHANGED inbox
  BY <1>5, SameB2B DEF CallStep, B2BP!CallFails
<1>6. \/ UNCHANGED inbox \/ SellerStep \/ \E c \in Calls : CallStep(c)
  BY DEF Next, Create, B2B!CreateProduct, Deliver, Handle, Send, B2B!Deliver, Answer,
         ModeratorStep, ReviewTimeout, pipelineVars, b2bVars
<1> QED
  BY <1>2, <1>3, <1>4, <1>5, <1>6

LEMMA RecordedStays ==
    ASSUME Sound, [Next]_pipelineVars, NEW d, B2B!Recorded(d)
    PROVE  B2B!Recorded(d)'
<1>1. \A i \in DOMAIN inbox : i \in DOMAIN inbox' /\ inbox'[i] = inbox[i]
  BY InboxGrows
<1> QED
  BY <1>1 DEF B2B!Recorded

LEMMA RequestsFrame ==
    ASSUME Sound, [Next]_pipelineVars
    PROVE  UNCHANGED req \/ \E q \in Requests : Answer(q) \/ ModeratorStep(q)
  BY DEF Next, Create, SellerStep, CallStep, Deliver, Queue!Receive, Handle, Send,
         ReviewTimeout, Queue!ReviewTimeout, pipelineVars, queueVars,
         Queue!HandleEvent, Queue!ArchiveCards, Queue!IgnoreHardBlocked,
         Queue!RouteEvent, Queue!DeleteOpenCards, Queue!ReadOpenCards,
         Queue!SaveOpenCard, Queue!SaveGoneCard, Queue!DeleteDuplicate,
         Queue!FinishEvent, Queue!CreateCard

LEMMA AnswerKept ==
    ASSUME Sound, AnswerRecorded, [Next]_pipelineVars
    PROVE  AnswerRecorded'
<1> SUFFICES ASSUME NEW r \in Requests, req'[r].pc = "answered"
             PROVE  B2B!Recorded(DecisionOf(r))'
  BY DEF AnswerRecorded
<1>1. req \in [Requests -> QueueP!RequestState]
  BY DEF Sound, QueueP!SInv, QueueP!IInv, QueueP!TypeOK
<1>2. CASE req'[r] = req[r]
  <2>1. B2B!Recorded(DecisionOf(r)) /\ DecisionOf(r)' = DecisionOf(r)
    BY <1>2 DEF AnswerRecorded, DecisionOf
  <2>2. PICK d : d = DecisionOf(r)
    OBVIOUS
  <2>3. B2B!Recorded(d)'
    BY <2>1, <2>2, RecordedStays
  <2> QED
    BY <2>1, <2>2, <2>3 DEF B2B!Recorded
<1>3. ASSUME NEW q \in Requests, Answer(q)
      PROVE  B2B!Recorded(DecisionOf(r))'
  <2>1. req' = [req EXCEPT ![q].pc = "answered"] /\ UNCHANGED inbox
    BY <1>3, SameRequests DEF Answer, QueueP!Answered, b2bVars
  <2>2. B2B!Recorded(DecisionOf(r))
    <3>1. CASE q = r
      BY <1>3, <3>1 DEF Answer
    <3>2. CASE q # r
      BY <1>1, <2>1, <3>2 DEF AnswerRecorded
    <3> QED
      BY <3>1, <3>2
  <2>3. DecisionOf(r)' = DecisionOf(r)
    BY <1>1, <2>1 DEF DecisionOf, QueueP!RequestState
  <2> QED
    BY <2>1, <2>2, <2>3 DEF B2B!Recorded
<1>4. ASSUME NEW q \in Requests, ModeratorStep(q)
      PROVE  req'[r] = req[r]
  <2>1. QueueP!ModeratorStep(q)
    BY <1>4, SameRequests DEF ModeratorStep
  <2>2. CASE UNCHANGED req
    BY <2>2
  <2>3. CASE req' = [req EXCEPT ![q] = QueueP!IdleRequest]
    BY <1>1, <2>3 DEF QueueP!IdleRequest
  <2>4. CASE QueueP!CheckActiveReview(q) \/ QueueP!LockTicket(q)
    BY <1>1, <2>4 DEF QueueP!CheckActiveReview, QueueP!LockTicket, QueueP!RequestState
  <2>5. CASE \E c \in QueueP!CardIds, action \in QueueP!Actions : QueueP!OpenTicket(q, c, action)
    BY <1>1, <2>5 DEF QueueP!OpenTicket, QueueP!RequestState
  <2>6. CASE \E p \in {Product} : QueueP!CheckEnqueue(q, p)
    BY <1>1, <2>6 DEF QueueP!CheckEnqueue, QueueP!RequestState
  <2>7. \/ UNCHANGED req
        \/ req' = [req EXCEPT ![q] = QueueP!IdleRequest]
        \/ QueueP!CheckActiveReview(q) \/ QueueP!LockTicket(q)
        \/ \E c \in QueueP!CardIds, action \in QueueP!Actions : QueueP!OpenTicket(q, c, action)
        \/ \E p \in {Product} : QueueP!CheckEnqueue(q, p)
    BY <2>1 DEF QueueP!ModeratorStep, QueueP!RefuseNextCard, QueueP!AcquireNextCard,
                QueueP!RefuseTicket, QueueP!AbandonRequest, QueueP!CommitDecision,
                QueueP!EnqueueManually
  <2> QED
    BY <2>2, <2>3, <2>4, <2>5, <2>6, <2>7
<1> QED
  BY <1>2, <1>3, <1>4, RequestsFrame

(* What is logged was answered, and what was answered is recorded.         *)
LEMMA LogKept ==
    ASSUME Sound, AnswerRecorded, LogRecorded, [Next]_pipelineVars
    PROVE  LogRecorded'
<1> SUFFICES ASSUME NEW d \in log'
             PROVE  B2B!Recorded([ticket |-> d[1], verdict |-> Verdict(d[2])])'
  BY DEF LogRecorded
<1>1. PICK e : e = [ticket |-> d[1], verdict |-> Verdict(d[2])]
  OBVIOUS
<1>2. CASE d \in log
  <2>1. B2B!Recorded(e)
    BY <1>1, <1>2 DEF LogRecorded
  <2> QED
    BY <1>1, <2>1, RecordedStays DEF B2B!Recorded
<1>3. CASE d \notin log
  <2>1. PICK r \in Requests : QueueP!CommitDecision(r)
    BY <1>3, QueueSteps, QueueAssumed, QueueP!LogFrame
  <2>2. req[r].pc = "answered" /\ d = <<req[r].card, req[r].op>>
    BY <1>3, <2>1 DEF QueueP!CommitDecision
  <2>3. B2B!Recorded(e)
    BY <1>1, <2>2 DEF AnswerRecorded, DecisionOf
  <2> QED
    BY <1>1, <2>3, RecordedStays DEF B2B!Recorded
<1> QED
  BY <1>2, <1>3

(* Whatever calls time out, fail or are repeated, moderation logs nothing  *)
(* that B2B has not recorded.                                              *)
THEOREM LogsRecorded == Spec => []LogRecorded
<1>1. Init => AnswerRecorded /\ LogRecorded
  BY DEF Init, Queue!Init, Queue!IdleRequest, AnswerRecorded, LogRecorded
<1>2. Sound /\ AnswerRecorded /\ LogRecorded /\ [Next]_pipelineVars
        => AnswerRecorded' /\ LogRecorded'
  BY AnswerKept, LogKept
<1> QED
  BY <1>1, <1>2, PipelineSound, PTL DEF Spec

-----------------------------------------------------------------------------
(* What a step does to the cards and to the consumer, in the pipeline's    *)
(* terms.                                                                  *)

CardIds == 1..MaxCards
Open(c) == cards[c].status \in {"PENDING", "IN_REVIEW"}
Blocked == \E c \in CardIds : cards[c].status = "HARD_BLOCKED"
Hand == worker[Consumer]
Busy == Hand.pc # "idle"
AsksReview(ev) == ev.status = "ON_MODERATION" /\ ev.live

(* enqueue_from_event takes a row in these steps.                          *)
Discards ==
    /\ Hand.pc = "deleting" \/ (Hand.pc = "received" /\ Hand.ev.type = "DELETED")
    /\ ~Busy'
    /\ \A c \in CardIds : ~Open(c)'
Ignores ==
    /\ Hand.pc = "received" /\ ~Busy'
    /\ Blocked /\ UNCHANGED cards
Routes ==
    /\ Hand.pc = "received" /\ ~Blocked
    /\ Hand'.pc = IF AsksReview(Hand.ev) THEN "listing" ELSE "deleting"
    /\ Hand'.ev = Hand.ev /\ UNCHANGED cards
Reads ==
    /\ Hand.pc = "listing" /\ Hand'.pc = "read" /\ Hand'.ev = Hand.ev
    /\ \A c : c \in Hand'.seen <=> c \in CardIds /\ Open(c)
    /\ UNCHANGED cards
SavesOne(first) ==
    /\ first \in CardIds /\ first \in Hand.seen
    /\ Hand'.seen = Hand.seen \ {first}
    /\ Open(first) => Open(first)'
    /\ cards'[first].content = Hand.ev.content
    /\ \A c \in CardIds \ {first} : cards'[c] = cards[c]
Saves ==
    /\ Hand.pc = "read" /\ Hand'.pc = "pruning" /\ Hand'.ev = Hand.ev
    /\ \E first : SavesOne(first)
Misses ==
    /\ Hand.pc = "read" /\ ~Busy' /\ UNCHANGED cards
    /\ \E c \in Hand.seen : c \in CardIds /\ ~Open(c)
PrunesOne(last) ==
    /\ last \in Hand.seen
    /\ Hand'.seen = Hand.seen \ {last}
    /\ ~Open(last)'
    /\ \A c \in CardIds \ {last} : cards'[c] = cards[c]
Prunes ==
    /\ Hand.pc = "pruning" /\ Hand'.pc = "pruning" /\ Hand'.ev = Hand.ev
    /\ \E last \in CardIds : PrunesOne(last)
Ends ==
    /\ Hand.pc = "pruning" /\ ~Busy'
    /\ Hand.seen = {} /\ UNCHANGED cards
CreatesOne(new) ==
    /\ cards[new].status = "NONE" /\ Open(new)'
    /\ cards'[new].content = Hand.ev.content
    /\ \A c \in CardIds \ {new} : cards'[c] = cards[c]
Creates ==
    /\ Hand.pc = "read" /\ ~Busy'
    /\ \E new \in CardIds : CreatesOne(new)
HandlerDoes ==
    \/ Discards \/ Ignores \/ Routes \/ Reads \/ Saves \/ Misses
    \/ Prunes \/ Ends \/ Creates

LEMMA QueueTypes ==
    ASSUME Sound
    PROVE  /\ QueueP!SInv /\ QueueP!IInv
           /\ QueueP!CardIds = CardIds
           /\ cards \in [CardIds -> QueueP!Card]
           /\ worker \in [{Consumer} -> QueueP!WorkerState]
           /\ Hand \in QueueP!WorkerState /\ Hand.ev.product = Product
           /\ Hand.seen \in SUBSET CardIds
           /\ \A c \in CardIds : cards[c] \in QueueP!Card /\ cards[c].product = Product
           /\ req \in [Requests -> QueueP!RequestState]
  BY DEF Sound, QueueP!SInv, QueueP!IInv, QueueP!TypeOK, QueueP!CardIds, CardIds, Hand,
         QueueP!WorkerState, QueueP!Events, QueueP!Card

LEMMA OpenLinks ==
    ASSUME Sound
    PROVE  /\ \A c \in CardIds : c \in Queue!OpenCards(Product) <=> Open(c)
           /\ \A c : c \in Queue!OpenCards(Product) => c \in CardIds
           /\ \A c \in CardIds : c \in QueueP!OpenCards(Product) <=> Open(c)
           /\ \A c : c \in QueueP!OpenCards(Product) => c \in CardIds
           /\ Queue!HardBlocked(Product) <=> Blocked
           /\ QueueP!HardBlocked(Product) <=> Blocked
           /\ \A c : c \in QueueP!CardsOf(Product) <=> c \in CardIds /\ cards[c].status # "NONE"
  BY QueueTypes
     DEF Queue!OpenCards, Queue!CardsOf, Queue!CardIds, Queue!OpenStatuses, Queue!HardBlocked,
         QueueP!OpenCards, QueueP!CardsOf, QueueP!CardIds, QueueP!OpenStatuses,
         QueueP!HardBlocked, Open, Blocked, CardIds

LEMMA WorkerTo ==
    ASSUME Sound, NEW next, worker' = [worker EXCEPT ![Consumer] = next]
    PROVE  Hand' = next
  BY QueueTypes DEF Hand

LEMMA WorkerEnds ==
    ASSUME Sound, worker' = [worker EXCEPT ![Consumer] = QueueP!IdleWorker]
    PROVE  ~Busy'
<1>1. Hand' = QueueP!IdleWorker
  BY WorkerTo
<1>2. Hand'.pc = "idle"
  BY <1>1 DEF QueueP!IdleWorker
<1> QED
  BY <1>2 DEF Busy

LEMMA ArchiveDoes ==
    ASSUME Sound, QueueP!ArchiveCards(Consumer)
    PROVE  Discards
<1>1. Hand.pc = "received" /\ Hand.ev.type = "DELETED" /\ ~Busy'
  BY WorkerEnds DEF QueueP!ArchiveCards, Hand
<1>2. ASSUME NEW c \in CardIds
      PROVE  ~Open(c)'
  <2>1. cards[c] \in QueueP!Card
    BY QueueTypes
  <2>2. cards'[c] = IF cards[c].status \in {"NONE", "ARCHIVED", "GONE"}
                    THEN cards[c] ELSE [cards[c] EXCEPT !.status = "ARCHIVED"]
    BY QueueTypes, OpenLinks DEF QueueP!ArchiveCards, Hand
  <2> QED
    BY <2>1, <2>2 DEF Open, QueueP!Card
<1> QED
  BY <1>1, <1>2 DEF Discards

LEMMA DeleteDoes ==
    ASSUME Sound, QueueP!DeleteOpenCards(Consumer)
    PROVE  Discards
<1>1. Hand.pc = "deleting" /\ ~Busy'
  BY WorkerEnds DEF QueueP!DeleteOpenCards, Hand
<1>2. ASSUME NEW c \in CardIds
      PROVE  ~Open(c)'
  <2>1. cards'[c] = IF Open(c) THEN QueueP!Deleted ELSE cards[c]
    BY QueueTypes, OpenLinks DEF QueueP!DeleteOpenCards, Hand
  <2> QED
    BY <2>1, QueueAssumed, QueueP!DeletedHolder DEF Open
<1> QED
  BY <1>1, <1>2 DEF Discards

LEMMA RouteDoes ==
    ASSUME Sound, QueueP!RouteEvent(Consumer)
    PROVE  Routes
<1>1. /\ Hand.pc = "received" /\ ~Blocked /\ UNCHANGED cards
      /\ worker' = [worker EXCEPT ![Consumer].pc =
                      IF AsksReview(Hand.ev) THEN "listing" ELSE "deleting"]
  BY QueueTypes, OpenLinks
     DEF QueueP!RouteEvent, Hand, QueueP!RequiresModeration, AsksReview
<1>2. /\ Hand'.pc = IF AsksReview(Hand.ev) THEN "listing" ELSE "deleting"
      /\ Hand'.ev = Hand.ev
  BY <1>1, QueueTypes DEF Hand, QueueP!WorkerState
<1> QED
  BY <1>1, <1>2 DEF Routes

LEMMA ReadDoes ==
    ASSUME Sound, QueueP!ReadOpenCards(Consumer)
    PROVE  Reads
<1>1. Hand.pc = "listing" /\ UNCHANGED cards
  BY DEF QueueP!ReadOpenCards, Hand
<1>2. /\ Hand'.pc = "read" /\ Hand'.ev = Hand.ev
      /\ Hand'.seen = QueueP!OpenCards(Product)
  BY QueueTypes DEF QueueP!ReadOpenCards, Hand, QueueP!WorkerState
<1> QED
  BY <1>1, <1>2, OpenLinks DEF Reads

LEMMA SaveDoes ==
    ASSUME Sound, QueueP!SaveOpenCard(Consumer)
    PROVE  Saves
<1> PICK first : first = QueueP!Oldest(Hand.seen)
  OBVIOUS
<1>1. /\ first \in CardIds /\ first \in Hand.seen
      /\ cards'[first].status \in {"PENDING", cards[first].status}
      /\ cards'[first].content = Hand.ev.content
      /\ \A c \in CardIds \ {first} : cards'[c] = cards[c]
      /\ Hand.pc = "read"
      /\ worker' = [worker EXCEPT ![Consumer].pc = "pruning",
                                  ![Consumer].seen = @ \ {first}]
  BY QueueTypes, QueueAssumed, QueueP!SavedCard DEF Hand
<1>2. /\ Hand'.pc = "pruning" /\ Hand'.ev = Hand.ev
      /\ Hand'.seen = Hand.seen \ {first}
  BY <1>1, QueueTypes DEF Hand, QueueP!WorkerState
<1>3. ASSUME Open(first)
      PROVE  Open(first)'
  <2>1. cards'[first].status \in {"PENDING", "IN_REVIEW"}
    BY <1>1, <1>3 DEF Open
  <2> QED
    BY <2>1 DEF Open
<1>4. SavesOne(first)
  BY <1>1, <1>2, <1>3 DEF SavesOne
<1> QED
  BY <1>1, <1>2, <1>4 DEF Saves

LEMMA MissDoes ==
    ASSUME Sound, QueueP!SaveGoneCard(Consumer)
    PROVE  Misses
<1>1. Hand.pc = "read" /\ ~Busy' /\ UNCHANGED cards
  BY WorkerEnds DEF QueueP!SaveGoneCard, Hand
<1>2. Hand.seen # {} /\ cards[QueueP!Oldest(Hand.seen)].status = "GONE"
  BY DEF QueueP!SaveGoneCard, Hand
<1>3. QueueP!Oldest(Hand.seen) \in Hand.seen
  BY <1>2, QueueTypes, QueueAssumed, QueueP!OldestIn
<1> QED
  BY <1>1, <1>2, <1>3, QueueTypes DEF Misses, Open

LEMMA PruneDoes ==
    ASSUME Sound, QueueP!DeleteDuplicate(Consumer)
    PROVE  Prunes
<1>1. PICK last \in Hand.seen :
        /\ cards' = [cards EXCEPT ![last] = QueueP!Deleted]
        /\ worker' = [worker EXCEPT ![Consumer].seen = @ \ {last}]
  BY DEF QueueP!DeleteDuplicate, Hand
<1>2. last \in CardIds /\ Hand.pc = "pruning"
  BY QueueTypes DEF QueueP!DeleteDuplicate, Hand
<1>3. Hand'.pc = "pruning" /\ Hand'.ev = Hand.ev /\ Hand'.seen = Hand.seen \ {last}
  BY <1>1, <1>2, QueueTypes DEF Hand, QueueP!WorkerState
<1>4. QueueP!Deleted.status = "GONE"
  BY QueueAssumed, QueueP!DeletedHolder
<1>5. ~Open(last)' /\ \A c \in CardIds \ {last} : cards'[c] = cards[c]
  BY <1>1, <1>2, <1>4, QueueTypes DEF Open
<1> QED
  BY <1>2, <1>3, <1>5 DEF Prunes, PrunesOne

LEMMA FinishDoes ==
    ASSUME Sound, QueueP!FinishEvent(Consumer)
    PROVE  Ends
  BY WorkerEnds DEF QueueP!FinishEvent, Hand, Ends

LEMMA CreateDoes ==
    ASSUME Sound, QueueP!CreateCard(Consumer)
    PROVE  Creates
<1>1. Hand.pc = "read" /\ ~Busy'
  BY WorkerEnds DEF QueueP!CreateCard, Hand
<1> PICK card : card = QueueP!NewCard(Hand.ev.product, QueueP!StoredType(Hand.ev),
                                       Hand.ev.content, Hand.ev.live)
  OBVIOUS
<1>2. PICK new \in CardIds :
        QueueP!IsNextCard(new) /\ cards' = [cards EXCEPT ![new] = card]
  BY QueueTypes DEF QueueP!CreateCard, Hand
<1>3. card.status = "PENDING" /\ card.content = Hand.ev.content
  BY <1>2, QueueAssumed, QueueP!NewCardHolder, QueueP!NewCardProduct
<1>4. CreatesOne(new)
  BY <1>2, <1>3, QueueTypes DEF CreatesOne, Open, QueueP!IsNextCard
<1> QED
  BY <1>1, <1>4 DEF Creates

LEMMA HandleDoes ==
    ASSUME Sound, Handle
    PROVE  HandlerDoes
<1>1. QueueP!HandleEvent(Consumer)
  BY SameHandler DEF Handle
<1>2. ASSUME QueueP!IgnoreHardBlocked(Consumer)
      PROVE  Ignores
  BY <1>2, WorkerEnds, QueueTypes, OpenLinks DEF QueueP!IgnoreHardBlocked, Ignores, Hand
<1> QED
  BY <1>1, <1>2, ArchiveDoes, DeleteDoes, RouteDoes, ReadDoes, SaveDoes, MissDoes, PruneDoes,
     FinishDoes, CreateDoes DEF QueueP!HandleEvent, HandlerDoes

(* What a moderator or the clock does to a card, and with which answer in  *)
(* hand a moderator takes it out of the queue.                             *)
Answered(c) == \E r \in Requests : req[r].pc = "answered" /\ req[r].card = c
StaysOrDecided(c) ==
    /\ cards[c].status # "NONE" => cards'[c].status # "NONE"
    /\ cards[c].status = "HARD_BLOCKED" => cards'[c].status = "HARD_BLOCKED"
    /\ Open(c) => \/ Open(c)' /\ cards'[c].content = cards[c].content
                  \/ Answered(c)
    /\ Open(c)' => \/ Open(c)
                   \/ cards[c].status = "NONE"

LEMMA QuietCards ==
    ASSUME Sound, [Next]_pipelineVars, UNCHANGED worker, NEW c \in CardIds
    PROVE  StaysOrDecided(c)
<1>1. /\ QueueP!CardMoves(c) /\ cards[c] \in QueueP!Card
      /\ QueueP!LockedReviews /\ QueueP!IInv
  BY QueueTypes, QueueSteps, QueueAssumed, QueueP!NextMoves DEF QueueP!IInv
<1>2. CASE cards'[c] = cards[c]
  BY <1>2 DEF StaysOrDecided, Open
<1>3. CASE cards[c].status = "GONE" /\ cards'[c].status = "GONE"
  BY <1>3 DEF StaysOrDecided, Open
<1>4. CASE QueueP!Appears(c)
  <2>1. ASSUME QueueP!CreateCard(Consumer)
        PROVE  FALSE
    BY <1>1, <2>1, QueueAssumed, QueueP!WorkerEnds DEF QueueP!CreateCard
  <2>2. cards[c].status = "NONE" /\ cards'[c].status = "PENDING"
    BY <1>4, <2>1 DEF QueueP!Appears
  <2> QED
    BY <2>2 DEF StaysOrDecided, Open
<1>5. CASE QueueP!Handled(c)
  BY <1>5 DEF QueueP!Handled
<1>6. CASE QueueP!TimesOut(c)
  <2>1. cards'[c].status = cards[c].status /\ cards'[c].content = cards[c].content
    BY <1>1, <1>6 DEF QueueP!TimesOut, QueueP!Card
  <2> QED
    BY <2>1 DEF StaysOrDecided, Open
<1>7. CASE QueueP!GivenAway(c)
  <2>1. /\ cards[c].status \in {"PENDING", "IN_REVIEW"}
        /\ cards'[c].status \in {"PENDING", "IN_REVIEW"}
        /\ cards'[c].content = cards[c].content
    BY <1>7 DEF QueueP!GivenAway, QueueP!IsStale, QueueP!OpenStatuses
  <2> QED
    BY <2>1 DEF StaysOrDecided, Open
<1>8. CASE QueueP!Committed(c)
  <2>1. PICK r \in Requests : req[r].card = c /\ QueueP!CommitDecision(r)
    BY <1>8 DEF QueueP!Committed
  <2>2. req[r].pc = "answered" /\ cards[c].status = "IN_REVIEW"
    BY <1>1, <2>1 DEF QueueP!CommitDecision, QueueP!LockedReviews, QueueP!Deciding
  <2>3. cards'[c].status \in {"APPROVED", "BLOCKED", "HARD_BLOCKED"}
    BY <1>1, <2>1, QueueTypes DEF QueueP!CommitDecision, QueueP!DecidedStatus, QueueP!Card
  <2>4. Answered(c)
    BY <2>1, <2>2 DEF Answered
  <2>5. ~Open(c)'
    BY <2>3 DEF Open
  <2> QED
    BY <2>2, <2>3, <2>4, <2>5 DEF StaysOrDecided
<1> QED
  BY <1>1, <1>2, <1>3, <1>4, <1>5, <1>6, <1>7, <1>8 DEF QueueP!CardMoves

(* Every step is one of B2B's, the arrival of a row, a step of the         *)
(* consumer, or one of a moderator or the clock.                           *)
AtB2B == UNCHANGED <<cards, worker, req, reached, byHand>>
Arrives ==
    /\ reached < Len(outbox) /\ reached' = reached + 1
    /\ ~Busy /\ Hand'.pc = "received" /\ Hand'.ev = EventOf(reached + 1)
    /\ UNCHANGED <<cards, req, product, sku, outbox, inbox, seller, call, content, carried>>
Handles ==
    /\ HandlerDoes
    /\ UNCHANGED <<req, product, sku, outbox, inbox, seller, call, content, carried, reached,
                   byHand>>
AtModerators ==
    /\ UNCHANGED <<worker, product, sku, outbox, inbox, seller, call, content, carried, reached>>
    /\ byHand \subseteq byHand'
    /\ \A c \in CardIds :
         cards[c].status = "NONE" /\ cards'[c].status # "NONE" => c \in byHand'

LEMMA PipelineSteps ==
    ASSUME Sound, [Next]_pipelineVars
    PROVE  AtB2B \/ Arrives \/ Handles \/ AtModerators
<1>1. CASE \/ Create \/ SellerStep \/ \E c \in Calls : CallStep(c)
           \/ \E r \in Requests, c \in Calls : Send(r, c)
           \/ UNCHANGED pipelineVars
  BY <1>1 DEF Create, SellerStep, CallStep, Send, pipelineVars, queueVars, linkVars, AtB2B
<1>2. CASE Deliver
  <2>1. QueueP!Receive(Consumer, EventOf(reached + 1))
    BY <1>2, SameHandler DEF Deliver
  <2>2. ~Busy /\ Hand'.pc = "received" /\ Hand'.ev = EventOf(reached + 1)
    BY <2>1, QueueTypes DEF QueueP!Receive, Hand, Busy, QueueP!WorkerState
  <2> QED
    BY <1>2, <2>1, <2>2 DEF Deliver, QueueP!Receive, b2bVars, Arrives
<1>3. CASE Handle
  <2>1. HandlerDoes
    BY <1>3, HandleDoes
  <2>2. UNCHANGED req
    BY <1>3 DEF Handle, Queue!HandleEvent, Queue!ArchiveCards, Queue!IgnoreHardBlocked,
                Queue!RouteEvent, Queue!DeleteOpenCards, Queue!ReadOpenCards,
                Queue!SaveOpenCard, Queue!SaveGoneCard, Queue!DeleteDuplicate,
                Queue!FinishEvent, Queue!CreateCard
  <2> QED
    BY <1>3, <2>1, <2>2 DEF Handle, b2bVars, linkVars, Handles
<1>4. ASSUME NEW r \in Requests, Answer(r) \/ ModeratorStep(r)
      PROVE  AtModerators
  <2>1. UNCHANGED worker
    BY <1>4, SameRequests
       DEF Answer, ModeratorStep, QueueP!Answered, QueueP!ModeratorStep,
           QueueP!RefuseNextCard, QueueP!CheckActiveReview, QueueP!AcquireNextCard,
           QueueP!OpenTicket, QueueP!LockTicket, QueueP!RefuseTicket,
           QueueP!AbandonRequest, QueueP!CommitDecision, QueueP!CheckEnqueue,
           QueueP!EnqueueManually
  <2>2. CASE Answer(r)
    <3>1. UNCHANGED cards
      BY <2>2 DEF Answer, Queue!Answered
    <3> QED
      BY <2>1, <2>2, <3>1 DEF Answer, b2bVars, linkVars, AtModerators
  <2>3. CASE ModeratorStep(r)
    BY <2>1, <2>3 DEF ModeratorStep, b2bVars, AtModerators, CardIds, Queue!CardIds
  <2> QED
    BY <1>4, <2>2, <2>3
<1>5. CASE ReviewTimeout
  <2>1. PICK d \in CardIds : cards' = [cards EXCEPT ![d].timer = "stale"]
    BY <1>5 DEF ReviewTimeout, Queue!ReviewTimeout, Queue!CardIds, CardIds
  <2>2. \A c \in CardIds : cards'[c].status = cards[c].status
    BY <2>1, QueueTypes DEF QueueP!Card
  <2> QED
    BY <1>5, <2>2 DEF ReviewTimeout, Queue!ReviewTimeout, b2bVars, linkVars, AtModerators
<1> QED
  BY <1>1, <1>2, <1>3, <1>4, <1>5 DEF Next

-----------------------------------------------------------------------------
(* The event in the consumer's hand and the queue it leaves.               *)

(* The consumer works on the row it has reached; it looks at the open      *)
(* cards because the row asks for a review, and deletes them because the   *)
(* row does not.                                                           *)
EventInHand ==
    Busy => /\ reached >= 1 /\ Hand.ev = EventOf(reached)
            /\ Hand.pc \in {"listing", "read", "pruning"} => AsksReview(Hand.ev)
            /\ Hand.pc = "deleting" => ~AsksReview(Hand.ev)

(* An open card that the consumer leaves behind, and nobody has enqueued   *)
(* by hand since, was asked for by the row it has handled.                 *)
Follows ==
    ~Busy /\ ~Blocked /\ (\E c \in CardIds \ byHand : Open(c)) =>
        reached >= 1 /\ AsksReview(EventOf(reached))

LEMMA RowStays ==
    ASSUME Sound, [Next]_pipelineVars, NEW i \in 1..Len(outbox)
    PROVE  EventOf(i)' = EventOf(i)
<1>1. outbox'[i] = outbox[i] /\ carried'[i] = carried[i]
  BY OldRows
<1> QED
  BY <1>1 DEF EventOf

LEMMA ReachedRow ==
    ASSUME Sound
    PROVE  /\ Len(outbox) \in Nat /\ reached \in Nat /\ reached <= Len(outbox)
           /\ reached >= 1 => reached \in 1..Len(outbox)
  BY OutboxShape DEF Sound, Links

(* Steps of B2B and of the moderators leave the consumer where it is.      *)
LEMMA HandStays ==
    ASSUME Sound, [Next]_pipelineVars, AtB2B \/ AtModerators
    PROVE  /\ Hand' = Hand /\ (Busy' <=> Busy) /\ reached' = reached
           /\ reached >= 1 => EventOf(reached)' = EventOf(reached)
<1>1. UNCHANGED <<worker, reached>>
  BY DEF AtB2B, AtModerators
<1>2. Hand' = Hand
  BY <1>1 DEF Hand
<1>3. ASSUME reached >= 1
      PROVE  EventOf(reached)' = EventOf(reached)
  <2>1. PICK i \in 1..Len(outbox) : i = reached
    BY <1>3, ReachedRow
  <2>2. EventOf(i)' = EventOf(i)
    BY RowStays
  <2> QED
    BY <1>1, <2>1, <2>2
<1> QED
  BY <1>1, <1>2, <1>3 DEF Busy

LEMMA HandlingRow ==
    ASSUME Sound, Handles
    PROVE  reached' = reached /\ EventOf(reached)' = EventOf(reached)
  BY DEF Handles, EventOf

LEMMA EventKept ==
    ASSUME Sound, EventInHand, [Next]_pipelineVars
    PROVE  EventInHand'
<1>1. CASE AtB2B \/ AtModerators
  BY <1>1, HandStays DEF EventInHand
<1>2. CASE Arrives
  <2>1. /\ reached' = reached + 1 /\ reached + 1 \in 1..Len(outbox)
        /\ Hand'.pc = "received" /\ Hand'.ev = EventOf(reached + 1)
    BY <1>2, ReachedRow DEF Arrives
  <2>2. PICK i \in 1..Len(outbox) : i = reached + 1
    BY <2>1
  <2>3. EventOf(i)' = EventOf(i)
    BY RowStays
  <2> QED
    BY <2>1, <2>2, <2>3 DEF EventInHand
<1>3. CASE Handles
  <2>1. Busy /\ HandlerDoes
    BY <1>3 DEF Handles, HandlerDoes, Discards, Ignores, Routes, Reads, Saves, Misses, Prunes,
                Ends, Creates, Busy
  <2>2. reached' = reached /\ EventOf(reached)' = EventOf(reached)
    BY <1>3, HandlingRow
  <2>3. CASE ~Busy'
    BY <2>3 DEF EventInHand
  <2>4. CASE Routes \/ Reads \/ Saves \/ Prunes
    BY <2>1, <2>2, <2>4 DEF EventInHand, Routes, Reads, Saves, Prunes
  <2> QED
    BY <2>1, <2>3, <2>4 DEF HandlerDoes, Discards, Ignores, Misses, Ends, Creates
<1> QED
  BY <1>1, <1>2, <1>3, PipelineSteps

LEMMA FollowsKept ==
    ASSUME Sound, EventInHand, Follows, [Next]_pipelineVars
    PROVE  Follows'
<1> SUFFICES ASSUME ~Busy', ~Blocked', NEW c \in CardIds, c \notin byHand', Open(c)'
             PROVE  reached' >= 1 /\ AsksReview(EventOf(reached))'
  BY DEF Follows, CardIds
<1>1. CASE AtB2B
  <2>1. ~Busy /\ ~Blocked /\ Open(c) /\ c \notin byHand
    BY <1>1, HandStays DEF AtB2B, Blocked, Open
  <2> QED
    BY <1>1, <2>1, HandStays DEF Follows, AsksReview
<1>2. CASE AtModerators
  <2>1. ~Busy
    BY <1>2, HandStays
  <2>2. UNCHANGED worker
    BY <1>2 DEF AtModerators
  <2>3. ~Blocked
    BY <2>2, QuietCards DEF Blocked, StaysOrDecided
  <2>4. Open(c) /\ c \notin byHand
    <3>1. Open(c) \/ cards[c].status = "NONE"
      BY <2>2, QuietCards DEF StaysOrDecided
    <3>2. cards'[c].status # "NONE"
      BY DEF Open
    <3> QED
      BY <1>2, <3>1, <3>2 DEF AtModerators
  <2> QED
    BY <1>2, <2>1, <2>3, <2>4, HandStays DEF Follows, AsksReview
<1>3. CASE Arrives
  BY <1>3 DEF Arrives, Busy
<1>4. CASE Handles
  <2>1. reached' = reached /\ EventOf(reached)' = EventOf(reached)
    BY <1>4, HandlingRow
  <2>2. CASE Misses \/ Ends \/ Creates
    BY <2>1, <2>2 DEF EventInHand, Misses, Ends, Creates, Busy, AsksReview
  <2>3. CASE Ignores
    BY <2>3 DEF Ignores, Blocked
  <2>4. CASE Routes \/ Reads \/ Saves \/ Prunes \/ Discards
    BY <2>4 DEF Routes, Reads, Saves, Prunes, Discards, Busy
  <2> QED
    BY <1>4, <2>2, <2>3, <2>4 DEF Handles, HandlerDoes
<1> QED
  BY <1>1, <1>2, <1>3, <1>4, PipelineSteps

LEMMA EventInit == Init => EventInHand /\ Follows
<1> SUFFICES ASSUME Init
             PROVE  EventInHand /\ Follows
  OBVIOUS
<1>1. ~Busy
  BY DEF Init, Queue!Init, Queue!IdleWorker, Busy, Hand
<1>2. \A c \in CardIds : ~Open(c)
  BY DEF Init, Queue!Init, Queue!NoCard, Queue!CardIds, Open, CardIds
<1> QED
  BY <1>1, <1>2 DEF EventInHand, Follows

THEOREM EventsInHand == Spec => []EventInHand
  BY EventInit, EventKept, PipelineSound, PTL DEF Spec

(* When every row has been handled, an open card means that the product's  *)
(* last row with a snapshot asks for a review, or that the card has been   *)
(* enqueued by hand since that row came: whatever answers were lost, and   *)
(* whatever was enqueued by hand before.                                   *)
THEOREM OpenCardsAskedFor == Spec => []QueueFollows
<1>1. Sound /\ Follows => QueueFollows
  <2> SUFFICES ASSUME Sound, Follows, NothingUnderWay, ~Queue!HardBlocked(Product),
                      Queue!OpenCards(Product) \ byHand # {}
               PROVE  \E i \in DOMAIN outbox :
                        LastSnapshot(i) /\ Queue!RequiresModeration(EventOf(i))
    BY DEF QueueFollows
  <2>1. ~Busy /\ ~Blocked /\ reached = Len(outbox)
    BY OpenLinks DEF NothingUnderWay, Busy, Hand
  <2>2. \E c \in CardIds \ byHand : Open(c)
    BY OpenLinks
  <2>3. reached \in DOMAIN outbox /\ AsksReview(EventOf(reached))
    BY <2>1, <2>2, ReachedRow, OutboxShape DEF Follows
  <2>4. outbox[reached].event \in B2B!SnapshotEvents
    BY <2>3 DEF EventOf, AsksReview, Queue!NoEvent
  <2>5. \A j \in DOMAIN outbox : ~(j > reached)
    BY <2>1, OutboxShape
  <2> QED
    BY <2>3, <2>4, <2>5 DEF LastSnapshot, Queue!RequiresModeration, AsksReview
<1>2. Sound /\ EventInHand /\ Follows /\ [Next]_pipelineVars => Follows'
  BY FollowsKept
<1> QED
  BY <1>1, <1>2, EventInit, EventsInHand, PipelineSound, PTL DEF Spec

-----------------------------------------------------------------------------
(* Decided cards.                                                          *)

(* The row that announces a decision is still to come, or in hand.         *)
Overtaken == \E j \in DOMAIN outbox : outbox[j].event = "UPDATED" /\ j > reached
Late ==
    \E j \in DOMAIN outbox :
        outbox[j].event = "UPDATED" /\ (j > reached \/ (j = reached /\ Busy))

DecidedCard(c) == \E n \in DOMAIN inbox : inbox[n].ticket = c
Shown(c) == Open(c) \/ (Hand.pc = "read" /\ c \in Hand.seen)
Checked == ~Blocked \/ Hand.pc \in {"deleting", "listing", "read", "pruning"}

(* Rows of decisions carry a verdict, so none of them asks for a review.   *)
RowsJudged ==
    \A i \in DOMAIN outbox :
        outbox[i].event = "UPDATED" => outbox[i].snapshot.status \in B2BP!Verdicts

(* What B2B was sent is about cards that exist.                            *)
Ticketed ==
    /\ \A n \in DOMAIN inbox : cards[inbox[n].ticket].status # "NONE"
    /\ \A c \in Calls : call[c] # NoDecision => cards[call[c].ticket].status # "NONE"

(* A card that B2B has decided and that is open all the same, because its  *)
(* answer was lost, is open only until the consumer has handled the row of *)
(* the decision.                                                           *)
DecidedClosed ==
    Checked => \A c \in CardIds : Shown(c) /\ DecidedCard(c) => Late

LEMMA RowsJudgedKept ==
    ASSUME Sound, RowsJudged, [Next]_pipelineVars
    PROVE  RowsJudged'
<1> SUFFICES ASSUME NEW i \in DOMAIN outbox', outbox'[i].event = "UPDATED"
             PROVE  outbox'[i].snapshot.status \in B2BP!Verdicts
  BY DEF RowsJudged, B2BP!Verdicts
<1>1. DOMAIN outbox' = 1..Len(outbox')
  BY SoundNext, OutboxShape
<1>2. CASE i \in 1..Len(outbox)
  BY <1>2, OldRows, OutboxShape DEF RowsJudged
<1>3. CASE i \in (Len(outbox) + 1)..Len(outbox')
  BY <1>3, OldRows
<1> QED
  BY <1>1, <1>2, <1>3, OldRows, OutboxShape

LEMMA DecisionTyped ==
    ASSUME Sound
    PROVE  /\ \A n \in DOMAIN inbox : inbox[n].ticket \in CardIds
           /\ \A c \in Calls : call[c] # NoDecision =>
                call[c] \in B2BP!Decisions /\ call[c].ticket \in CardIds
<1>1. /\ inbox \in Seq(B2BP!Decisions)
      /\ call \in [Calls -> B2BP!Decisions \union {NoDecision}]
  BY DEF Sound, B2BP!IInv, B2BP!TypeOK
<1>2. \A d \in B2BP!Decisions : d.ticket \in CardIds
  BY DEF B2BP!Decisions, CardIds
<1>3. \A n \in DOMAIN inbox : inbox[n] \in B2BP!Decisions
  BY <1>1
<1>4. \A c \in Calls : call[c] # NoDecision => call[c] \in B2BP!Decisions
  BY <1>1
<1> QED
  BY <1>2, <1>3, <1>4

LEMMA CardStays ==
    ASSUME Sound, [Next]_pipelineVars, NEW c \in CardIds, cards[c].status # "NONE"
    PROVE  cards'[c].status # "NONE"
<1>1. \/ cards'[c].status = "GONE"
      \/ cards'[c].status # "NONE"
  BY QueueTypes, QueueSteps, QueueAssumed, QueueP!ProductKept
<1> QED
  BY <1>1

LEMMA FirstAdded ==
    ASSUME NEW S, NEW s \in Seq(S), NEW rows \in Seq(S), 1 \in DOMAIN rows
    PROVE  /\ Len(s) + 1 \in DOMAIN (s \o rows) /\ Len(s) + 1 > Len(s)
           /\ (s \o rows)[Len(s) + 1] = rows[1]
  OBVIOUS

(* A decision is recorded together with its row.                           *)
LEMMA Recording ==
    ASSUME Sound, [Next]_pipelineVars
    PROVE  \/ UNCHANGED inbox
           \/ /\ \E c \in Calls : /\ call[c] \in B2BP!Decisions
                                  /\ inbox' = Append(inbox, call[c])
              /\ \E j \in DOMAIN outbox' : j > Len(outbox) /\ outbox'[j].event = "UPDATED"
              /\ AtB2B
<1>1. \/ UNCHANGED inbox
      \/ \E c \in Calls : B2BP!Decide(c) /\ CallStep(c)
  BY InboxGrows
<1> SUFFICES ASSUME NEW c \in Calls, B2BP!Decide(c), CallStep(c)
             PROVE  /\ call[c] \in B2BP!Decisions
                    /\ inbox' = Append(inbox, call[c])
                    /\ \E j \in DOMAIN outbox' : j > Len(outbox) /\ outbox'[j].event = "UPDATED"
                    /\ AtB2B
  BY <1>1
<1>2. call[c] \in B2BP!Decisions /\ inbox' = Append(inbox, call[c])
  BY DEF B2BP!Decide, B2BP!Apply, Sound, B2BP!IInv, B2BP!TypeOK
<1>3. AtB2B
  BY DEF CallStep, queueVars, AtB2B
<1>4. \E j \in DOMAIN outbox' : j > Len(outbox) /\ outbox'[j].event = "UPDATED"
  <2>1. PICK snapshot, rows : /\ outbox' = outbox \o rows
                              /\ rows = B2BP!DecisionRows(call[c].verdict, snapshot)
    BY DEF B2BP!Decide, B2BP!Apply, B2BP!Write
  <2> DEFINE first == B2BP!Row("UPDATED", snapshot)
             second == B2BP!ForShops("PRODUCT_BLOCKED")
             S == B2BP!OutboxRow \union {first, second}
  <2>2. first.event = "UPDATED" /\ (rows = <<first>> \/ rows = <<first, second>>)
    BY <2>1 DEF B2BP!DecisionRows, B2BP!Row
  <2> HIDE DEF first, second
  <2>6. first \in S /\ second \in S
    OBVIOUS
  <2>3. rows \in Seq(S) /\ 1 \in DOMAIN rows /\ rows[1].event = "UPDATED"
    <3> HIDE DEF S
    <3>1. CASE rows = <<first>>
      BY <2>2, <2>6, <3>1
    <3>2. CASE rows = <<first, second>>
      BY <2>2, <2>6, <3>2
    <3> QED
      BY <2>2, <3>1, <3>2
  <2>4. outbox \in Seq(S)
    BY OutboxShape
  <2> HIDE DEF S
  <2>5. /\ Len(outbox) + 1 \in DOMAIN outbox' /\ Len(outbox) + 1 > Len(outbox)
        /\ outbox'[Len(outbox) + 1] = rows[1]
    BY <2>1, <2>3, <2>4, FirstAdded
  <2> QED
    BY <2>3, <2>5
<1> QED
  BY <1>2, <1>3, <1>4

LEMMA TicketedKept ==
    ASSUME Sound, Ticketed, [Next]_pipelineVars
    PROVE  Ticketed'
<1>1. \A n \in DOMAIN inbox' : cards'[inbox'[n].ticket].status # "NONE"
  <2> SUFFICES ASSUME NEW n \in DOMAIN inbox'
               PROVE  cards'[inbox'[n].ticket].status # "NONE"
    OBVIOUS
  <2>1. CASE n \in DOMAIN inbox /\ inbox'[n] = inbox[n]
    <3>1. inbox[n].ticket \in CardIds /\ cards[inbox[n].ticket].status # "NONE"
      BY <2>1, DecisionTyped DEF Ticketed
    <3>2. PICK c \in CardIds : c = inbox[n].ticket
      BY <3>1
    <3> QED
      BY <2>1, <3>1, <3>2, CardStays
  <2>2. ASSUME NEW c \in Calls, call[c] \in B2BP!Decisions, inbox' = Append(inbox, call[c]),
               ~(n \in DOMAIN inbox /\ inbox'[n] = inbox[n]), AtB2B
        PROVE  cards'[inbox'[n].ticket].status # "NONE"
    <3>1. inbox \in Seq(B2BP!Decisions)
      BY DEF Sound, B2BP!IInv, B2BP!TypeOK
    <3>2. inbox'[n] = call[c]
      BY <2>2, <3>1
    <3>3. call[c] # NoDecision
      BY <2>2, B2BAssumed DEF B2BP!LifecycleAssumption
    <3> QED
      BY <2>2, <3>2, <3>3 DEF Ticketed, AtB2B
  <2> QED
    BY <2>1, <2>2, Recording
<1>2. ASSUME NEW c \in Calls, call'[c] # NoDecision
      PROVE  cards'[call'[c].ticket].status # "NONE"
  <2>0. call \in [Calls -> B2BP!Decisions \union {NoDecision}]
    BY DEF Sound, B2BP!IInv, B2BP!TypeOK
  <2>1. CASE call'[c] = call[c]
    <3>1. call[c].ticket \in CardIds /\ cards[call[c].ticket].status # "NONE"
      BY <1>2, <2>1, DecisionTyped DEF Ticketed
    <3>2. PICK d \in CardIds : d = call[c].ticket
      BY <3>1
    <3> QED
      BY <2>1, <3>1, <3>2, CardStays
  <2>2. ASSUME NEW r \in Requests, NEW e \in Calls, Send(r, e)
        PROVE  cards'[call'[c].ticket].status # "NONE"
    <3>1. CASE c = e
      <4>1. call'[c] = DecisionOf(r) /\ UNCHANGED cards /\ req[r].pc = "deciding"
        BY <2>0, <2>2, <3>1 DEF Send, B2B!Deliver, queueVars
      <4>2. DecisionOf(r).ticket = req[r].card /\ cards[req[r].card].status = "IN_REVIEW"
        BY <4>1, SentDecision
      <4> QED
        BY <4>1, <4>2
    <3>2. CASE c # e
      BY <2>0, <2>1, <2>2, <3>2 DEF Send, B2B!Deliver
    <3> QED
      BY <3>1, <3>2
  <2>3. ASSUME NEW e \in Calls, CallStep(e)
        PROVE  call'[c] = call[c]
    <3>1. call' = [call EXCEPT ![e] = NoDecision]
      BY <2>3 DEF CallStep, B2B!Decide, B2B!CallFails
    <3> QED
      BY <1>2, <2>0, <3>1
  <2>4. CASE SellerStep
    <3>1. UNCHANGED call
      BY <2>4 DEF SellerStep, B2B!SellerStep, B2B!EditRead, B2B!EditWrite, B2B!AddRead,
                  B2B!DropRead, B2B!DropWrite, B2B!EditSkuWrite, B2B!EditSkuSnapshot,
                  B2B!EditSkuAnnounce, B2B!DropSkuSave, B2B!DropSkuCommit, B2B!SellerFails, B2B!AddWrite,
                  B2B!EditSkuRead, B2B!DropSkuRead, B2B!Start
    <3> QED
      BY <2>1, <3>1
  <2>5. \/ UNCHANGED call
        \/ SellerStep
        \/ \E e \in Calls : CallStep(e)
        \/ \E r \in Requests, e \in Calls : Send(r, e)
    BY DEF Next, Create, B2B!CreateProduct, Deliver, Handle, Answer, ModeratorStep,
           ReviewTimeout, pipelineVars, b2bVars
  <2> QED
    BY <2>1, <2>2, <2>3, <2>4, <2>5
<1> QED
  BY <1>1, <1>2 DEF Ticketed

(* The row of a decision does not ask for a review.                        *)
LEMMA JudgedAsksNothing ==
    ASSUME RowsJudged, NEW i \in DOMAIN outbox, outbox[i].event = "UPDATED"
    PROVE  ~AsksReview(EventOf(i))
<1>1. outbox[i].snapshot.status \in B2BP!Verdicts
  BY DEF RowsJudged
<1> QED
  BY <1>1 DEF EventOf, AsksReview, B2B!SnapshotEvents, B2BP!Verdicts

LEMMA LateAhead ==
    ASSUME Sound, EventInHand, RowsJudged, Late,
           ~Busy \/ Hand.pc \in {"listing", "read", "pruning"}
    PROVE  Overtaken
<1>1. PICK j \in DOMAIN outbox :
        outbox[j].event = "UPDATED" /\ (j > reached \/ (j = reached /\ Busy))
  BY DEF Late
<1>2. CASE j = reached /\ Busy
  <2>1. AsksReview(EventOf(j))
    BY <1>2 DEF EventInHand
  <2> QED
    BY <1>1, <2>1, JudgedAsksNothing
<1> QED
  BY <1>1, <1>2 DEF Overtaken

(* B2B takes no row back.                                                  *)
LEMMA AheadStays ==
    ASSUME Sound, [Next]_pipelineVars, reached' = reached
    PROVE  Overtaken => Overtaken'
<1> SUFFICES ASSUME NEW j \in DOMAIN outbox, outbox[j].event = "UPDATED", j > reached
             PROVE  Overtaken'
  BY DEF Overtaken
<1>1. outbox'[j] = outbox[j] /\ j \in DOMAIN outbox'
  BY OldRows, OutboxShape, SoundNext
<1> QED
  BY <1>1 DEF Overtaken

LEMMA LateStays ==
    ASSUME Sound, [Next]_pipelineVars, reached' = reached, Busy => Busy'
    PROVE  Late => Late'
<1> SUFFICES ASSUME NEW j \in DOMAIN outbox, outbox[j].event = "UPDATED",
                    j > reached \/ (j = reached /\ Busy)
             PROVE  Late'
  BY DEF Late
<1>1. outbox'[j] = outbox[j] /\ j \in DOMAIN outbox'
  BY OldRows, OutboxShape, SoundNext
<1> QED
  BY <1>1 DEF Late

(* What the consumer does to the cards keeps the decided ones closed ...   *)
LEMMA HandlerCloses ==
    ASSUME Sound, EventInHand, RowsJudged, Ticketed, DecidedClosed, [Next]_pipelineVars,
           Handles
    PROVE  DecidedClosed'
<1> SUFFICES ASSUME Checked', NEW c \in CardIds, Shown(c)', DecidedCard(c)'
             PROVE  Late'
  BY DEF DecidedClosed, CardIds
<1>1. DecidedCard(c) /\ cards[c].status # "NONE"
  BY DEF Handles, DecidedCard, Ticketed
<1>2. reached' = reached
  BY DEF Handles
<1>3. ASSUME Checked, Shown(c), Busy' \/ Hand.pc \in {"listing", "read", "pruning"}
      PROVE  Late'
  <2>1. Late
    BY <1>1, <1>3 DEF DecidedClosed
  <2>2. CASE Busy'
    BY <1>2, <2>1, <2>2, LateStays
  <2>3. CASE Hand.pc \in {"listing", "read", "pruning"}
    <3>1. Overtaken'
      BY <1>2, <2>1, <2>3, LateAhead, AheadStays
    <3> QED
      BY <3>1 DEF Overtaken, Late
  <2> QED
    BY <1>3, <2>2, <2>3
<1>4. CASE Discards
  BY <1>4 DEF Discards, Shown, Busy
<1>5. CASE Ignores
  BY <1>5 DEF Ignores, Checked, Blocked, Busy
<1>6. CASE Routes
  <2>1. Checked /\ Shown(c) /\ Busy'
    BY <1>6 DEF Routes, Checked, Shown, Open, Busy
  <2> QED
    BY <1>3, <2>1
<1>7. CASE Reads
  <2>1. Checked /\ Shown(c) /\ Busy'
    BY <1>7 DEF Reads, Checked, Shown, Open, Busy
  <2> QED
    BY <1>3, <2>1
<1>8. CASE Saves
  <2>1. PICK first : SavesOne(first)
    BY <1>8 DEF Saves
  <2>2. Checked /\ Shown(c) /\ Busy'
    BY <1>8, <2>1 DEF Saves, SavesOne, Checked, Shown, Open, Busy
  <2> QED
    BY <1>3, <2>2
<1>9. CASE Misses
  <2>1. Checked /\ Shown(c) /\ Hand.pc = "read"
    BY <1>9 DEF Misses, Checked, Shown, Open, Busy
  <2> QED
    BY <1>3, <2>1
<1>10. CASE Prunes
  <2>1. PICK last \in CardIds : PrunesOne(last)
    BY <1>10 DEF Prunes
  <2>2. Checked /\ Shown(c) /\ Hand.pc = "pruning"
    BY <1>10, <2>1 DEF Prunes, PrunesOne, Checked, Shown, Open, Busy
  <2> QED
    BY <1>3, <2>2
<1>11. CASE Ends
  <2>1. Checked /\ Shown(c) /\ Hand.pc = "pruning"
    BY <1>11 DEF Ends, Checked, Shown, Open, Busy
  <2> QED
    BY <1>3, <2>1
<1>12. CASE Creates
  <2>1. PICK new \in CardIds : CreatesOne(new)
    BY <1>12 DEF Creates
  <2>2. Checked /\ Shown(c) /\ Hand.pc = "read"
    BY <1>1, <1>12, <2>1 DEF Creates, CreatesOne, Checked, Shown, Open, Busy
  <2> QED
    BY <1>3, <2>2
<1> QED
  BY <1>4, <1>5, <1>6, <1>7, <1>8, <1>9, <1>10, <1>11, <1>12 DEF Handles, HandlerDoes

(* ... and so does everybody else.                                         *)
LEMMA ClosedKept ==
    ASSUME Sound, EventInHand, RowsJudged, Ticketed, DecidedClosed, [Next]_pipelineVars
    PROVE  DecidedClosed'
<1>1. ASSUME AtB2B, ~(UNCHANGED inbox)
      PROVE  DecidedClosed'
  <2>1. PICK j \in DOMAIN outbox' : j > Len(outbox) /\ outbox'[j].event = "UPDATED"
    BY <1>1, Recording
  <2>2. DOMAIN outbox' = 1..Len(outbox') /\ Len(outbox') \in Nat
    BY SoundNext, OutboxShape
  <2>3. j > reached'
    BY <1>1, <2>1, <2>2, ReachedRow DEF AtB2B
  <2>4. Late'
    BY <2>1, <2>3 DEF Late
  <2> QED
    BY <2>4 DEF DecidedClosed
<1>2. ASSUME UNCHANGED inbox, AtB2B \/ AtModerators
      PROVE  DecidedClosed'
  <2> SUFFICES ASSUME Checked', NEW c \in CardIds, Shown(c)', DecidedCard(c)'
               PROVE  Late'
    BY DEF DecidedClosed, CardIds
  <2>1. DecidedCard(c) /\ cards[c].status # "NONE"
    BY <1>2 DEF DecidedCard, Ticketed
  <2>2. Checked /\ Shown(c)
    <3>1. CASE AtB2B
      BY <3>1, HandStays DEF AtB2B, Checked, Blocked, Shown, Open
    <3>2. CASE AtModerators
      <4>1. Open(c)' => Open(c)
        BY <2>1, <3>2, QuietCards DEF AtModerators, StaysOrDecided
      <4>2. Blocked => Blocked'
        BY <3>2, QuietCards DEF AtModerators, StaysOrDecided, Blocked
      <4> QED
        BY <3>2, <4>1, <4>2, HandStays DEF Checked, Shown
    <3> QED
      BY <1>2, <3>1, <3>2
  <2>3. Late
    BY <2>1, <2>2 DEF DecidedClosed
  <2> QED
    BY <1>2, <2>3, HandStays, LateStays
<1>3. CASE Arrives
  <2> SUFFICES ASSUME Checked', NEW c \in CardIds, Shown(c)', DecidedCard(c)'
               PROVE  Late'
    BY DEF DecidedClosed, CardIds
  <2>1. Checked /\ Shown(c) /\ DecidedCard(c)
    BY <1>3 DEF Arrives, Checked, Shown, Open, DecidedCard, Blocked
  <2>2. PICK j \in DOMAIN outbox : outbox[j].event = "UPDATED" /\ j > reached
    BY <1>3, <2>1 DEF DecidedClosed, Late, Arrives
  <2>3. j > reached' \/ j = reached'
    BY <1>3, <2>2, ReachedRow, OutboxShape DEF Arrives
  <2> QED
    BY <1>3, <2>2, <2>3 DEF Arrives, Late, Busy
<1> QED
  BY <1>1, <1>2, <1>3, HandlerCloses, PipelineSteps DEF AtModerators

-----------------------------------------------------------------------------
(* The review a row asks for.                                              *)

Shows(c, ev) == Open(c) /\ cards[c].content = ev.content
Demands(ev) == AsksReview(ev) /\ ev.type # "DELETED"

(* The consumer has found a card for the row it has handled, finds one     *)
(* while it reads and keeps it while it prunes, unless the row of a        *)
(* decision is on its way; the seller's row that follows that one counts.  *)
ReviewGiven ==
    /\ ~Busy /\ ~Blocked /\ reached >= 1 /\ Demands(EventOf(reached)) =>
         (\E c \in CardIds : Shows(c, EventOf(reached))) \/ Overtaken
    /\ Hand.pc = "read" => (\A c \in Hand.seen : Open(c)) \/ Overtaken
    /\ Hand.pc = "pruning" =>
         (\E c \in CardIds \ Hand.seen : Shows(c, Hand.ev)) \/ Overtaken

(* A card that leaves the queue by a decision is a decided one.            *)
LEMMA AnsweredDecided ==
    ASSUME AnswerRecorded, NEW c, Answered(c)
    PROVE  DecidedCard(c)
<1>1. PICK r \in Requests : req[r].pc = "answered" /\ req[r].card = c
  BY DEF Answered
<1>2. B2B!Recorded(DecisionOf(r)) /\ DecisionOf(r).ticket = c
  BY <1>1 DEF AnswerRecorded, DecisionOf
<1> QED
  BY <1>2 DEF B2B!Recorded, DecidedCard

LEMMA OpenOrAhead ==
    ASSUME Sound, AnswerRecorded, EventInHand, RowsJudged, DecidedClosed,
           [Next]_pipelineVars, AtModerators, NEW c \in CardIds, Open(c),
           (~Busy /\ ~Blocked) \/ Hand.pc \in {"listing", "read", "pruning"}
    PROVE  (Open(c)' /\ cards'[c].content = cards[c].content) \/ Overtaken'
<1>1. (Open(c)' /\ cards'[c].content = cards[c].content) \/ Answered(c)
  BY QuietCards DEF AtModerators, StaysOrDecided
<1>2. ASSUME Answered(c)
      PROVE  Overtaken'
  <2>1. Late
    BY <1>2, AnsweredDecided DEF DecidedClosed, Checked, Shown
  <2>2. Overtaken
    BY <2>1, LateAhead
  <2> QED
    BY <2>2, AheadStays DEF AtModerators
<1> QED
  BY <1>1, <1>2

LEMMA HandlerGives ==
    ASSUME Sound, EventInHand, ReviewGiven, [Next]_pipelineVars, Handles
    PROVE  ReviewGiven'
<1>0. PICK row : row = EventOf(reached)
  OBVIOUS
<1>1. /\ reached' = reached /\ EventOf(reached)' = row
      /\ Busy => Hand.ev = row
      /\ Overtaken => Overtaken'
  BY <1>0, HandlingRow, AheadStays DEF Handles, EventInHand
<1>2. CASE Discards
  <2>1. ~Demands(row)
    BY <1>1, <1>2 DEF Discards, EventInHand, Demands, Busy
  <2> QED
    BY <1>1, <1>2, <2>1 DEF Discards, ReviewGiven, Busy, Demands, AsksReview
<1>3. CASE Ignores
  BY <1>3 DEF Ignores, ReviewGiven, Busy, Blocked
<1>4. CASE Routes
  BY <1>4 DEF Routes, ReviewGiven, Busy
<1>5. CASE Reads
  BY <1>5 DEF Reads, ReviewGiven, Busy, Open
<1>6. CASE Saves
  <2>1. PICK first : SavesOne(first)
    BY <1>6 DEF Saves
  <2>2. CASE Overtaken
    BY <1>1, <1>6, <2>2 DEF Saves, ReviewGiven, Busy
  <2>3. CASE \A c \in Hand.seen : Open(c)
    <3>1. first \in CardIds \ Hand'.seen /\ Open(first)' /\ cards'[first].content = Hand'.ev.content
      BY <1>6, <2>1, <2>3 DEF Saves, SavesOne
    <3> QED
      BY <1>6, <3>1 DEF Saves, ReviewGiven, Busy, Shows
  <2> QED
    BY <1>6, <2>2, <2>3 DEF Saves, ReviewGiven
<1>7. CASE Misses
  <2>1. Overtaken'
    BY <1>1, <1>7 DEF Misses, ReviewGiven
  <2> QED
    BY <1>7, <2>1 DEF Misses, ReviewGiven, Busy
<1>8. CASE Prunes
  <2>0. PICK last \in CardIds : PrunesOne(last)
    BY <1>8 DEF Prunes
  <2>1. CASE Overtaken
    BY <1>1, <1>8, <2>1 DEF Prunes, ReviewGiven, Busy
  <2>2. ASSUME NEW c \in CardIds \ Hand.seen, Shows(c, Hand.ev)
        PROVE  ReviewGiven'
    <3>1. c \in CardIds \ Hand'.seen /\ Open(c)' /\ cards'[c].content = Hand'.ev.content
      BY <1>8, <2>0, <2>2 DEF Prunes, PrunesOne, Shows, Open
    <3> QED
      BY <1>8, <3>1 DEF Prunes, ReviewGiven, Busy, Shows
  <2> QED
    BY <1>8, <2>1, <2>2 DEF Prunes, ReviewGiven
<1>9. CASE Ends
  <2>1. CASE Overtaken
    BY <1>1, <1>9, <2>1 DEF Ends, ReviewGiven, Busy
  <2>2. ASSUME NEW c \in CardIds, Shows(c, Hand.ev)
        PROVE  ReviewGiven'
    <3>1. Open(c)' /\ cards'[c].content = row.content
      BY <1>1, <1>9, <2>2 DEF Ends, Shows, Open, Busy
    <3> QED
      BY <1>1, <1>9, <3>1 DEF Ends, ReviewGiven, Busy, Shows
  <2> QED
    BY <1>9, <2>1, <2>2 DEF Ends, ReviewGiven
<1>10. CASE Creates
  <2>1. PICK new \in CardIds : CreatesOne(new)
    BY <1>10 DEF Creates
  <2>2. Open(new)' /\ cards'[new].content = row.content
    BY <1>1, <1>10, <2>1 DEF Creates, CreatesOne, Busy
  <2> QED
    BY <1>1, <1>10, <2>1, <2>2 DEF Creates, ReviewGiven, Busy, Shows
<1> QED
  BY <1>2, <1>3, <1>4, <1>5, <1>6, <1>7, <1>8, <1>9, <1>10 DEF Handles, HandlerDoes

LEMMA ReviewKept ==
    ASSUME Sound, AnswerRecorded, EventInHand, RowsJudged, DecidedClosed, ReviewGiven,
           [Next]_pipelineVars
    PROVE  ReviewGiven'
<1>1. CASE AtB2B
  <2>1. /\ Hand' = Hand /\ (Busy' <=> Busy) /\ UNCHANGED <<cards, reached>>
        /\ reached >= 1 => EventOf(reached)' = EventOf(reached)
        /\ Overtaken => Overtaken'
    BY <1>1, HandStays, AheadStays DEF AtB2B
  <2> QED
    BY <2>1 DEF ReviewGiven, Blocked, Shows, Open, Demands, AsksReview
<1>2. CASE AtModerators
  <2>0. PICK row : row = EventOf(reached)
    OBVIOUS
  <2>1. /\ Hand' = Hand /\ (Busy' <=> Busy) /\ reached' = reached
        /\ reached >= 1 => EventOf(reached)' = row
        /\ Overtaken => Overtaken'
        /\ Blocked => Blocked'
    BY <1>2, <2>0, HandStays, AheadStays, QuietCards
       DEF AtModerators, StaysOrDecided, Blocked
  <2>2. ASSUME NEW c \in CardIds, Open(c),
               (~Busy /\ ~Blocked) \/ Hand.pc \in {"listing", "read", "pruning"}
        PROVE  (Open(c)' /\ cards'[c].content = cards[c].content) \/ Overtaken'
    BY <1>2, <2>2, OpenOrAhead
  <2>3. ASSUME ~Busy', ~Blocked', reached' >= 1, Demands(EventOf(reached))', ~Overtaken'
        PROVE  \E c \in CardIds : Shows(c, EventOf(reached))'
    <3>1. ~Busy /\ ~Blocked /\ reached >= 1 /\ Demands(row) /\ ~Overtaken
      BY <2>1, <2>3 DEF Demands, AsksReview
    <3>2. PICK c \in CardIds : Shows(c, row)
      BY <2>0, <3>1 DEF ReviewGiven
    <3>3. Open(c)' /\ cards'[c].content = row.content
      BY <2>2, <2>3, <3>1, <3>2 DEF Shows
    <3> QED
      BY <2>1, <3>1, <3>3 DEF Shows
  <2>4. ASSUME Hand'.pc = "read", ~Overtaken', NEW c \in Hand'.seen
        PROVE  Open(c)'
    <3>1. Open(c) /\ c \in CardIds
      BY <2>1, <2>4, QueueTypes DEF ReviewGiven
    <3> QED
      BY <2>1, <2>2, <2>4, <3>1
  <2>5. ASSUME Hand'.pc = "pruning", ~Overtaken'
        PROVE  \E c \in CardIds \ Hand'.seen : Shows(c, Hand.ev)'
    <3>1. PICK c \in CardIds \ Hand.seen : Shows(c, Hand.ev)
      BY <2>1, <2>5 DEF ReviewGiven
    <3>2. Open(c)' /\ cards'[c].content = Hand.ev.content
      BY <2>1, <2>2, <2>5, <3>1 DEF Shows
    <3> QED
      BY <2>1, <3>1, <3>2 DEF Shows
  <2> QED
    BY <2>3, <2>4, <2>5 DEF ReviewGiven, CardIds
<1>3. CASE Arrives
  BY <1>3 DEF Arrives, ReviewGiven, Busy
<1> QED
  BY <1>1, <1>2, <1>3, HandlerGives, PipelineSteps

(* What B2B was told, and what the consumer has made of it.                *)
Reviewed ==
    RowsJudged /\ Ticketed /\ AnswerRecorded /\ EventInHand /\ DecidedClosed /\ ReviewGiven

LEMMA ReviewedInit == Init => Reviewed
<1> SUFFICES ASSUME Init
             PROVE  Reviewed
  OBVIOUS
<1>1. outbox = <<>> /\ inbox = <<>> /\ call = [c \in Calls |-> NoDecision] /\ reached = 0
  BY DEF Init, B2B!Init
<1>2. Hand.pc = "idle" /\ \A r \in Requests : req[r].pc = "idle"
  BY DEF Init, Queue!Init, Queue!IdleWorker, Queue!IdleRequest, Hand
<1>3. RowsJudged /\ Ticketed
  BY <1>1 DEF RowsJudged, Ticketed
<1>4. DecidedClosed
  BY <1>1 DEF DecidedClosed, DecidedCard
<1>5. ReviewGiven
  BY <1>1, <1>2 DEF ReviewGiven, Busy
<1> QED
  BY <1>2, <1>3, <1>4, <1>5, EventInit DEF Reviewed, AnswerRecorded

THEOREM EveryRowReviewed == Spec => []Reviewed
<1>1. Sound /\ Reviewed /\ [Next]_pipelineVars => Reviewed'
  BY RowsJudgedKept, TicketedKept, AnswerKept, EventKept, ClosedKept, ReviewKept DEF Reviewed
<1> QED
  BY <1>1, ReviewedInit, PipelineSound, PTL DEF Spec

-----------------------------------------------------------------------------
(* The row that asks for the review a product waits for.                   *)

(* It is the last one, and shows what the seller wrote last.               *)
RowOfReview ==
    AwaitsReview =>
        /\ Len(outbox) >= 1
        /\ outbox[Len(outbox)].event \in {"CREATED", "EDITED"}
        /\ outbox[Len(outbox)].snapshot.status = "ON_MODERATION"
        /\ carried[Len(outbox)].content = content
        /\ carried[Len(outbox)].live

(* The product is as its seller's request has read it, unless a decision   *)
(* has come in between.                                                    *)
SellerReads ==
    seller[Seller].op # "idle" =>
        /\ product.status # "NONE"
        /\ product = seller[Seller].read \/ product.status \in B2B!Verdicts
        /\ seller[Seller].op = "add sku" => (seller[Seller].flag <=> B2B!Live = {})

LEMMA NewLastRow ==
    ASSUME Sound, [Next]_pipelineVars, NEW row,
           outbox' = outbox \o <<row>>, row.event \in {"CREATED", "EDITED"},
           AwaitsReview' => row.snapshot.status = "ON_MODERATION"
    PROVE  RowOfReview'
<1>1. outbox \in Seq(B2BP!OutboxRow) /\ Len(outbox) \in Nat
  BY OutboxShape
<1>2. Len(outbox') = Len(outbox) + 1 /\ outbox'[Len(outbox')] = row
  BY <1>1
<1>3. Len(outbox') \in (Len(outbox) + 1)..Len(outbox') /\ Len(outbox') >= 1
  BY <1>1, <1>2
<1>4. carried'[Len(outbox')].content = content' /\ (carried'[Len(outbox')].live <=> B2B!Live' # {})
  BY <1>3, OldRows
<1> QED
  BY <1>2, <1>3, <1>4 DEF RowOfReview, AwaitsReview

LEMMA SameLastRow ==
    ASSUME Sound, [Next]_pipelineVars, RowOfReview, UNCHANGED <<outbox, content>>,
           AwaitsReview' => AwaitsReview
    PROVE  RowOfReview'
<1> SUFFICES ASSUME AwaitsReview'
             PROVE  /\ Len(outbox) >= 1
                    /\ outbox[Len(outbox)].event \in {"CREATED", "EDITED"}
                    /\ outbox[Len(outbox)].snapshot.status = "ON_MODERATION"
                    /\ carried'[Len(outbox)].content = content
                    /\ carried'[Len(outbox)].live
  BY DEF RowOfReview
<1>1. Len(outbox) \in 1..Len(outbox)
  BY OutboxShape DEF RowOfReview
<1>2. carried'[Len(outbox)] = carried[Len(outbox)]
  BY <1>1, OldRows
<1> QED
  BY <1>2 DEF RowOfReview

LEMMA SellerTyped ==
    ASSUME Sound
    PROVE  /\ seller \in [{Seller} -> B2BP!SellerState]
           /\ sku \in [Skus -> B2BP!SkuStates]
           /\ product \in B2BP!ProductRow
           /\ outbox \in Seq(B2BP!OutboxRow)
  BY DEF Sound, B2BP!IInv, B2BP!TypeOK

(* A request that starts, and one that takes a snapshot, has read the      *)
(* product as it is.                                                       *)
LEMMA SellerBegins ==
    ASSUME Sound, SellerReads, RowOfReview, [Next]_pipelineVars, SellerStep,
           UNCHANGED <<product, sku, outbox>>, NEW next, product.status # "NONE",
           seller' = [seller EXCEPT ![Seller] = next], next.read = product,
           next.op = "add sku" => (next.flag <=> B2B!Live = {})
    PROVE  SellerReads' /\ RowOfReview'
<1>1. seller'[Seller] = next
  BY SellerTyped
<1>2. B2B!Live' = B2B!Live
  BY DEF B2B!Live
<1>3. content' = content
  BY DEF SellerStep, Edited
<1>4. AwaitsReview' => AwaitsReview
  BY <1>2 DEF AwaitsReview
<1>5. RowOfReview'
  BY <1>3, <1>4, SameLastRow
<1> QED
  BY <1>1, <1>2, <1>5 DEF SellerReads

LEMMA SellerEnds ==
    ASSUME Sound, B2B!Finish(Seller)
    PROVE  SellerReads'
<1>1. seller'[Seller].op = "idle"
  BY SellerTyped DEF B2B!Finish, B2B!IdleSeller
<1> QED
  BY <1>1 DEF SellerReads

LEMMA NothingWritten ==
    ASSUME Sound, outbox' = outbox \o <<>>
    PROVE  outbox' = outbox
  BY SellerTyped

LEMMA SellerRow ==
    ASSUME Sound, SellerReads, RowOfReview, [Next]_pipelineVars, SellerStep
    PROVE  SellerReads' /\ RowOfReview'
<1>1. ASSUME NEW op, NEW k, NEW flag, B2B!Start(Seller, op, k, flag), product.status # "NONE",
             op = "add sku" => (flag <=> B2B!Live = {})
      PROVE  SellerReads' /\ RowOfReview'
  <2>1. PICK next : next = [op |-> op, sku |-> k, read |-> product, flag |-> flag]
    OBVIOUS
  <2>2. seller' = [seller EXCEPT ![Seller] = next] /\ UNCHANGED <<product, sku, outbox>>
    BY <1>1, <2>1 DEF B2B!Start
  <2>3. next.read = product /\ next.op = op /\ next.flag = flag
    BY <2>1
  <2> QED
    BY <1>1, <2>2, <2>3, SellerBegins
<1>2. CASE B2B!EditRead(Seller) \/ B2B!AddRead(Seller) \/ B2B!DropRead(Seller)
           \/ \E k \in Skus : \/ B2B!EditSkuRead(Seller, k)
                              \/ \E inStock \in BOOLEAN : B2B!DropSkuRead(Seller, k, inStock)
  BY <1>1, <1>2 DEF B2B!EditRead, B2B!AddRead, B2B!DropRead, B2B!EditSkuRead, B2B!DropSkuRead,
                    B2B!NotHardBlocked
<1>3. CASE B2B!EditSkuSnapshot(Seller)
  <2>1. PICK next : next = [op |-> "announce", sku |-> seller[Seller].sku, read |-> product,
                            flag |-> FALSE]
    OBVIOUS
  <2>2. /\ seller' = [seller EXCEPT ![Seller] = next] /\ UNCHANGED <<product, sku, outbox>>
        /\ product.status # "NONE"
    BY <1>3, <2>1 DEF B2B!EditSkuSnapshot, SellerReads
  <2>3. next.read = product /\ next.op = "announce"
    BY <2>1
  <2> QED
    BY <2>2, <2>3, SellerBegins
<1>4. CASE B2B!EditWrite(Seller)
  <2>1. PICK row : row = B2B!Row("EDITED", product')
    OBVIOUS
  <2>2. B2B!Finish(Seller) /\ outbox' = outbox \o <<row>>
    BY <1>4, <2>1 DEF B2B!EditWrite, B2B!Write
  <2>3. row.event = "EDITED" /\ row.snapshot = product'
    BY <2>1 DEF B2B!Row
  <2> QED
    BY <2>2, <2>3, SellerEnds, NewLastRow DEF AwaitsReview
<1>5. ASSUME NEW event \in {"CREATED", "EDITED"}, B2B!PutOnModeration(event),
             B2B!Finish(Seller)
      PROVE  SellerReads' /\ RowOfReview'
  <2>1. PICK row : row = B2B!Row(event, product')
    OBVIOUS
  <2>2. outbox' = outbox \o <<row>>
    BY <1>5, <2>1 DEF B2B!PutOnModeration, B2B!Write
  <2>3. row.event = event /\ row.snapshot = product'
    BY <2>1 DEF B2B!Row
  <2> QED
    BY <1>5, <2>2, <2>3, SellerEnds, NewLastRow DEF AwaitsReview
<1>6. ASSUME B2B!Finish(Seller), UNCHANGED <<product, outbox>>, B2B!Live' # {} => B2B!Live # {}
      PROVE  SellerReads' /\ RowOfReview'
  <2>1. content' = content
    BY <1>6 DEF SellerStep, Edited
  <2>2. AwaitsReview' => AwaitsReview
    BY <1>6 DEF AwaitsReview
  <2> QED
    BY <1>6, <2>1, <2>2, SellerEnds, SameLastRow
<1>7. ASSUME NEW k \in Skus, B2B!AddWrite(Seller, k)
      PROVE  SellerReads' /\ RowOfReview'
  <2>1. CASE B2B!PutOnModeration("CREATED") \/ B2B!PutOnModeration("EDITED")
    BY <1>5, <1>7, <2>1 DEF B2B!AddWrite
  <2>2. CASE ~seller[Seller].flag /\ UNCHANGED <<product, outbox>>
    <3>1. B2B!Live # {}
      BY <1>7, <2>2 DEF B2B!AddWrite, SellerReads
    <3> QED
      BY <1>6, <1>7, <2>2, <3>1 DEF B2B!AddWrite
  <2> QED
    BY <1>7, <2>1, <2>2 DEF B2B!AddWrite
<1>8. CASE B2B!EditSkuWrite(Seller)
  BY <1>5, <1>8 DEF B2B!EditSkuWrite
<1>9. CASE B2B!EditSkuAnnounce(Seller)
  <2>1. PICK row : row = B2B!Row("EDITED", seller[Seller].read)
    OBVIOUS
  <2>2. /\ B2B!Finish(Seller) /\ outbox' = outbox \o <<row>> /\ UNCHANGED product
        /\ seller[Seller].op = "announce"
    BY <1>9, <2>1 DEF B2B!EditSkuAnnounce, B2B!Write
  <2>3. row.event = "EDITED" /\ row.snapshot = seller[Seller].read
    BY <2>1 DEF B2B!Row
  <2>4. AwaitsReview' => seller[Seller].read = product /\ product.status = "ON_MODERATION"
    BY <2>2 DEF SellerReads, AwaitsReview, B2B!Verdicts
  <2> QED
    BY <2>2, <2>3, <2>4, SellerEnds, NewLastRow
<1>10. CASE B2B!DropSkuCommit(Seller)
  <2>1. B2B!Finish(Seller) /\ seller[Seller].op # "idle"
    BY <1>10 DEF B2B!DropSkuCommit
  <2>2. CASE product' = B2B!Marked(product, "CREATED", product.explained)
    <3>1. ~AwaitsReview'
      BY <2>2 DEF B2B!Marked, AwaitsReview
    <3> QED
      BY <2>1, <3>1, SellerEnds DEF RowOfReview
  <2>3. CASE UNCHANGED product /\ product.status # "ON_MODERATION"
    <3>1. ~AwaitsReview'
      BY <2>3 DEF AwaitsReview
    <3> QED
      BY <2>1, <3>1, SellerEnds DEF RowOfReview
  <2>4. CASE UNCHANGED product /\ product.status = "ON_MODERATION"
    <3>1. seller[Seller].read.status = "ON_MODERATION"
      BY <2>1, <2>4 DEF SellerReads, B2B!Verdicts
    <3>2. outbox' = outbox \o <<>>
      <4>1. product' # B2B!Marked(product, "CREATED", product.explained)
        BY <2>4 DEF B2B!Marked
      <4> QED
        BY <1>10, <3>1, <4>1 DEF B2B!DropSkuCommit, B2B!Write
    <3>3. B2B!Live' \subseteq B2B!Live
      BY <1>10, SellerTyped DEF B2B!DropSkuCommit, B2B!Live
    <3> QED
      BY <1>6, <2>1, <2>4, <3>2, <3>3, NothingWritten
  <2> QED
    BY <1>10, <2>2, <2>3, <2>4 DEF B2B!DropSkuCommit
<1>11. CASE B2B!DropSkuSave(Seller)
  <2>1. PICK op \in {"withdrawing", "dropping"} : seller' = [seller EXCEPT ![Seller].op = op]
    BY <1>11 DEF B2B!DropSkuSave
  <2>2. UNCHANGED <<product, sku, outbox>> /\ seller[Seller].op # "idle"
    BY <1>11 DEF B2B!DropSkuSave
  <2>3. seller'[Seller].op = op /\ seller'[Seller].read = seller[Seller].read
    BY <2>1, SellerTyped DEF B2BP!SellerState
  <2>4. SellerReads'
    BY <2>1, <2>2, <2>3 DEF SellerReads
  <2>5. content' = content
    BY <2>2 DEF SellerStep, Edited
  <2>6. AwaitsReview' => AwaitsReview
    BY <2>2 DEF AwaitsReview, B2B!Live
  <2> QED
    BY <2>2, <2>4, <2>5, <2>6, SameLastRow
<1>12. CASE B2B!DropWrite(Seller)
  <2>1. ~AwaitsReview' /\ B2B!Finish(Seller)
    BY <1>12, SellerTyped DEF B2B!DropWrite, AwaitsReview, B2BP!ProductRow
  <2> QED
    BY <2>1, SellerEnds DEF RowOfReview
<1>13. CASE B2B!SellerFails(Seller)
  BY <1>6, <1>13 DEF B2B!SellerFails, B2B!Live
<1> QED
  BY <1>2, <1>3, <1>4, <1>7, <1>8, <1>9, <1>10, <1>11, <1>12, <1>13
     DEF SellerStep, B2B!SellerStep

LEMMA ProductRowKept ==
    ASSUME Sound, SellerReads, RowOfReview, [Next]_pipelineVars
    PROVE  SellerReads' /\ RowOfReview'
<1>1. CASE SellerStep
  BY <1>1, SellerRow
<1>2. CASE Create
  <2>1. product'.status = "CREATED" /\ product.status = "NONE" /\ UNCHANGED seller
    BY <1>2 DEF Create, B2B!CreateProduct, B2B!NoProduct
  <2> QED
    BY <2>1 DEF SellerReads, RowOfReview, AwaitsReview
<1>3. ASSUME NEW c \in Calls, CallStep(c), B2BP!Decide(c)
      PROVE  SellerReads' /\ RowOfReview'
  <2>1. call[c] \in B2BP!Decisions
    BY <1>3 DEF B2BP!Decide, Sound, B2BP!IInv, B2BP!TypeOK
  <2>2. product'.status = call[c].verdict /\ UNCHANGED <<seller, sku>>
    BY <1>3 DEF B2BP!Decide, B2BP!Apply, B2BP!Marked
  <2>3. product'.status \in {"MODERATED", "BLOCKED", "HARD_BLOCKED"}
    BY <2>1, <2>2 DEF B2BP!Decisions, B2BP!Verdicts
  <2>4. B2B!Live' = B2B!Live
    BY <2>2 DEF B2B!Live
  <2> QED
    BY <2>2, <2>3, <2>4 DEF SellerReads, RowOfReview, AwaitsReview, B2B!Verdicts
<1>4. CASE UNCHANGED <<product, sku, outbox, seller, content>>
  <2>1. B2B!Live' = B2B!Live
    BY <1>4 DEF B2B!Live
  <2>2. AwaitsReview' => AwaitsReview
    BY <1>4, <2>1 DEF AwaitsReview
  <2> QED
    BY <1>4, <2>1, <2>2, SameLastRow DEF SellerReads
<1>5. ASSUME NEW c \in Calls, CallStep(c)
      PROVE  B2BP!Decide(c) \/ UNCHANGED <<product, sku, outbox, seller, content>>
  BY <1>5, SameB2B DEF CallStep, B2B!CallFails
<1>6. \/ SellerStep \/ Create \/ \E c \in Calls : CallStep(c)
      \/ UNCHANGED <<product, sku, outbox, seller, content>>
  BY DEF Next, Send, B2B!Deliver, Deliver, Handle, Answer, ModeratorStep, ReviewTimeout,
         pipelineVars, b2bVars, linkVars
<1> QED
  BY <1>1, <1>2, <1>3, <1>4, <1>5, <1>6

(* When every row has been handled, a product that awaits a review has a   *)
(* card that shows what its seller last wrote, unless the queue holds it   *)
(* for hard blocked: whatever edits, answers that were lost, repeated      *)
(* calls, timeouts and cards enqueued by hand there were in between.       *)
THEOREM SubmissionsShown == Spec => []Requeued
<1>1. Init => SellerReads /\ RowOfReview
  BY DEF Init, B2B!Init, B2B!IdleSeller, B2B!NoProduct, SellerReads, RowOfReview, AwaitsReview
<1>2. Sound /\ SellerReads /\ RowOfReview /\ [Next]_pipelineVars
        => SellerReads' /\ RowOfReview'
  BY ProductRowKept
<1>3. Sound /\ Reviewed /\ RowOfReview => Requeued
  <2> SUFFICES ASSUME Sound, Reviewed, RowOfReview, NothingUnderWay, AwaitsReview,
                      ~Queue!HardBlocked(Product)
               PROVE  \E c \in Queue!OpenCards(Product) : cards[c].content = content
    BY DEF Requeued
  <2> DEFINE last == Len(outbox)
  <2>1. ~Busy /\ ~Blocked /\ reached = last
    BY OpenLinks DEF NothingUnderWay, Busy, Hand
  <2>2. /\ last >= 1 /\ outbox[last].event \in {"CREATED", "EDITED"}
        /\ outbox[last].snapshot.status = "ON_MODERATION"
        /\ carried[last].content = content /\ carried[last].live
    BY DEF RowOfReview
  <2> HIDE DEF last
  <2>3. Demands(EventOf(last)) /\ EventOf(last).content = content
    BY <2>2 DEF EventOf, Demands, AsksReview, B2B!SnapshotEvents
  <2>4. ~Overtaken
    BY <2>1, OutboxShape DEF Overtaken, last
  <2>5. PICK c \in CardIds : Shows(c, EventOf(last))
    BY <2>1, <2>2, <2>3, <2>4 DEF Reviewed, ReviewGiven
  <2> QED
    BY <2>3, <2>5, OpenLinks DEF Shows
<1> QED
  BY <1>1, <1>2, <1>3, EveryRowReviewed, PipelineSound, PTL DEF Spec
===================================================================================
