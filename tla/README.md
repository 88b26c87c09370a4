# NeoMarket: specification and verification

This directory models the services of NeoMarket in TLA+, checks the models with TLC on small
instances and proves the results that matter most with TLAPS. It is kept beside the code in
`services/`; the source the definitions translate is named, line by line, in `PROJECT.json` (`map`).

## 1. Inventory of the system

The repository holds five Django services (each with its own PostgreSQL database), a Redis stream
`neomarket.events` between them, and background loops started by `docker-compose.yml`. The README of
the repository names six more services (auth, payments, logistics, reviews, promo, antifraud) and an
API gateway; their code is not in the tree.

| Part | State it keeps | Operations that change it | Hard behaviour |
|---|---|---|---|
| **Moderation queue and decisions** (`services/moderation`) | `ModerationCard` (status, priority queue, type, moderator, review clock, `updated_at`), `ModerationEvent` (decision log), `IntegrationInbox` | get-next (with release of timed-out reviews), approve, soft-block, hard-block, manual enqueue, event intake from the stream and over HTTP | `SELECT ... FOR UPDATE SKIP LOCKED` next to unlocked reads; review timeout racing a late decision; B2B called inside the transaction; event handling that commits statement by statement; duplicate cards |
| **B2B product lifecycle** (`services/b2b/b2b_api/views.py`) | `Product` (status, deleted, blocking reason), `Sku`, `IntegrationOutbox`, `IntegrationInbox` | create / edit / delete product, create / edit / delete SKU, apply a moderation decision | seller handlers read without a lock and save what they read; a decision can land between |
| **B2B inventory and invoices** (same file) | `Sku.active_quantity`, `reserved_quantity`, `InventoryOperation` keys, `Invoice`, `InvoiceItem` | reserve, unreserve, fulfill, create and accept invoice | idempotency keys looked up before the lock; retries racing the call they repeat; edits from stale rows |
| **Outbox relay** (`publish_outbox_events.py`) | `IntegrationOutbox.published`, the Redis stream | publish a batch of at most 200 rows | crash between `XADD` and marking the row: duplicates; two relays |
| **Moderation consumer** (`consume_b2b_events.py`) | consumer group position, inbox rows | read, record in the inbox, handle, acknowledge | a failure after the read leaves the entry pending, and nothing ever reads a pending entry; several deliveries of one row are several entries |
| **Orders** (`services/orders`) | `Order`, `OrderItem`, `IntegrationOutbox` (pending fulfills) | create (reserve), cancel (unreserve), change status, fulfill, retry loop | unlocked read-check-write of the status around a remote call; retry after an unknown outcome |
| **Cart** (`services/cart`) | `Cart`, `CartItem`, favourites, subscriptions, processed event keys | add, change, delete, clear, merge guest cart, favourites, product events | any request that carries both identities merges the session's cart first, statement by statement and outside a transaction unless it adds or changes an item |
| **Catalog: synchronisation** (`services/catalog`: `sync_b2b_catalog`, `b2b_projection.py`) | product read model | walk over the pages of B2B's feed, replacement of the read model | every page is a count and a slice with B2B moving in between; a page may fail after others were read; a product may be on two pages |
| **Catalog: list, facets, other pages** (`catalog_api/views.py`) | - | none: list and facets walk over B2B's feed at every request, the other pages read the read model | the same walk; filters and facet counts that must agree |
| **Moderation's outbox relay, B2B's consumer** | outbox rows born `published`, inbox | publish, apply a decision | idle in this tree: decisions travel over HTTP |
| **Operator commands** (`dlq_manage`, `seed_demo_catalog`) | - | list, requeue, clear, seed | run by hand |

How they interact: the seller changes a product in B2B; B2B writes an outbox row in the same
transaction; the relay publishes it to the stream; moderation's consumer turns it into a card; a
moderator takes the card and decides; moderation calls B2B over HTTP inside the transaction that
logs the decision; B2B applies it and writes the next outbox row. Orders call B2B's reserve,
unreserve and fulfill over HTTP. The cart and the catalog follow B2B's events.

What makes each part correct:

* queue: an open card is in review exactly when a moderator holds it; a decision is made by the
  holder, on a card no other decision is on its way for, once; a review that is not stale is not
  taken away; an event that was received is finished; a product has one open card, except where two
  create cards of it at once or one is enqueued by hand beside it.
* inventory: every unit is accounted for by the recorded operations, each counted once; quantities
  do not go below zero.
* lifecycle: what is on sale, or blocked, is so because the last decision says it; a decision is
  applied and announced once; a blocked product's seller is told why; nothing changes silently.
* delivery: an event that was committed reaches the stream, never before an event that was
  committed when it was made.
* orders: an order has stock reserved, a fulfill B2B did not take is repeated (unless two administrators
  work on the order at once), a canceled order has given its stock back, a delivered order stays delivered.
* pipeline (the three parts above together): a decision moderation has logged is one B2B has recorded; a
  product that awaits a review has a card with what the seller wrote last, and gets it.
* catalog: a walk misses nothing that is on offer all the time, and a shopper finds it if B2B's items show
  their SKUs; a facet's value leads to what it counts if the filter compares it as it is; what a walk hands
  over is what was on sale, and in stock, while it ran, nothing older.
* cart: overlapping merges make up no quantity and lose none; adds add up.

## 2. Plan

In order, the most important behaviour first.

| Step | Modules | State |
|---|---|---|
| 1 | `ModerationQueue` - the only part where several kinds of actors write the same rows under different locking rules | modelled, checked, proved |
| 2 | `Inventory` - the stock and its idempotency keys | modelled, checked, proved |
| 3 | `EventDelivery` and the abstract `EventChannel` it implements | modelled, checked, proved |
| 4 | `Orders`, with B2B's inventory as its environment | modelled, checked, proved |
| 5 | `ProductLifecycle` and the abstract `DecisionLog` it implements; `Cart` | modelled, checked, proved |
| 6 | `ModerationPipeline`: `ProductLifecycle` and `ModerationQueue` composed through the outbox rows and the decision call | modelled, checked, proved |
| 7 | `Catalog`: the walk over B2B's feed, the list, the facets and the read model | modelled, checked, proved |
| 8 | `Orders` over `Inventory` instead of the open ledger: `ledger` as a refinement of `ops` | to do |

Abstract specifications worth stating next: a *reservation* (requested, reserved, released or
fulfilled, each at most once) that `Orders` with `Inventory` implements, and a *review* (submitted,
taken, decided) that the pipeline implements. Every safety property that a
run checks is stated by a theorem; the theorem worth proving next is the refinement of step 8.

## 3. Modules and code

A handler is split where another process can step in: between a read that takes no lock and the
write that uses it, around a call to another service, at a commit. What runs under one row lock, or
as one statement, is one action. PostgreSQL runs READ COMMITTED everywhere; a statement that would
wait for a row lock is an action that is not enabled. A process that dies rolls its open
transaction back; what it had committed before stays.

### ModerationQueue (`moderation_api`)

`cards` is the table `ModerationCard`, numbered in the order of creation; `log` is
`ModerationEvent`; `req` and `worker` say where each HTTP request and each event handler is.
`Receive`, `ArchiveCards`, `RouteEvent`, `ReadOpenCards`, `SaveOpenCard`, `DeleteDuplicate` (one
duplicate, one commit), `FinishEvent`, `CreateCard` ... are `enqueue_from_event`, statement by statement,
since no transaction surrounds it; `CheckActiveReview` and `AcquireNextCard` are get-next, whose queries go
through the four queues one after another, so that a card may enter a queue that was already found empty:
any queue with a free card may be the one it takes from; `OpenTicket`, `LockTicket`, `Answered`,
`CommitDecision` are the three decisions, whose call to B2B runs inside the transaction that holds
the card's lock; `AbandonRequest` is every way a request fails. A card's timestamps are abstracted to
what the code compares: whether a review is within `MODERATION_IN_REVIEW_TIMEOUT`, and whether
`updated_at` is later than `review_started_at`. `crowded` is history: the products of which two created
cards at once - a handler found no open card while another had the product's cards listed, or a moderator
enqueued by hand a product with an open card, or one whose cards a handler had listed.

### Inventory (`b2b_api`: reserve, unreserve, fulfill, SKU and product edits, invoices)

`sku`, `product`, `ops` and `invoice` are the tables; `client` and `seller` the requests. `Lookup` is
the unlocked lookup of the idempotency key; `Reserve`, `Unreserve` and `Fulfill` lock, validate, write
and record the key in one transaction (`Apply`), which the unique constraint on the key rolls back when
another has recorded it. The seller's handlers are a read and a later write (`EditRead`, `EditWrite`,
...). An item list is abstracted, per SKU, to its sum and its largest row, the two numbers the code
tells apart when a SKU is listed twice.

### EventDelivery, EventChannel (`publish_outbox_events`, `consume_b2b_events`)

`outbox` gives each row's state (ids are drawn at the insert, before the commit); `ListRows`,
`AddToStream`, `MarkPublished` are a run of the relay; the consumer reads, records the entry in its
inbox, handles, acknowledges. `prior` is history: the rows committed when a row was inserted.
`EventChannel` promises: every sent event is in the log eventually, never before the events sent
before it was made. `EventDelivery` implements it, liveness included; it stops at the stream because
beyond it the promise does not hold (run `events_lost`). docker-compose starts one relay; the proofs
hold for any number.

### ProductLifecycle, DecisionLog (`b2b_api`: products, SKUs, decisions)

One product: its row, its SKUs, the rows it adds to `IntegrationOutbox`, the decisions recorded in
`IntegrationInbox`. `CreateProduct`, `EditRead`, `EditWrite`, ... are the seller's handlers; the save
locks the row until the transaction ends, so the save, the snapshot and the outbox inserts after it are
one step. A deletion of a SKU is three (`DropSkuRead`, `DropSkuSave`, `DropSkuCommit`): it saves the SKU
and looks for others that live, and only then saves the product, whose row it has not locked. `Decide`
is a call of moderation: it locks, looks the key up, applies, records and announces. `DecisionLog`
promises that a decision is taken once and that the product stands where the last one put it until the
seller reopens the question.

### ModerationPipeline (B2B's product, the outbox, moderation's queue and the way back)

The module instantiates `ProductLifecycle` (as `B2B`) and `ModerationQueue` (as `Queue`) for one product
and adds what passes between them: `carried` is what each outbox row's snapshot says of content and
SKUs, `reached` how many rows the consumer has received, `sent` which decision calls B2B has received. `Deliver`
is `parse_event` of the next row and the start of `enqueue_from_event`, whose statements are the
queue's own actions. `Send`, `CallStep` and `Answer` are `post_moderation_decision`: B2B may apply the
decision although the client has stopped waiting (`AbandonRequest` in between), and answers a repeated
call from its inbox. The rows arrive in their order, once, with any delay; that they do is
`EventDelivery`'s subject, and what it cannot promise (`events_lost`) is left out here. `byHand` is history:
the cards that were enqueued by hand after the last row had arrived.

### Orders (`orders_api`)

`order`, `entry` (the `ORDER_FULFILL_PENDING` rows) and `ledger` (what B2B has recorded for the
order's keys); `request` and `retry` the processes. B2B's answers are open: a call may be executed or
not, and answered or lost, independently. A call that B2B executes after its caller gave up is folded
into the caller's step. `contested` is history: the orders that two administrators have worked on at once.
Other outbox rows of orders have no reader in the tree and are left out.

### Cart (`cart_api`)

`item` is the table `CartItem` for one customer's two carts, `session` the session's cart, `writes`
what each open transaction has written or locked: statements of a transaction read their own writes
over what is committed, everybody else waits for those rows. Adding and changing are transactions;
all other requests, their merge included, commit statement by statement. Ids of deleted rows are used
again only when no request refers to them. `chosen` and `touched` are history. Products, prices and
`unavailable_reason` (written by events, read by no response) are left out; what the catalog says of
the stock is open.

### Catalog (`catalog_api`: `views.py`, `sync_b2b_catalog`, `b2b_projection.py`; the feed of `b2b_api/views.py`)

`shelf` is what B2B's feed is computed from; `walk` is the one walk under way, of a shopper's request or of
the synchronisation. `Count`, `Slice` and `Take` are the three statements of a page: how many, which
products, and the SKUs of those products (`prefetch_related`), with B2B moving between any two; `Retry`
begins again with no items, `GiveUp` is an answer of 502 or a `CommandError`. The slice has no ORDER BY
(section 6), so it returns any rows of the right number. `Commit` is `sync_product_snapshot`, one transaction:
a product on two pages is written twice and the later page stays, what was not written is deleted. `Listed`
and `FacetCount` are what a response computes from the pages. A characteristic is a pair of slug and value;
`Pieces` says what the filter makes of a value that is asked for, which it splits at commas. `shape` says
which serializer B2B's list uses: the short items, which is what every URL of B2B serves today and of which
the list keeps nothing, or the full ones, which `_catalog_view` builds and nothing calls; no step changes
it, and every property says which of its parts need the full ones. `kept`, `shown` and `stocked` are history:
what was on offer all the time, on sale at some time, in stock at some time of the attempt under way.

## 4. Runs

| Run | Question and answer | Bounds |
|---|---|---|
| `queue_two_moderators` | Do holders, locks, reviews and decisions stay consistent among two moderators, timeouts, failures and events? Yes. | 1 product, 2 cards (a second card exists only after the first is decided or was duplicated), 1 handler with creations, edits and stock events without snapshot; the moderators are interchangeable |
| `queue_two_handlers` | With the stream consumer, the HTTP intake and the manual endpoint at work at the same time, is a decision on a card taken at most once, and has a product one open card? Yes, and yes unless the product is `crowded`: there are two ways to a second open card, both reached in this run, and no third. | 2 handlers, 2 cards, 1 moderator, edits and deletions, manual enqueue |
| `pipeline` | Do B2B and moderation agree, across delays, lost answers, repeated decisions and edits? Yes: what is logged is recorded, what is shown to moderators asks for a review, what awaits a review is on a card with its latest content, and every submission gets there. | 1 product, 1 SKU, 4 outbox rows (creation, edit, decision and one more), 2 cards, 2 versions of the content, 1 moderator, 1 call, no manual enqueue (with it the liveness check does not end in time; `OpenCardsAskedFor` and `SubmissionsShown` are proved with it) |
| `catalog` | Do list, facets and synchronisation stay right while B2B moves between their statements? A walk misses nothing as long as the feed fits into one page, and what it hands over is current. The list finds what was found only with full items; with the short ones B2B serves it is empty. A facet's value leads to what it counts if the filter does not split or reserve it. | 2 products, one with 2 SKUs, pages of 1, a shopper who asks for 2 (or for one product by its id) and a synchronisation that makes 2 attempts, edits of one product, 8 queries that tell the filters apart, one of them for a value with a comma and one with the slug `availability` |
| `stock` | Is every unit accounted for while calls are repeated, raced and rolled back around stale edits? Yes. | 2 SKUs, 1 order, 2 calls at once, 1 seller, 1 invoice |
| `stock_edit_reserves` | `ReservesPreserved` (the claim of `test_reserves_preserved_after_sku_edit`): violated - an edit that read before a reserve saves over it. | 1 SKU |
| `events_channel` | Do outbox and relay implement the channel? Yes, with liveness. | 3 rows, batches of 2 (so that a batch does not take all rows), 2 failures |
| `events_lost` | `AtLeastOnce` (README.md:186): violated - an entry whose handling fails once stays pending, and only new entries are ever read. | 1 row, 1 failure |
| `lifecycle` | Does the last decision stand, once, announced and explained, among stale saves and repeated calls? Yes; `DecisionLog` is implemented. | 2 SKUs, 2 requests of the seller, 2 calls, 1 card (three possible decisions), 5 outbox rows |
| `orders` | Is what orders believes of the stock what B2B did? Yes; and a fulfill B2B did not take stays on the retry list, unless two administrators work on the order at once, which this run has them do. | 1 order, 2 customers, 2 administrators, 2 runs of the retry, 3 entries (orders meet in the retry list only; the proofs hold for any number) |
| `orders_delivered` | `DeliveredStays` (b2c/orders/openapi.yaml:119 and 134): violated - a cancel that read PAID saves over DELIVERED. | 1 order |
| `cart` | Do overlapping merges, adds, changes and removals make up or lose quantities? No, as long as only merges write beside a merge. | 2 SKUs, 2 requests at once, 4 requests in all: enough to fill both carts with different quantities and merge twice, or to fill the guest's with both SKUs |

The races here are between two processes over one row or one pair of rows, so two processes of each
kind, and one or two rows, show them; the proofs lift the bounds for what is proved.
`CHECK_DEADLOCK FALSE` stands where the system may stop: when the bounded number of rows, entries or
requests is used up, or when a customer has nothing more to ask.

Fairness. `EventDelivery`: weak fairness of each relay and consumer process - docker-compose restarts
the relay's loop every two seconds, and the consumer is an endless loop. `ModerationPipeline`: weak fairness
of the consumer's read; strong fairness of its handler, because PostgreSQL queues the waiters of a row
lock, so a handler whose row is free again and again gets it; weak fairness of a moderator's request that is
under way, whose call to B2B ends with `B2B_REQUEST_TIMEOUT` at the latest. Nothing is assumed of
moderators, sellers, customers, or of a service being up. `SubmissionQueued` and `EventHandled` need no more: a
decision that waits for B2B is given up in the end, and gives the row back.

## 5. Proofs

All theorems hold for every value of the constants under the modules' assumptions (non-empty sets,
natural bounds).

* `ModerationQueue_proofs`: `TypeCorrect`, `OpenCardsHeld`, `DecisionsExclude`, `ReviewsKept`
  (`FreshReviewKept`), `HoldersDecide` (`DecidedByHolder`), `DecisionsOnce` (`DecidedOnce`),
  `OneCardOpen` (`OneOpenCard`). The inductive invariant adds that a row is locked by one request at most,
  that a locked row is in review with its locker's moderator, and the shape of requests:
  `DecisionExclusive` is kept because a decision that waits for B2B holds the lock every other writer
  needs. `OneCardOpen` assumes nothing of the number of handlers or of the manual endpoint. What a handler has
  listed may be out of date when it saves or creates, but of a product that is not crowded only in the
  harmless direction: its list misses no open card, and all handlers that have listed the product have the
  same one card on their lists (`OpenSeen`).
* `Inventory_proofs`: `StockTyped`, `StockAccounted` (`Accounted`), and `StockNonNegative` when an order
  lists a SKU once (`DistinctRows`, as the orders service does). `NonNegative` is not inductive: an edit
  saves what it read before, so what a seller has read is non-negative too. `StockAccounted` assumes
  finitely many orders and invoices, since its sums over the recorded operations are folds over finite sets.
  What a sum is, is proved without an induction theorem: two sums that differ would differ on a smallest set
  (`LeastSet`), which gives that every finite sum exists (`SumsExist`), takes one element at a time
  (`SumTake`) and changes by what one element changes (`SumChanges`).
* `EventDelivery_proofs`: `DeliveryTyped`, `RowsPublished`, `NothingOvertakes`, `ImplementsSafety`.
  `CausalOrder` is kept because what preceded a listed row is in the stream or on the same list
  (`ListClosed`), which needs that a row a run has added is in the stream (`AddedInStream`).
* `Orders_proofs`: `OrdersTyped`, `OrdersBacked` (`LedgerBacks`), `CancelsRelease` (`CancelReleases`),
  `UnfulfilledRetried` (`FulfillPending`) and `FulfillsDelivering` (`FulfillDelivering`); the last two speak
  of every order that is not contested, for any number of administrators. `LedgerBacks` needs that whoever
  is about to save `fulfilled_at` has B2B's answer (`DoneRecorded`, `SavedRecorded`). An entry is marked
  only when its order is fulfilled or canceled (`MarkedDone`), and that stays so because an order that has
  an entry is not delivered again (`NoEntryBefore`, which two administrators who work on it at once would
  break: they have contested it, `Apart`).
* `ProductLifecycle_proofs`: `LifecycleTyped`, `LastDecisionStands`, `BlocksExplained`,
  `DecisionsAnnouncedOnce` (`DecisionsAnnounced`), `ChangesTold` (`NoSilentChange`),
  `ImplementsDecisionLog`. A row read long ago cannot restore an old verdict because every verdict but
  `HARD_BLOCKED` is saved as `ON_MODERATION`, and an edit never goes on with a row that was hard-blocked
  when it was read (`ReadAllowed`).
* `ModerationPipeline_proofs`: `PipelineTyped`, `PipelineRunsQueue`, `PipelineRunsB2B`, `LogsRecorded`
  (`LogRecorded`), `OpenCardsAskedFor` (`QueueFollows`), `SubmissionsShown` (`Requeued`). The two components'
  proofs are used through `INSTANCE`: every step of the pipeline is a step of the queue's and of the lifecycle's
  specification, or none of theirs (`PipelineRunsQueue`, `PipelineRunsB2B`), so their invariants hold here. What is
  added relates them. `LogRecorded`: a call that was answered with success has its key in B2B's inbox
  (`AnswerRecorded`). `Requeued` is a statement about the system at rest. Under way it is kept by two
  others. The product waits for a review because of the last row of the outbox, which shows what the
  seller wrote last (`RowOfReview`); that needs that a seller's request has read the product as it is, unless a
  decision has come in between (`SellerReads`). And the last row handled, if it asks for a review, has an open card
  with its content, unless the row of a decision is still to come (`ReviewGiven`); that row itself carries
  a verdict and asks for none (`RowsJudged`). A moderator's card whose answer was lost is open although B2B has
  decided it, and stays so no longer than until the decision's row is handled (`DecidedClosed`).
  A card that is enqueued by hand asks for a review nobody submitted, and the handler of the next row of
  the product takes it back; so `OpenCardsAskedFor` needs to except only the cards made after the last row
  (`byHand`), and assumes nothing of the manual endpoint.
* `Cart_proofs`: `CartTyped`, `QuantitiesChosen`, `AddsAddUp`, `MergesLoseNothing`. A commit keeps
  `QuantityChosen` because what a transaction has written has a chosen quantity and keeps its SKU
  (`WritesSound`), the save of a merge because the quantity about to be saved was chosen for the SKU of the
  row it will meet (`MergeSound`). Others' commits leave that so because no merge is about to save into a
  row that another transaction has created and not committed (`Unseen`). `AddsCount` holds because the
  counted row is locked and a row is locked once (`Locks`). `StepInv` states what a step may do to a row
  without disturbing the other requests; each action is one use of it. `MergesLoseNothing`
  (`MergesKeepItems`) needs more, since merges under way have listed the session's items at different times.
  The unique constraint on (cart, sku) holds of what is committed and of what each open transaction sees
  (`UniqueRows`), because nobody takes a place another transaction has taken or left (`Apart`), and the
  transaction that has deleted the session's cart is alone with it (`DroppedEmpty`). `Keeps` compares the
  rows at two times: a row only goes up, to a quantity some row has, moves to the user's cart, or goes once
  the user has as much elsewhere; it is transitive and never lowers the largest quantity of a SKU. As long
  as no other write has been committed beside the merges under way (`EInv`: `touched` is false), what a
  merging request sees keeps what is committed, unless it already holds the row its add counts on (`Epoch`,
  `MayLower`), and its merge goes on rightly on the rows it sees (`MergeRight`): what it listed is the most
  the guest has (`ListedRight`), the quantity it is about to save is the most there is (`RaisesMost`), and
  every row left in the session's cart is listed or kept elsewhere (`NoneLeft`). Since `Keeps` preserves all
  three, a merge survives the commits of the others.
* `Catalog_proofs`: `CatalogTyped`, `OffersAreFound` (`OffersFound`), `FacetsSound` (`FacetsLead`), `ItemsAreCurrent`
  (`ItemsCurrent`). A feed that fits into a page is taken whole by the first slice (`WholeFeed`: as many rows
  as the feed has are the feed), and what is on offer throughout the walk is on offer when the products are
  sliced (`FirstSlice`) and when their SKUs are fetched (`FirstPage`). That every item's product is among the
  walk's is proved for both shapes; that a query finds it, for full items, since it is false of short ones.
  Every row of a slice was on sale and every SKU of a page in stock when it was read (`SliceShown`,
  `PagesCurrent`), and the pages of a failed attempt are dropped. A plain value that a facet counts is one
  an item has (`NarrowedListed`), so a list narrowed to it maps one to one into the counted mentions.

Only model-checked: liveness (`EventHandled`, `SubmissionQueued`, the liveness part of
`ImplementsChannel`), which the provers cannot do.

## 6. Known gaps

What the code does differently from what one would like, seen while modelling and not covered by a run
that expects a violation:

* Moderation: two get-next requests of one moderator at once both take a card (`get_next.py:66`,
  against moderation/openapi.yaml:61). A card of type EDITED counts as edited during its review from
  the moment it is taken, because taking it writes `updated_at` (`approve.py:27`, against
  moderation/openapi.yaml:137). A handler that read the card before a hard block committed saves it back
  into the queue (`queue.py:196`, against moderation/openapi.yaml:166). Two that create cards of one product
  at once leave it with two
  open cards, and so does a manual enqueue of a product that has one (`crowded`).
* Pipeline: a decision made while the event of an edit is still in the outbox is applied to content the
  moderator was not shown, since `approve.py` compares only the card's `updated_at` and B2B compares no
  version (moderation/openapi.yaml:137). An EDITED event handled around the commit of a hard block makes a
  pending card for a product that is blocked for good, and a late decision may revive it. A SKU added to a
  product that is ON_MODERATION writes no event. With two requests of the seller, a row written from a stale
  snapshot can take the open card of a product that awaits a review.
* Stock: deleting a SKU or a product may race a reserve of it (b2b/openapi.yaml:261); an order may be
  unreserved and fulfilled, by different keys (`b2b_api/views.py:1083` and 1125); a list that names a
  SKU twice can take its quantity below zero.
* Delivery: a row delivered twice is handled twice; a pending entry is never read again.
* Lifecycle: HARD_BLOCKED is not final in B2B - a stale edit or a later approval replaces it
  (b2b/openapi.yaml:447); a stale edit saves `deleted=FALSE` over a deletion; a SKU can be added to a
  deleted product, and an edit resurrects a deleted SKU; the snapshot of a SKU edit may follow newer
  rows (`b2b_api/views.py:789`). Two deletions of the last two SKUs at once each see the other's SKU alive, so
  the product stays ON_MODERATION without SKUs (`b2b_api/views.py:883`).
* Orders: the payloads of reserve and unreserve lack the `order_id` that B2B's serializers require, so
  B2B answers 400 and checkout ends in 503 (the model leaves B2B's answer open); a checkout repeated
  after its promo code was refused becomes an order whose reserve was taken back; `CANCEL_PENDING` is
  never retried and `retry_pending_fulfill` is not scheduled by docker-compose; an administrator's
  CANCELED does not unreserve; two administrators at once can defeat `FulfillDelivering` and
  `FulfillPending`, which therefore do not speak of an order they have contested.
* Catalog: the items of B2B's public list (`ProductPublicShortSerializer`) have neither SKUs nor category,
  so the list is empty and the synchronisation deletes every product; the serializer that has them is used
  by `_catalog_view` (`b2b_api/views.py`), which nothing calls. docker-compose points `B2B_PRODUCTS_URL` at
  the seller's endpoint, which answers 401. The aggregate in `_catalog_visible_queryset`
  (`b2b_api/views.py:349`) drops the model's ordering, so a walk over several pages may miss or repeat a
  product. The list asks for 200 items a page and B2B returns 100, so every second hundred is passed over
  (`catalog_api/views.py:361`). A price range keeps a product none of whose SKUs is in it, and a facet
  counts mentions on SKUs, not products (b2c/catalog/openapi.yaml:664). A filter splits the values it is
  given at commas (`catalog_api/views.py:305`), so a facet's value such as "USB, HDMI" leads to a list
  without the products that have it; a characteristic with the slug `availability` is read as the filter for
  goods in stock and does not narrow the list by its value (`catalog_api/views.py:290`), and one with the
  slug `price` meets the price range. The SKUs of a page are a query of their own (`prefetch_related`,
  `b2b_api/views.py:353`), so an item with SKUs may pair a product with SKUs it was never on sale with. The
  handler of `consume_domain_events` is never called.
* Cart: a merge saves a quantity computed from an unlocked read, over an add or change committed in
  between; an item the guest adds after the listing is deleted with the session's cart; an add refused
  with INSUFFICIENT_STOCK leaves the row it has created (`cart_api/views.py:440`), since a response does not
  roll back; an add whose response could not be built is answered 503 although it is committed.

## 7. Not modelled

* Moderation's outbox relay and B2B's consumer: moderation's rows are born `published`, so there is
  nothing for them to do; what the consumer would do is `Decide` of `ProductLifecycle`.
* Catalog: details, similar products, category tree and breadcrumbs, which read the read model only; sorting and
  paging of the answer; the event handler, which nothing calls.
* Cart: banners, collections and the home page, favourites and subscriptions (single statements under a unique
  constraint); orders: prices, lists and details.
* `dlq_manage`, `seed_demo_catalog`, admin pages, settings: run by hand, or configuration.
* The services the repository names but does not contain: environment. Where the code calls one (promo),
  every answer is allowed.
