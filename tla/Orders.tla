--------------------------------- MODULE Orders ---------------------------------
(***************************************************************************)
(* The orders service (orders_api): checkout, cancel, the status changes   *)
(* an administrator makes, and the command that repeats a fulfill B2B did  *)
(* not take.                                                               *)
(*                                                                         *)
(* A handler reads the order without a lock, calls B2B, and saves the      *)
(* status in a transaction that ends with the handler; the row is locked   *)
(* from the save on.  A call can be lost on its way there or on its way    *)
(* back, and a process can die at any step.                                *)
(***************************************************************************)
EXTENDS Naturals, FiniteSets

CONSTANTS
    Keys,        \* idempotency keys of checkouts; an order is named by its key
    Buyers,      \* concurrent requests of customers
    Admins,      \* concurrent requests of administrators
    Retries,     \* concurrent runs of retry_pending_fulfill
    MaxEntries   \* bound: ORDER_FULFILL_PENDING rows ever written

ASSUME OrdersAssumption ==
    /\ Keys # {}
    /\ Buyers \intersect Admins = {}
    /\ MaxEntries \in Nat

VARIABLES
    order,    \* per key, the Order row
    entry,    \* ORDER_FULFILL_PENDING rows of the outbox, by id
    ledger,   \* per key, the inventory operations B2B has recorded
    request,  \* what each request is doing
    retry,    \* what each run of the command is doing
    contested \* orders two administrators have worked on at once (history)

ordersVars == <<order, entry, ledger, request, retry, contested>>

Statuses == {"CREATED", "PENDING", "PAID", "ASSEMBLING", "DELIVERING", "DELIVERED",
             "CANCELED", "CANCEL_PENDING"}
Operations == {"reserve", "promo-fail", "unreserve", "fulfill"}
EntryIds == 1..MaxEntries

(* "NONE": there is no such row.  fulfilled: fulfilled_at is set.          *)
OrderRow == [status : Statuses \union {"NONE"}, fulfilled : BOOLEAN]
Entry == [key : Keys, state : {"none", "waiting", "published"}]
RequestState == [pc : {"idle", "reserve", "reserved", "unreserve", "save", "fulfill", "commit"},
                 key : Keys, new : Statuses, done : BOOLEAN]
RetryState == [todo : SUBSET EntryIds, pc : {"next", "call", "save", "mark"}]

AnyKey == CHOOSE k \in Keys : TRUE
Idle == [pc |-> "idle", key |-> AnyKey, new |-> "PAID", done |-> FALSE]
IdleRetry == [todo |-> {}, pc |-> "next"]
Requests == Buyers \union Admins

TypeOK ==
    /\ order \in [Keys -> OrderRow]
    /\ entry \in [EntryIds -> Entry]
    /\ ledger \in [Keys -> SUBSET Operations]
    /\ request \in [Requests -> RequestState]
    /\ retry \in [Retries -> RetryState]
    /\ contested \subseteq Keys

Init ==
    /\ order = [k \in Keys |-> [status |-> "NONE", fulfilled |-> FALSE]]
    /\ entry = [e \in EntryIds |-> [key |-> AnyKey, state |-> "none"]]
    /\ ledger = [k \in Keys |-> {}]
    /\ request = [r \in Requests |-> Idle]
    /\ retry = [t \in Retries |-> IdleRetry]
    /\ contested = {}

-----------------------------------------------------------------------------
(* A call of B2B's inventory.  B2B answers an operation it has recorded    *)
(* with the recorded answer; it may refuse any other (stock, unknown SKUs, *)
(* a payload it does not accept).  "unavailable": a timeout or a broken    *)
(* connection, whatever B2B has done.                                      *)
Call(k, operation, answer) ==
    \/ /\ answer \in {"ok", "unavailable"}
       /\ ledger' = [ledger EXCEPT ![k] = @ \union {operation}]
    \/ /\ answer = "refused"
       /\ operation \notin ledger[k]
       /\ UNCHANGED ledger
    \/ answer = "unavailable" /\ UNCHANGED ledger

Answers == {"ok", "refused", "unavailable"}

(* The row is locked from the save of DELIVERED to the end of the          *)
(* transaction, which waits for B2B.                                       *)
Locked(k) == \E a \in Admins : request[a].key = k /\ request[a].pc \in {"fulfill", "commit"}

Become(r, next) == request' = [request EXCEPT ![r] = next]

-----------------------------------------------------------------------------
(* Checkout.                                                               *)

Checkout(b, k) ==
    /\ request[b].pc = "idle"
    /\ order[k].status = "NONE"
    /\ Become(b, [Idle EXCEPT !.pc = "reserve", !.key = k])
    /\ UNCHANGED <<order, entry, ledger, retry, contested>>

TakeReserve(b, answer) ==
    Become(b, IF answer = "ok" THEN [request[b] EXCEPT !.pc = "reserved"] ELSE Idle)

ReserveStock(b) ==
    /\ request[b].pc = "reserve"
    /\ \E answer \in Answers :
         /\ Call(request[b].key, "reserve", answer)
         /\ TakeReserve(b, answer)
    /\ UNCHANGED <<order, entry, retry, contested>>

(* The promo code does not apply, or the promo service does not answer.    *)
RejectPromo(b) ==
    /\ request[b].pc = "reserved"
    /\ \E answer \in Answers : Call(request[b].key, "promo-fail", answer)
    /\ Become(b, Idle)
    /\ UNCHANGED <<order, entry, retry, contested>>

PlaceOrder(b) ==
    /\ request[b].pc = "reserved"
    /\ order[request[b].key].status = "NONE"
    /\ order' = [order EXCEPT ![request[b].key].status = "PAID"]
    /\ Become(b, Idle)
    /\ UNCHANGED <<entry, ledger, retry, contested>>

(* The key was taken in the meantime: its unique column fails the          *)
(* transaction.                                                            *)
LoseRace(b) ==
    /\ request[b].pc = "reserved"
    /\ order[request[b].key].status # "NONE"
    /\ Become(b, Idle)
    /\ UNCHANGED <<order, entry, ledger, retry, contested>>

-----------------------------------------------------------------------------
(* Cancel.                                                                 *)

Cancelable == {"CREATED", "PAID"}

Cancel(b, k) ==
    /\ request[b].pc = "idle"
    /\ order[k].status \in Cancelable
    /\ Become(b, [Idle EXCEPT !.pc = "unreserve", !.key = k])
    /\ UNCHANGED <<order, entry, ledger, retry, contested>>

CanceledAnyway(answer) ==                                               \* mutant
    IF answer = "refused" THEN "CANCEL_PENDING" ELSE "CANCELED"
MisspelledAs(answer) ==                                                 \* mutant
    IF answer = "ok" THEN "CANCELLED" ELSE "CANCEL_PENDING"
CanceledAs(answer) == IF answer = "ok" THEN "CANCELED" ELSE "CANCEL_PENDING"

Unreserve(b) ==
    /\ request[b].pc = "unreserve"
    /\ \E answer \in Answers :
         /\ Call(request[b].key, "unreserve", answer)
         /\ Become(b, [request[b] EXCEPT !.pc = "save", !.new = CanceledAs(answer)])
    /\ UNCHANGED <<order, entry, retry, contested>>

-----------------------------------------------------------------------------
(* The status, as an administrator changes it.                             *)

EagerTransitions(status) ==                                             \* mutant
    CASE status \in {"CREATED", "PENDING"} -> {"PAID", "CANCELED"}
      [] status = "PAID" -> {"ASSEMBLING", "CANCELED"}
      [] status = "ASSEMBLING" -> {"DELIVERING", "DELIVERED"}
      [] status = "DELIVERING" -> {"DELIVERED"}
      [] status = "CANCEL_PENDING" -> {"CANCELED"}
      [] OTHER -> {}
AllowedTransitions(status) ==
    CASE status \in {"CREATED", "PENDING"} -> {"PAID", "CANCELED"}
      [] status = "PAID" -> {"ASSEMBLING", "CANCELED"}
      [] status = "ASSEMBLING" -> {"DELIVERING"}
      [] status = "DELIVERING" -> {"DELIVERED"}
      [] status = "CANCEL_PENDING" -> {"CANCELED"}
      [] OTHER -> {}

(* Nothing keeps two administrators apart: the request reads without a     *)
(* lock.                                                                   *)
Beside(a, k) == \E c \in Admins \ {a} : request[c].pc # "idle" /\ request[c].key = k

Patch(a, k, new) ==
    /\ request[a].pc = "idle"
    /\ new \in AllowedTransitions(order[k].status)
    /\ Become(a, [pc |-> "save", key |-> k, new |-> new, done |-> order[k].fulfilled])
    /\ contested' = IF Beside(a, k) THEN contested \union {k} ELSE contested
    /\ UNCHANGED <<order, entry, ledger, retry>>

(* The end of a cancel, or of a status change that calls nobody.           *)
SaveStatus(r) ==
    /\ request[r].pc = "save"
    /\ request[r].new # "DELIVERED"
    /\ ~Locked(request[r].key)
    /\ order' = [order EXCEPT ![request[r].key].status = request[r].new]
    /\ Become(r, Idle)
    /\ UNCHANGED <<entry, ledger, retry, contested>>

SaveDelivered(a) ==
    /\ request[a].pc = "save"
    /\ request[a].new = "DELIVERED"
    /\ ~Locked(request[a].key)
    /\ Become(a, [request[a] EXCEPT !.pc = IF request[a].done THEN "commit" ELSE "fulfill"])
    /\ UNCHANGED <<order, entry, ledger, retry, contested>>

FulfillDelivered(a) ==
    /\ request[a].pc = "fulfill"
    /\ \E answer \in Answers :
         /\ Call(request[a].key, "fulfill", answer)
         /\ Become(a, [request[a] EXCEPT !.pc = "commit", !.done = (answer = "ok")])
    /\ UNCHANGED <<order, entry, retry, contested>>

WaitingEntries(k) == {e \in EntryIds : entry[e] = [key |-> k, state |-> "waiting"]}

(* trigger_fulfill_on_delivered asks for a retry unless one is waiting.    *)
EnqueueFulfillRetry(k) ==
    IF WaitingEntries(k) # {}
    THEN UNCHANGED entry
    ELSE \E e \in EntryIds :
           /\ entry[e].state = "none"
           /\ \A d \in EntryIds : d < e => entry[d].state # "none"
           /\ entry' = [entry EXCEPT ![e] = [key |-> k, state |-> "waiting"]]

AskForRetry(a) ==
    IF request[a].done THEN UNCHANGED entry ELSE EnqueueFulfillRetry(request[a].key)

CommitDelivered(a) ==
    /\ request[a].pc = "commit"
    /\ order' = [order EXCEPT ![request[a].key] =
                   [status |-> "DELIVERED", fulfilled |-> @.fulfilled \/ request[a].done]]
    /\ AskForRetry(a)
    /\ Become(a, Idle)
    /\ UNCHANGED <<ledger, retry, contested>>

(* The process dies, or its transaction fails: nothing of it is kept.      *)
Abort(r) ==
    /\ request[r].pc # "idle"
    /\ Become(r, Idle)
    /\ UNCHANGED <<order, entry, ledger, retry, contested>>

-----------------------------------------------------------------------------
(* retry_pending_fulfill: the waiting entries, one after the other, each   *)
(* statement committed on its own.                                         *)

IsFirst(e, S) == e \in S /\ \A d \in S : e <= d
Proceed(t, next) == retry' = [retry EXCEPT ![t] = next]

ListPending(t) ==
    /\ retry[t].todo = {}
    /\ LET waiting == {e \in EntryIds : entry[e].state = "waiting"}
       IN  waiting # {} /\ Proceed(t, [todo |-> waiting, pc |-> "next"])
    /\ UNCHANGED <<order, entry, ledger, request, contested>>

ReadOrder(t, e) ==
    /\ retry[t].pc = "next"
    /\ IsFirst(e, retry[t].todo)
    /\ LET row == order[entry[e].key]
       IN  Proceed(t, [retry[t] EXCEPT
                         !.pc = IF row.status = "DELIVERED" /\ ~row.fulfilled
                                THEN "call" ELSE "mark"])
    /\ UNCHANGED <<order, entry, ledger, request, contested>>

SaveAnyAnswer(t, e, answer) == Proceed(t, [retry[t] EXCEPT !.pc = "save"])    \* mutant
MarkAnyAnswer(t, e, answer) ==                                          \* mutant
    Proceed(t, [retry[t] EXCEPT !.pc = IF answer = "ok" THEN "save" ELSE "mark"])
TakeFulfill(t, e, answer) ==
    Proceed(t, IF answer = "ok"
               THEN [retry[t] EXCEPT !.pc = "save"]
               ELSE [todo |-> retry[t].todo \ {e}, pc |-> "next"])

RetryFulfill(t, e) ==
    /\ retry[t].pc = "call"
    /\ IsFirst(e, retry[t].todo)
    /\ \E answer \in Answers :
         /\ Call(entry[e].key, "fulfill", answer)
         /\ TakeFulfill(t, e, answer)
    /\ UNCHANGED <<order, entry, request, contested>>

SaveFulfilled(t, e) ==
    /\ retry[t].pc = "save"
    /\ IsFirst(e, retry[t].todo)
    /\ ~Locked(entry[e].key)
    /\ order' = [order EXCEPT ![entry[e].key] = [status |-> @.status, fulfilled |-> TRUE]]
    /\ Proceed(t, [retry[t] EXCEPT !.pc = "mark"])
    /\ UNCHANGED <<entry, ledger, request, contested>>

MarkEntry(t, e) ==
    /\ retry[t].pc = "mark"
    /\ IsFirst(e, retry[t].todo)
    /\ entry' = [entry EXCEPT ![e].state = "published"]
    /\ Proceed(t, [todo |-> retry[t].todo \ {e}, pc |-> "next"])
    /\ UNCHANGED <<order, ledger, request, contested>>

RetryDies(t) ==
    /\ retry[t].todo # {}
    /\ Proceed(t, IdleRetry)
    /\ UNCHANGED <<order, entry, ledger, request, contested>>

-----------------------------------------------------------------------------
CustomerStep(b) ==
    \/ \E k \in Keys : Checkout(b, k) \/ Cancel(b, k)
    \/ ReserveStock(b) \/ RejectPromo(b) \/ PlaceOrder(b) \/ LoseRace(b)
    \/ Unreserve(b) \/ SaveStatus(b)
AdminStep(a) ==
    \/ \E k \in Keys, new \in Statuses : Patch(a, k, new)
    \/ SaveStatus(a) \/ SaveDelivered(a) \/ FulfillDelivered(a) \/ CommitDelivered(a)
RetryStep(t) ==
    \/ ListPending(t)
    \/ \E e \in EntryIds :
         ReadOrder(t, e) \/ RetryFulfill(t, e) \/ SaveFulfilled(t, e) \/ MarkEntry(t, e)

Next ==
    \/ \E b \in Buyers : CustomerStep(b)
    \/ \E a \in Admins : AdminStep(a)
    \/ \E r \in Requests : Abort(r)
    \/ \E t \in Retries : RetryStep(t) \/ RetryDies(t)

Spec == Init /\ [][Next]_ordersVars

-----------------------------------------------------------------------------
(* Properties.                                                             *)

OrderReserved == \A k \in Keys : order[k].status # "NONE" => "reserve" \in ledger[k]
FulfilledRecorded == \A k \in Keys : order[k].fulfilled => "fulfill" \in ledger[k]

(* Whatever is lost, refused, repeated or raced, an order exists only when *)
(* B2B has recorded its reserve, and has fulfilled_at only when B2B has    *)
(* recorded its fulfill.                                                   *)
LedgerBacks == OrderReserved /\ FulfilledRecorded

(* B2B is told to give goods out only for an order that was on its way to  *)
(* the customer, although a delivery may be rolled back after B2B was told *)
(* and a cancel may be saved over it.  Of an order that two administrators *)
(* have worked on at once this is not claimed: one of them may save an     *)
(* earlier status over the other's delivery.                               *)
FulfillDelivering ==
    \A k \in Keys \ contested : "fulfill" \in ledger[k] =>
        order[k].status \in {"DELIVERING", "DELIVERED", "CANCELED", "CANCEL_PENDING"}

(* A delivered order that B2B has not fulfilled is on the list of          *)
(* retry_pending_fulfill, however its runs overlap and die, and whatever   *)
(* cancel is saved over the order.  Nor is this claimed of an order that   *)
(* two administrators have worked on at once: it may be delivered again    *)
(* after its entry was marked.                                             *)
FulfillPending ==
    \A k \in Keys \ contested : order[k].status = "DELIVERED" /\ ~order[k].fulfilled
                                => WaitingEntries(k) # {}

(* A customer's cancel ends in CANCELED only when B2B took the unreserve.  *)
CancelReleases ==
    [][\A k \in Keys, b \in Buyers :
         /\ request[b].pc = "save" /\ request[b].key = k
         /\ order'[k].status = "CANCELED" /\ request'[b] # request[b]
         /\ order[k].status # "CANCELED"
         => "unreserve" \in ledger[k]]_ordersVars

(* A delivered order stays delivered: ALLOWED_TRANSITIONS has nothing      *)
(* after DELIVERED, and b2c/orders/openapi.yaml answers a cancel that      *)
(* comes too late with 409.                                                *)
DeliveredStays ==
    [][\A k \in Keys : order[k].status = "DELIVERED" => order'[k].status = "DELIVERED"]_ordersVars
=============================================================================
