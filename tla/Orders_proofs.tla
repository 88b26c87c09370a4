------------------------------ MODULE Orders_proofs ------------------------------
(* What holds of the orders for any number of orders, requests and runs of *)
(* retry_pending_fulfill.                                                  *)
EXTENDS Orders, TLAPS

USE OrdersAssumption

Used(e) == entry[e].state # "none"
Canceled(k) == order[k].status \in {"CANCELED", "CANCEL_PENDING"}

(* A customer's request checks out or cancels ...                          *)
CustomerShape ==
    \A b \in Buyers :
        /\ request[b].pc \notin {"fulfill", "commit"}
        /\ request[b].pc = "save" => request[b].new \in {"CANCELED", "CANCEL_PENDING"}
        /\ request[b].pc = "save" /\ request[b].new = "CANCELED"
             => "unreserve" \in ledger[request[b].key]
        /\ request[b].pc = "reserved" => "reserve" \in ledger[request[b].key]

(* ... an administrator's changes a status.                                *)
AdminShape ==
    \A a \in Admins :
        /\ request[a].pc \notin {"reserve", "reserved", "unreserve"}
        /\ request[a].pc \in {"fulfill", "commit"} => request[a].new = "DELIVERED"

(* What is saved is saved over an order that exists.                       *)
OrderFound ==
    \A r \in Requests :
        request[r].pc \in {"unreserve", "save", "fulfill", "commit"}
            => order[request[r].key].status # "NONE"

(* A run of the command goes through entries that were written.            *)
TodoUsed == \A t \in Retries : \A e \in retry[t].todo : Used(e)

(* Two administrators who work on one order have contested it.             *)
Apart ==
    \A a, c \in Admins :
        /\ a # c /\ request[a].pc # "idle" /\ request[c].pc # "idle"
        /\ request[a].key = request[c].key
        => request[a].key \in contested

(* The rest holds of an order that is not contested.  It has an entry only *)
(* once its delivery is over ...                                           *)
EntriesOver ==
    \A e \in EntryIds :
        Used(e) /\ entry[e].key \notin contested
            => order[entry[e].key].status = "DELIVERED" \/ Canceled(entry[e].key)

(* ... and whoever takes it further on the way to delivery finds none.     *)
NoEntryBefore ==
    \A a \in Admins, e \in EntryIds :
        /\ request[a].pc # "idle" /\ request[a].new # "CANCELED"
        /\ request[a].key \notin contested /\ Used(e)
        => entry[e].key # request[a].key

(* The entry a run is about to mark needs no fulfill any more.             *)
MarkedDone ==
    \A t \in Retries, e \in EntryIds :
        /\ retry[t].pc = "mark" /\ IsFirst(e, retry[t].todo)
        /\ entry[e].key \notin contested
        => order[entry[e].key].fulfilled \/ Canceled(entry[e].key)

(* FulfillPending is kept by MarkEntry because of MarkedDone, which is     *)
(* kept because an order that has an entry is not delivered again.         *)
IInv ==
    /\ TypeOK
    /\ CustomerShape
    /\ AdminShape
    /\ OrderFound
    /\ Apart
    /\ EntriesOver
    /\ NoEntryBefore
    /\ TodoUsed
    /\ MarkedDone
    /\ OrderReserved
    /\ FulfillPending

-----------------------------------------------------------------------------
LEMMA KeyTyped == AnyKey \in Keys
  BY DEF AnyKey

LEMMA IdleTyped == Idle \in RequestState /\ Idle.pc = "idle" /\ IdleRetry \in RetryState
  BY KeyTyped DEF Idle, RequestState, Statuses, IdleRetry, RetryState

LEMMA InitInv == Init => IInv
<1> SUFFICES ASSUME Init PROVE IInv
  OBVIOUS
<1>1. TypeOK
  BY KeyTyped, IdleTyped DEF Init, TypeOK, OrderRow, Entry, Operations
<1>2. CustomerShape /\ AdminShape /\ OrderFound /\ NoEntryBefore /\ Apart
  BY IdleTyped DEF Init, Requests, CustomerShape, AdminShape, OrderFound, NoEntryBefore, Apart
<1>3. EntriesOver /\ TodoUsed /\ MarkedDone
  BY DEF Init, EntriesOver, Used, TodoUsed, MarkedDone, IdleRetry
<1>4. OrderReserved /\ FulfillPending
  BY DEF Init, OrderReserved, FulfillPending
<1> QED
  BY <1>1, <1>2, <1>3, <1>4 DEF IInv

(* Two fields of a record replaced.                                        *)
LEMMA PcAndNew ==
    ASSUME NEW g \in RequestState, NEW pc, NEW new, NEW h,
           h = [g EXCEPT !.pc = pc, !.new = new]
    PROVE  h = [pc |-> pc, key |-> g.key, new |-> new, done |-> g.done]
  BY DEF RequestState

LEMMA PcAndDone ==
    ASSUME NEW g \in RequestState, NEW pc, NEW done, NEW h,
           h = [g EXCEPT !.pc = pc, !.done = done]
    PROVE  h = [pc |-> pc, key |-> g.key, new |-> g.new, done |-> done]
  BY DEF RequestState

LEMMA PcAndKey ==
    ASSUME NEW g \in RequestState, NEW pc, NEW key, NEW h,
           h = [g EXCEPT !.pc = pc, !.key = key]
    PROVE  h = [pc |-> pc, key |-> key, new |-> g.new, done |-> g.done]
  BY DEF RequestState

-----------------------------------------------------------------------------
(* A call only ever adds to the ledger.                                    *)
LEMMA LedgerGrows ==
    ASSUME TypeOK, NEW k \in Keys, NEW operation \in Operations, NEW answer \in Answers,
           Call(k, operation, answer)
    PROVE  /\ ledger' \in [Keys -> SUBSET Operations]
           /\ \A j \in Keys : ledger[j] \subseteq ledger'[j]
           /\ answer = "ok" => operation \in ledger'[k]
  BY DEF TypeOK, Call, Answers

LEMMA OperationsNamed ==
    {"reserve", "promo-fail", "unreserve", "fulfill"} \subseteq Operations
  BY DEF Operations

(* A step of a request that saves nothing.                                 *)
LEMMA RequestOnly ==
    ASSUME IInv, UNCHANGED <<order, entry, retry>>,
           NEW r \in Requests, NEW next \in RequestState,
           request' = [request EXCEPT ![r] = next],
           contested \subseteq contested', contested' \subseteq Keys,
           ledger' \in [Keys -> SUBSET Operations],
           \A k \in Keys : ledger[k] \subseteq ledger'[k],
           r \in Buyers => /\ next.pc \notin {"fulfill", "commit"}
                           /\ next.pc = "save" => next.new \in {"CANCELED", "CANCEL_PENDING"}
                           /\ next.pc = "save" /\ next.new = "CANCELED"
                                => "unreserve" \in ledger'[next.key]
                           /\ next.pc = "reserved" => "reserve" \in ledger'[next.key],
           r \in Admins => /\ next.pc \notin {"reserve", "reserved", "unreserve"}
                           /\ next.pc \in {"fulfill", "commit"} => next.new = "DELIVERED"
                           /\ /\ next.pc # "idle" /\ next.new # "CANCELED"
                              /\ next.key \notin contested'
                              => \A e \in EntryIds : Used(e) => entry[e].key # next.key
                           /\ next.pc # "idle" =>
                                \A c \in Admins \ {r} :
                                    request[c].pc # "idle" /\ request[c].key = next.key
                                        => next.key \in contested',
           next.pc \in {"unreserve", "save", "fulfill", "commit"}
                => order[next.key].status # "NONE"
    PROVE  IInv'
<1> USE DEF IInv
<1>1. TypeOK'
  BY DEF TypeOK
<1>2. \A q \in Requests : request[q].key \in Keys /\ request'[q] = IF q = r THEN next ELSE request[q]
  BY DEF TypeOK, RequestState
<1>3. CustomerShape'
  BY <1>2 DEF CustomerShape, Requests
<1>4. AdminShape'
  BY <1>2 DEF AdminShape, Requests
<1>5. OrderFound'
  BY <1>2 DEF OrderFound
<1>6. NoEntryBefore' /\ Apart'
  BY <1>2 DEF NoEntryBefore, Apart, Used, Requests
<1>7. EntriesOver' /\ TodoUsed'
  BY DEF EntriesOver, TodoUsed, Used, Canceled
<1>8. MarkedDone'
  BY DEF MarkedDone, IsFirst, Canceled
<1>9. OrderReserved'
  BY DEF OrderReserved
<1>10. FulfillPending'
  BY DEF FulfillPending, WaitingEntries
<1> QED
  BY <1>1, <1>3, <1>4, <1>5, <1>6, <1>7, <1>8, <1>9, <1>10

(* A request that has ended, without saving anything.                      *)
LEMMA RequestEnds ==
    ASSUME IInv, UNCHANGED <<order, entry, retry, contested>>,
           NEW r \in Requests, Become(r, Idle),
           ledger' \in [Keys -> SUBSET Operations],
           \A k \in Keys : ledger[k] \subseteq ledger'[k]
    PROVE  IInv'
  BY IdleTyped, RequestOnly DEF Become, IInv, TypeOK

-----------------------------------------------------------------------------
(* Checkout.                                                               *)

LEMMA CheckoutInv ==
    ASSUME IInv, NEW b \in Buyers, NEW k \in Keys, Checkout(b, k) \/ Cancel(b, k)
    PROVE  IInv'
<1>1. PICK pc \in {"reserve", "unreserve"} :
        /\ request' = [request EXCEPT ![b] = [Idle EXCEPT !.pc = pc, !.key = k]]
        /\ pc = "unreserve" => order[k].status # "NONE"
  BY DEF Checkout, Cancel, Become, Cancelable
<1>2. UNCHANGED <<order, entry, ledger, retry, contested>>
  BY DEF Checkout, Cancel
<1> DEFINE next == [Idle EXCEPT !.pc = pc, !.key = k]
<1>3. next = [pc |-> pc, key |-> k, new |-> "PAID", done |-> FALSE]
  <2>1. next = [pc |-> pc, key |-> k, new |-> Idle.new, done |-> Idle.done]
    BY IdleTyped, PcAndKey
  <2> QED
    BY <2>1 DEF Idle
<1>4. next \in RequestState
  BY <1>3 DEF RequestState, Statuses
<1> HIDE DEF next
<1>5. b \in Requests /\ b \notin Admins
  BY DEF Requests
<1> QED
  BY <1>1, <1>2, <1>3, <1>4, <1>5, RequestOnly DEF next, IInv, TypeOK

LEMMA ReserveInv ==
    ASSUME IInv, NEW b \in Buyers, ReserveStock(b)
    PROVE  IInv'
<1>1. b \in Requests /\ b \notin Admins /\ request[b] \in RequestState /\ request[b].key \in Keys
  BY DEF Requests, IInv, TypeOK, RequestState
<1>2. PICK answer \in Answers :
        Call(request[b].key, "reserve", answer) /\ TakeReserve(b, answer)
  BY DEF ReserveStock
<1>3. UNCHANGED <<order, entry, retry, contested>>
  BY DEF ReserveStock
<1>4. /\ ledger' \in [Keys -> SUBSET Operations]
      /\ \A j \in Keys : ledger[j] \subseteq ledger'[j]
      /\ answer = "ok" => "reserve" \in ledger'[request[b].key]
  BY <1>1, <1>2, LedgerGrows, OperationsNamed DEF IInv
<1>5. CASE answer = "ok"
  <2> DEFINE next == [request[b] EXCEPT !.pc = "reserved"]
  <2>1. request' = [request EXCEPT ![b] = next]
    BY <1>2, <1>5 DEF TakeReserve, Become
  <2>2. next = [pc |-> "reserved", key |-> request[b].key, new |-> request[b].new,
                done |-> request[b].done]
    BY <1>1 DEF RequestState
  <2>3. next \in RequestState
    BY <1>1, <2>2 DEF RequestState
  <2> HIDE DEF next
  <2> QED
    BY <1>1, <1>3, <1>4, <1>5, <2>1, <2>2, <2>3, RequestOnly DEF IInv, TypeOK
<1>6. CASE answer # "ok"
  BY <1>1, <1>2, <1>3, <1>4, <1>6, RequestEnds DEF TakeReserve
<1> QED
  BY <1>5, <1>6

LEMMA GiveUpInv ==
    ASSUME IInv, NEW r \in Requests,
           \/ r \in Buyers /\ (RejectPromo(r) \/ LoseRace(r))
           \/ Abort(r)
    PROVE  IInv'
<1>1. CASE RejectPromo(r)
  <2>1. request[r].key \in Keys /\ TypeOK
    BY DEF IInv, TypeOK, RequestState
  <2>2. PICK answer \in Answers : Call(request[r].key, "promo-fail", answer)
    BY <1>1 DEF RejectPromo
  <2> QED
    BY <1>1, <2>1, <2>2, LedgerGrows, OperationsNamed, RequestEnds DEF RejectPromo
<1>2. CASE LoseRace(r) \/ Abort(r)
  BY <1>2, RequestEnds DEF LoseRace, Abort, IInv, TypeOK
<1> QED
  BY <1>1, <1>2

LEMMA UnreserveInv ==
    ASSUME IInv, NEW b \in Buyers, Unreserve(b)
    PROVE  IInv'
<1>1. b \in Requests /\ b \notin Admins /\ request[b] \in RequestState /\ request[b].key \in Keys
  BY DEF Requests, IInv, TypeOK, RequestState
<1>2. PICK answer \in Answers :
        /\ Call(request[b].key, "unreserve", answer)
        /\ request' = [request EXCEPT ![b] =
                         [request[b] EXCEPT !.pc = "save", !.new = CanceledAs(answer)]]
  BY DEF Unreserve, Become
<1>3. UNCHANGED <<order, entry, retry, contested>> /\ request[b].pc = "unreserve"
  BY DEF Unreserve
<1>4. /\ ledger' \in [Keys -> SUBSET Operations]
      /\ \A j \in Keys : ledger[j] \subseteq ledger'[j]
      /\ answer = "ok" => "unreserve" \in ledger'[request[b].key]
  BY <1>1, <1>2, LedgerGrows, OperationsNamed DEF IInv
<1>5. order[request[b].key].status # "NONE"
  BY <1>1, <1>3 DEF IInv, OrderFound
<1> DEFINE next == [request[b] EXCEPT !.pc = "save", !.new = CanceledAs(answer)]
<1>6. next = [pc |-> "save", key |-> request[b].key, new |-> CanceledAs(answer),
              done |-> request[b].done]
  BY <1>1, PcAndNew
<1>7. /\ CanceledAs(answer) \in {"CANCELED", "CANCEL_PENDING"}
      /\ CanceledAs(answer) = "CANCELED" => answer = "ok"
  BY DEF CanceledAs
<1>8. next \in RequestState
  BY <1>1, <1>6, <1>7 DEF RequestState, Statuses
<1> HIDE DEF next
<1> QED
  BY <1>1, <1>2, <1>3, <1>4, <1>5, <1>6, <1>7, <1>8, RequestOnly DEF next, IInv, TypeOK

(* A step that ends a request and changes the order of key k.  An order    *)
(* that is still on its way, or becomes so, has no entry.                  *)
LEMMA OrderSaved ==
    ASSUME IInv, UNCHANGED <<entry, ledger, retry, contested>>,
           NEW r \in Requests, Become(r, Idle),
           NEW k \in Keys, NEW row \in OrderRow, order' = [order EXCEPT ![k] = row],
           row.status # "NONE",
           order[k].fulfilled => row.fulfilled,
           "reserve" \in ledger[k],
           row.status # "DELIVERED",
           k \notin contested =>
             \/ row.status \in {"CANCELED", "CANCEL_PENDING"}
             \/ \A e \in EntryIds : Used(e) => entry[e].key # k
    PROVE  IInv'
<1> USE DEF IInv
<1>1. TypeOK'
  BY IdleTyped DEF TypeOK, Become
<1>2. \A q \in Requests : request'[q] = IF q = r THEN Idle ELSE request[q]
  BY DEF TypeOK, Become
<1>3. \A j \in Keys : order'[j] = IF j = k THEN row ELSE order[j]
  BY DEF TypeOK
<1>4. CustomerShape' /\ AdminShape'
  BY <1>2, IdleTyped DEF CustomerShape, AdminShape, Requests
<1>5. OrderFound'
  BY <1>2, <1>3, IdleTyped DEF OrderFound, TypeOK, RequestState
<1>6. \A e \in EntryIds : entry[e].key \in Keys
  BY DEF TypeOK, Entry
<1>7. EntriesOver'
  BY <1>3, <1>6 DEF EntriesOver, Used, Canceled
<1>8. NoEntryBefore' /\ Apart'
  BY <1>2, IdleTyped DEF NoEntryBefore, Apart, Used, Requests
<1>9. TodoUsed'
  BY DEF TodoUsed, Used
<1>10. MarkedDone'
  <2> SUFFICES ASSUME NEW t \in Retries, NEW e \in EntryIds,
                      retry[t].pc = "mark", IsFirst(e, retry[t].todo),
                      entry[e].key \notin contested
               PROVE  order'[entry[e].key].fulfilled \/ Canceled(entry[e].key)'
    BY DEF MarkedDone, IsFirst
  <2>1. Used(e)
    BY DEF TodoUsed, IsFirst
  <2>2. order[entry[e].key].fulfilled \/ Canceled(entry[e].key)
    BY DEF MarkedDone
  <2> QED
    BY <1>3, <1>6, <2>1, <2>2 DEF Canceled
<1>11. OrderReserved'
  BY <1>3 DEF OrderReserved
<1>12. FulfillPending'
  BY <1>3 DEF FulfillPending, WaitingEntries
<1> QED
  BY <1>1, <1>4, <1>5, <1>7, <1>8, <1>9, <1>10, <1>11, <1>12

LEMMA PlaceOrderInv ==
    ASSUME IInv, NEW b \in Buyers, PlaceOrder(b)
    PROVE  IInv'
<1> DEFINE k == request[b].key
           row == [status |-> "PAID", fulfilled |-> order[k].fulfilled]
<1>1. b \in Requests /\ k \in Keys
  BY DEF Requests, IInv, TypeOK, RequestState
<1>2. /\ order' = [order EXCEPT ![k].status = "PAID"]
      /\ order[k].status = "NONE"
      /\ request[b].pc = "reserved"
      /\ Become(b, Idle)
      /\ UNCHANGED <<entry, ledger, retry, contested>>
  BY DEF PlaceOrder
<1>3. order[k] \in OrderRow
  BY <1>1 DEF IInv, TypeOK
<1>4. [order[k] EXCEPT !.status = "PAID"] = row /\ row \in OrderRow
  BY <1>3 DEF OrderRow, Statuses
<1>5. order' = [order EXCEPT ![k] = row]
  BY <1>2, <1>4
<1>6. k \notin contested => \A e \in EntryIds : Used(e) => entry[e].key # k
  BY <1>2 DEF IInv, EntriesOver, Canceled
<1>7. "reserve" \in ledger[k]
  BY <1>2 DEF IInv, CustomerShape
<1> QED
  BY <1>1, <1>2, <1>4, <1>5, <1>6, <1>7, OrderSaved

LEMMA SaveStatusInv ==
    ASSUME IInv, NEW r \in Requests, SaveStatus(r)
    PROVE  IInv'
<1> DEFINE k == request[r].key
           new == request[r].new
           row == [status |-> new, fulfilled |-> order[k].fulfilled]
<1>1. k \in Keys /\ new \in Statuses
  BY DEF IInv, TypeOK, RequestState
<1>2. /\ order' = [order EXCEPT ![k].status = new]
      /\ request[r].pc = "save"
      /\ new # "DELIVERED"
      /\ Become(r, Idle)
      /\ UNCHANGED <<entry, ledger, retry, contested>>
  BY DEF SaveStatus
<1>3. order[k] \in OrderRow
  BY <1>1 DEF IInv, TypeOK
<1>4. [order[k] EXCEPT !.status = new] = row /\ row \in OrderRow /\ row.status # "NONE"
  BY <1>1, <1>3 DEF OrderRow, Statuses
<1>5. order' = [order EXCEPT ![k] = row]
  BY <1>2, <1>4
<1>6. k \notin contested =>
        \/ new \in {"CANCELED", "CANCEL_PENDING"}
        \/ \A e \in EntryIds : Used(e) => entry[e].key # k
  BY <1>2 DEF IInv, CustomerShape, NoEntryBefore, Requests
<1>7. "reserve" \in ledger[k]
  BY <1>1, <1>2 DEF IInv, OrderFound, OrderReserved
<1> QED
  BY <1>1, <1>2, <1>4, <1>5, <1>6, <1>7, OrderSaved

-----------------------------------------------------------------------------
(* The administrator.                                                      *)

LEMMA TransitionsForward ==
    ASSUME NEW status, NEW new \in AllowedTransitions(status)
    PROVE  /\ status # "NONE"
           /\ new # "CANCELED" => status \notin {"DELIVERED", "CANCELED", "CANCEL_PENDING"}
  BY DEF AllowedTransitions

LEMMA PatchInv ==
    ASSUME IInv, NEW a \in Admins, NEW k \in Keys, NEW new \in Statuses, Patch(a, k, new)
    PROVE  IInv'
<1> DEFINE next == [pc |-> "save", key |-> k, new |-> new, done |-> order[k].fulfilled]
<1>1. request' = [request EXCEPT ![a] = next]
  BY DEF Patch, Become
<1>2. UNCHANGED <<order, entry, ledger, retry>> /\ new \in AllowedTransitions(order[k].status)
  BY DEF Patch
<1>3. order[k] \in OrderRow /\ ledger \in [Keys -> SUBSET Operations]
  BY DEF IInv, TypeOK
<1>4. next \in RequestState
  BY <1>3 DEF RequestState, OrderRow
<1>5. a \in Requests /\ a \notin Buyers
  BY DEF Requests
<1>6. order[k].status # "NONE"
  BY <1>2, TransitionsForward
<1>8. /\ contested \subseteq contested' /\ contested' \subseteq Keys
      /\ \A c \in Admins \ {a} : request[c].pc # "idle" /\ request[c].key = k
                                 => k \in contested'
  BY DEF Patch, Beside, IInv, TypeOK
<1>7. k \notin contested' /\ new # "CANCELED" => \A e \in EntryIds : Used(e) => entry[e].key # k
  BY <1>2, <1>8, TransitionsForward DEF IInv, EntriesOver, Canceled
<1> QED
  BY <1>1, <1>2, <1>3, <1>4, <1>5, <1>6, <1>7, <1>8, RequestOnly

LEMMA DeliverInv ==
    ASSUME IInv, NEW a \in Admins, SaveDelivered(a) \/ FulfillDelivered(a)
    PROVE  IInv'
<1>1. PICK pc \in {"fulfill", "commit"}, done \in BOOLEAN :
        request' = [request EXCEPT ![a] = [request[a] EXCEPT !.pc = pc, !.done = done]]
  <2>1. request[a] \in RequestState
    BY DEF IInv, TypeOK, Requests
  <2>2. CASE SaveDelivered(a)
    <3>1. PICK pc \in {"fulfill", "commit"} :
            request' = [request EXCEPT ![a] = [request[a] EXCEPT !.pc = pc]]
      BY <2>2 DEF SaveDelivered, Become
    <3>2. [request[a] EXCEPT !.pc = pc] = [request[a] EXCEPT !.pc = pc, !.done = request[a].done]
      BY <2>1 DEF RequestState
    <3> QED
      BY <2>1, <3>1, <3>2 DEF RequestState
  <2>3. CASE FulfillDelivered(a)
    BY <2>3 DEF FulfillDelivered, Become
  <2> QED
    BY <2>2, <2>3
<1>2. /\ request[a].pc \in {"save", "fulfill"}
      /\ request[a].new = "DELIVERED"
  BY DEF SaveDelivered, FulfillDelivered, IInv, AdminShape
<1>3. UNCHANGED <<order, entry, retry, contested>>
  BY DEF SaveDelivered, FulfillDelivered
<1>4. a \in Requests /\ a \notin Buyers /\ request[a] \in RequestState /\ request[a].key \in Keys
  BY DEF Requests, IInv, TypeOK, RequestState
<1>5. /\ ledger' \in [Keys -> SUBSET Operations]
      /\ \A j \in Keys : ledger[j] \subseteq ledger'[j]
  <2>1. CASE SaveDelivered(a)
    BY <2>1 DEF SaveDelivered, IInv, TypeOK
  <2>2. CASE FulfillDelivered(a)
    <3>1. PICK answer \in Answers : Call(request[a].key, "fulfill", answer)
      BY <2>2 DEF FulfillDelivered
    <3> QED
      BY <1>4, <3>1, LedgerGrows, OperationsNamed DEF IInv
  <2> QED
    BY <2>1, <2>2
<1> DEFINE next == [request[a] EXCEPT !.pc = pc, !.done = done]
<1>6. next = [pc |-> pc, key |-> request[a].key, new |-> "DELIVERED", done |-> done]
  <2>1. next = [pc |-> pc, key |-> request[a].key, new |-> request[a].new, done |-> done]
    BY <1>4, PcAndDone
  <2> QED
    BY <1>2, <2>1
<1>7. next \in RequestState
  BY <1>4, <1>6 DEF RequestState, Statuses
<1>8. order[request[a].key].status # "NONE"
  BY <1>2, <1>4 DEF IInv, OrderFound
<1>9. /\ request[a].key \notin contested
            => \A e \in EntryIds : Used(e) => entry[e].key # request[a].key
      /\ \A c \in Admins \ {a} :
            request[c].pc # "idle" /\ request[c].key = request[a].key
                => request[a].key \in contested
      /\ contested \subseteq Keys
  BY <1>2 DEF IInv, NoEntryBefore, Apart, TypeOK
<1>10. request' = [request EXCEPT ![a] = next]
  BY <1>1
<1> HIDE DEF next
<1> QED
  BY <1>3, <1>4, <1>5, <1>6, <1>7, <1>8, <1>9, <1>10, RequestOnly

(* What is asked for: nothing when B2B took the fulfill, or when an entry  *)
(* waits; else a new entry.                                                *)
LEMMA AskedFor ==
    ASSUME IInv, NEW a \in Admins, AskForRetry(a)
    PROVE  \/ UNCHANGED entry /\ (request[a].done \/ WaitingEntries(request[a].key) # {})
           \/ \E e \in EntryIds :
                /\ ~Used(e)
                /\ entry' = [entry EXCEPT ![e] = [key |-> request[a].key, state |-> "waiting"]]
  BY DEF AskForRetry, EnqueueFulfillRetry, Used

(* Nobody else is about to deliver the order that gets the entry, unless   *)
(* it is contested.                                                        *)
LEMMA CommitInv ==
    ASSUME IInv, NEW a \in Admins, CommitDelivered(a)
    PROVE  IInv'
<1> DEFINE k == request[a].key
           row == [status |-> "DELIVERED", fulfilled |-> order[k].fulfilled \/ request[a].done]
<1> USE DEF IInv
<1>1. a \in Requests /\ k \in Keys /\ request[a].done \in BOOLEAN /\ order[k] \in OrderRow
  BY DEF Requests, TypeOK, RequestState
<1>2. /\ order' = [order EXCEPT ![k] = row]
      /\ request[a].pc = "commit"
      /\ request' = [request EXCEPT ![a] = Idle]
      /\ AskForRetry(a)
      /\ UNCHANGED <<ledger, retry, contested>>
  BY DEF CommitDelivered, Become
<1>3. row \in OrderRow
  BY <1>1 DEF OrderRow, Statuses
<1>4. \A j \in Keys : order'[j] = IF j = k THEN row ELSE order[j]
  BY <1>2 DEF TypeOK
<1>5. \A q \in Requests : request'[q] = IF q = a THEN Idle ELSE request[q]
  BY <1>2 DEF TypeOK
<1>6. k \notin contested => \A e \in EntryIds : Used(e) => entry[e].key # k
  BY <1>2 DEF AdminShape, NoEntryBefore
<1>7. /\ entry' \in [EntryIds -> Entry]
      /\ \A e \in EntryIds : Used(e) => entry'[e] = entry[e]
      /\ \A e \in EntryIds : Used(e)' /\ ~Used(e) => entry'[e].key = k
      /\ request[a].done \/ \E e \in EntryIds : entry'[e] = [key |-> k, state |-> "waiting"]
  <2>1. CASE UNCHANGED entry /\ (request[a].done \/ WaitingEntries(k) # {})
    BY <2>1 DEF TypeOK, Used, WaitingEntries
  <2>2. CASE \E e \in EntryIds :
               /\ ~Used(e)
               /\ entry' = [entry EXCEPT ![e] = [key |-> k, state |-> "waiting"]]
    BY <1>1, <2>2 DEF TypeOK, Entry, Used
  <2> QED
    BY <1>2, <2>1, <2>2, AskedFor
<1>8. TypeOK'
  BY <1>2, <1>3, <1>7, IdleTyped DEF TypeOK
<1>9. CustomerShape' /\ AdminShape'
  BY <1>2, <1>5, IdleTyped DEF CustomerShape, AdminShape, Requests
<1>10. OrderFound'
  BY <1>4, <1>5, IdleTyped DEF OrderFound, TypeOK, RequestState
<1>11. \A e \in EntryIds : entry[e].key \in Keys
  BY DEF TypeOK, Entry
<1>12. EntriesOver'
  <2> SUFFICES ASSUME NEW e \in EntryIds, Used(e)', entry'[e].key \notin contested
               PROVE  (order[entry[e].key].status = "DELIVERED" \/ Canceled(entry[e].key))'
    BY <1>2 DEF EntriesOver
  <2>1. CASE Used(e)
    BY <1>4, <1>6, <1>7, <1>11, <2>1 DEF EntriesOver, Canceled
  <2>2. CASE ~Used(e)
    BY <1>1, <1>4, <1>7, <2>2
  <2> QED
    BY <2>1, <2>2
<1>13. NoEntryBefore'
  <2> SUFFICES ASSUME NEW c \in Admins, NEW e \in EntryIds, c # a,
                      request[c].pc # "idle", request[c].new # "CANCELED",
                      request[c].key \notin contested, Used(e)'
               PROVE  entry'[e].key # request[c].key
    BY <1>2, <1>5, IdleTyped DEF NoEntryBefore, Requests
  <2>1. k # request[c].key
    BY <1>2 DEF Apart
  <2> QED
    BY <1>7, <2>1 DEF NoEntryBefore
<1>18. Apart'
  BY <1>2, <1>5, IdleTyped DEF Apart, Requests
<1>14. TodoUsed'
  BY <1>2, <1>7 DEF TodoUsed, Used, TypeOK, RetryState
<1>15. MarkedDone'
  <2> SUFFICES ASSUME NEW t \in Retries, NEW e \in EntryIds,
                      retry[t].pc = "mark", IsFirst(e, retry[t].todo),
                      entry[e].key \notin contested
               PROVE  (order[entry[e].key].fulfilled \/ Canceled(entry[e].key))'
    <3>1. \A t \in Retries, e \in EntryIds : IsFirst(e, retry[t].todo) =>
            Used(e) /\ entry'[e] = entry[e]
      BY <1>7 DEF TodoUsed, IsFirst
    <3> QED
      BY <1>2, <3>1 DEF MarkedDone, IsFirst
  <2>1. Used(e)
    BY DEF TodoUsed, IsFirst
  <2>2. entry'[e] = entry[e] /\ entry[e].key # k
    BY <1>6, <1>7, <2>1
  <2> QED
    BY <1>4, <1>11, <2>2 DEF MarkedDone, Canceled
<1>16. OrderReserved'
  BY <1>1, <1>2, <1>4 DEF OrderReserved, OrderFound
<1>17. FulfillPending'
  <2> SUFFICES ASSUME NEW j \in Keys \ contested, order'[j].status = "DELIVERED", ~order'[j].fulfilled
               PROVE  \E e \in EntryIds : entry'[e] = [key |-> j, state |-> "waiting"]
    BY <1>2 DEF FulfillPending, WaitingEntries
  <2>1. CASE j = k
    <3>1. order'[k].fulfilled = (order[k].fulfilled \/ request[a].done)
      BY <1>1, <1>4
    <3>2. ~request[a].done
      BY <2>1, <3>1, Zenon
    <3> QED
      BY <1>7, <2>1, <3>2
  <2>2. CASE j # k
    BY <1>4, <1>7, <2>2 DEF FulfillPending, WaitingEntries, Used
  <2> QED
    BY <2>1, <2>2
<1> QED
  BY <1>8, <1>9, <1>10, <1>12, <1>13, <1>14, <1>15, <1>16, <1>17, <1>18

-----------------------------------------------------------------------------
(* retry_pending_fulfill.                                                  *)

(* A step of a run that changes neither an order nor an entry.             *)
LEMMA RetryOnly ==
    ASSUME IInv, UNCHANGED <<order, entry, request, contested>>,
           NEW t \in Retries, NEW next \in RetryState, Proceed(t, next),
           ledger' \in [Keys -> SUBSET Operations],
           \A k \in Keys : ledger[k] \subseteq ledger'[k],
           \A e \in next.todo : Used(e),
           next.pc = "mark" =>
             \A e \in EntryIds : IsFirst(e, next.todo) /\ entry[e].key \notin contested =>
               order[entry[e].key].fulfilled \/ Canceled(entry[e].key)
    PROVE  IInv'
<1> USE DEF IInv
<1>1. \A u \in Retries : retry'[u] = IF u = t THEN next ELSE retry[u]
  BY DEF TypeOK, Proceed
<1>2. TypeOK'
  BY DEF TypeOK, Proceed
<1>3. CustomerShape' /\ AdminShape'
  BY DEF CustomerShape, AdminShape, TypeOK, RequestState, Requests
<1>4. OrderFound' /\ EntriesOver' /\ NoEntryBefore' /\ Apart'
  BY DEF OrderFound, EntriesOver, NoEntryBefore, Apart, Used, Canceled
<1>5. TodoUsed'
  BY <1>1 DEF TodoUsed, Used
<1>6. MarkedDone'
  BY <1>1 DEF MarkedDone, Canceled
<1>7. OrderReserved' /\ FulfillPending'
  BY DEF OrderReserved, FulfillPending, WaitingEntries
<1> QED
  BY <1>2, <1>3, <1>4, <1>5, <1>6, <1>7

LEMMA ReadInv ==
    ASSUME IInv, NEW t \in Retries,
           \/ ListPending(t) \/ RetryDies(t)
           \/ \E e \in EntryIds : ReadOrder(t, e)
    PROVE  IInv'
<1>1. UNCHANGED <<order, entry, ledger, request, contested>> /\ TypeOK
  BY DEF ListPending, RetryDies, ReadOrder, IInv
<1>2. CASE ListPending(t)
  <2> DEFINE waiting == {e \in EntryIds : entry[e].state = "waiting"}
             next == [todo |-> waiting, pc |-> "next"]
  <2>1. Proceed(t, next)
    BY <1>2 DEF ListPending
  <2>2. next \in RetryState
    BY DEF RetryState
  <2>3. \A e \in next.todo : Used(e)
    BY DEF Used
  <2> QED
    BY <1>1, <2>1, <2>2, <2>3, RetryOnly DEF TypeOK
<1>3. CASE RetryDies(t)
  <2>1. Proceed(t, IdleRetry)
    BY <1>3 DEF RetryDies
  <2>2. IdleRetry.todo = {} /\ IdleRetry.pc = "next"
    BY DEF IdleRetry
  <2> QED
    BY <1>1, <2>1, <2>2, IdleTyped, RetryOnly DEF TypeOK
<1>4. CASE \E e \in EntryIds : ReadOrder(t, e)
  <2>1. PICK e \in EntryIds : ReadOrder(t, e)
    BY <1>4
  <2>2. PICK pc \in {"call", "mark"} :
          /\ Proceed(t, [retry[t] EXCEPT !.pc = pc])
          /\ pc = "mark" => order[entry[e].key].status # "DELIVERED" \/ order[entry[e].key].fulfilled
    BY <2>1 DEF ReadOrder
  <2> DEFINE next == [retry[t] EXCEPT !.pc = pc]
  <2>3. next = [todo |-> retry[t].todo, pc |-> pc] /\ next \in RetryState
    BY <1>1 DEF TypeOK, RetryState
  <2>4. IsFirst(e, retry[t].todo) /\ Used(e)
    BY <2>1 DEF ReadOrder, IsFirst, IInv, TodoUsed
  <2>5. \A d \in EntryIds : IsFirst(d, retry[t].todo) => d = e
    BY <2>4 DEF IsFirst, EntryIds
  <2>6. \A d \in next.todo : Used(d)
    BY <2>3 DEF IInv, TodoUsed
  <2>7. entry[e].key \notin contested /\ pc = "mark" =>
         order[entry[e].key].fulfilled \/ Canceled(entry[e].key)
    BY <2>2, <2>4 DEF IInv, EntriesOver
  <2> HIDE DEF next
  <2> QED
    BY <1>1, <2>2, <2>3, <2>5, <2>6, <2>7, RetryOnly DEF TypeOK, next
<1> QED
  BY <1>2, <1>3, <1>4

LEMMA RetryFulfillInv ==
    ASSUME IInv, NEW t \in Retries, NEW e \in EntryIds, RetryFulfill(t, e)
    PROVE  IInv'
<1>1. /\ TypeOK /\ retry[t] \in RetryState /\ entry[e].key \in Keys
      /\ \A d \in retry[t].todo : Used(d)
  BY DEF IInv, TypeOK, Entry, TodoUsed
<1>2. UNCHANGED <<order, entry, request, contested>>
  BY DEF RetryFulfill
<1>3. PICK answer \in Answers :
        Call(entry[e].key, "fulfill", answer) /\ TakeFulfill(t, e, answer)
  BY DEF RetryFulfill
<1>4. /\ ledger' \in [Keys -> SUBSET Operations]
      /\ \A j \in Keys : ledger[j] \subseteq ledger'[j]
  BY <1>1, <1>3, LedgerGrows, OperationsNamed
<1>5. PICK todo \in {retry[t].todo, retry[t].todo \ {e}}, pc \in {"save", "next"} :
        Proceed(t, [todo |-> todo, pc |-> pc])
  <2>1. [retry[t] EXCEPT !.pc = "save"] = [todo |-> retry[t].todo, pc |-> "save"]
    BY <1>1 DEF RetryState
  <2> QED
    BY <1>3, <2>1 DEF TakeFulfill
<1> DEFINE next == [todo |-> todo, pc |-> pc]
<1>6. next \in RetryState /\ \A d \in next.todo : Used(d)
  BY <1>1 DEF RetryState
<1> QED
  BY <1>2, <1>4, <1>5, <1>6, RetryOnly

LEMMA SaveFulfilledInv ==
    ASSUME IInv, NEW t \in Retries, NEW e \in EntryIds, SaveFulfilled(t, e)
    PROVE  IInv'
<1> DEFINE k == entry[e].key
           row == [status |-> order[k].status, fulfilled |-> TRUE]
           next == [todo |-> retry[t].todo, pc |-> "mark"]
<1> USE DEF IInv
<1>1. k \in Keys /\ order[k] \in OrderRow /\ retry[t] \in RetryState
  BY DEF TypeOK, Entry
<1>2. /\ IsFirst(e, retry[t].todo)
      /\ order' = [order EXCEPT ![k] = row]
      /\ retry' = [retry EXCEPT ![t] = [retry[t] EXCEPT !.pc = "mark"]]
      /\ UNCHANGED <<entry, ledger, request, contested>>
  BY DEF SaveFulfilled, Proceed
<1>3. row \in OrderRow
  BY <1>1 DEF OrderRow
<1>4. [retry[t] EXCEPT !.pc = "mark"] = next /\ next \in RetryState
  BY <1>1 DEF RetryState
<1>5. \A j \in Keys : order'[j] = IF j = k THEN row ELSE order[j]
  BY <1>2, <1>3 DEF TypeOK
<1>6. \A u \in Retries : retry'[u] = IF u = t THEN next ELSE retry[u]
  BY <1>2, <1>4 DEF TypeOK
<1>7. TypeOK'
  BY <1>2, <1>3, <1>4 DEF TypeOK
<1>8. CustomerShape' /\ AdminShape'
  BY <1>2 DEF CustomerShape, AdminShape
<1>9. \A j \in Keys : order'[j].status = order[j].status
  BY <1>5
<1>10. OrderFound' /\ EntriesOver'
  BY <1>2, <1>9 DEF OrderFound, EntriesOver, Used, Canceled, TypeOK, RequestState, Entry
<1>11. NoEntryBefore' /\ Apart'
  BY <1>2 DEF NoEntryBefore, Apart, Used
<1>12. TodoUsed'
  BY <1>2, <1>6 DEF TodoUsed, Used
<1>13. MarkedDone'
  <2> SUFFICES ASSUME NEW u \in Retries, NEW d \in EntryIds,
                      retry'[u].pc = "mark", IsFirst(d, retry'[u].todo),
                      entry[d].key \notin contested
               PROVE  (order[entry[d].key].fulfilled \/ Canceled(entry[d].key))'
    BY <1>2 DEF MarkedDone, IsFirst
  <2>1. CASE u = t
    <3>1. d = e
      BY <1>2, <1>6, <2>1 DEF IsFirst, EntryIds
    <3> QED
      BY <1>1, <1>2, <1>5, <3>1
  <2>2. CASE u # t
    <3>1. order[entry[d].key].fulfilled \/ Canceled(entry[d].key)
      BY <1>6, <2>2 DEF MarkedDone
    <3>2. entry[d].key \in Keys
      BY DEF TypeOK, Entry
    <3> QED
      BY <1>2, <1>5, <1>9, <3>1, <3>2 DEF Canceled
  <2> QED
    BY <2>1, <2>2
<1>14. OrderReserved'
  BY <1>2, <1>9 DEF OrderReserved
<1>15. FulfillPending'
  BY <1>2, <1>5 DEF FulfillPending, WaitingEntries
<1> QED
  BY <1>7, <1>8, <1>10, <1>11, <1>12, <1>13, <1>14, <1>15

(* A marked entry leaves no delivered order without one that waits: what   *)
(* it stood for is done.                                                   *)
LEMMA MarkInv ==
    ASSUME IInv, NEW t \in Retries, NEW e \in EntryIds, MarkEntry(t, e)
    PROVE  IInv'
<1> DEFINE next == [todo |-> retry[t].todo \ {e}, pc |-> "next"]
           marked == [key |-> entry[e].key, state |-> "published"]
<1> USE DEF IInv
<1>1. entry[e] \in Entry /\ retry[t] \in RetryState
  BY DEF TypeOK
<1>2. /\ retry[t].pc = "mark"
      /\ IsFirst(e, retry[t].todo)
      /\ entry' = [entry EXCEPT ![e].state = "published"]
      /\ retry' = [retry EXCEPT ![t] = next]
      /\ UNCHANGED <<order, ledger, request, contested>>
  BY DEF MarkEntry, Proceed
<1>3. [entry[e] EXCEPT !.state = "published"] = marked /\ marked \in Entry
  BY <1>1 DEF Entry
<1>4. next \in RetryState
  BY <1>1 DEF RetryState
<1>5. \A d \in EntryIds : entry'[d] = IF d = e THEN marked ELSE entry[d]
  BY <1>2, <1>3 DEF TypeOK
<1>6. \A u \in Retries : retry'[u] = IF u = t THEN next ELSE retry[u]
  BY <1>2, <1>4 DEF TypeOK
<1>7. Used(e)
  BY <1>2 DEF TodoUsed, IsFirst
<1>8. \A d \in EntryIds : entry'[d].key = entry[d].key /\ (Used(d)' <=> Used(d))
  BY <1>5, <1>7 DEF Used
<1>9. TypeOK'
  BY <1>2, <1>3, <1>4 DEF TypeOK
<1>10. CustomerShape' /\ AdminShape' /\ OrderFound' /\ OrderReserved'
  BY <1>2 DEF CustomerShape, AdminShape, OrderFound, OrderReserved
<1>11. EntriesOver'
  BY <1>2, <1>8 DEF EntriesOver, Canceled
<1>12. NoEntryBefore' /\ Apart'
  BY <1>2, <1>8 DEF NoEntryBefore, Apart
<1>13. TodoUsed'
  BY <1>1, <1>6, <1>8 DEF TodoUsed, TypeOK, RetryState
<1>14. MarkedDone'
  BY <1>2, <1>6, <1>8 DEF MarkedDone, Canceled
<1>15. FulfillPending'
  <2> SUFFICES ASSUME NEW j \in Keys \ contested, order[j].status = "DELIVERED", ~order[j].fulfilled
               PROVE  \E d \in EntryIds : entry'[d] = [key |-> j, state |-> "waiting"]
    BY <1>2 DEF FulfillPending, WaitingEntries
  <2>1. PICK d \in EntryIds : entry[d] = [key |-> j, state |-> "waiting"]
    BY DEF FulfillPending, WaitingEntries
  <2>2. d # e
    BY <1>2, <2>1 DEF MarkedDone, Canceled
  <2> QED
    BY <1>5, <2>1, <2>2
<1> QED
  BY <1>9, <1>10, <1>11, <1>12, <1>13, <1>14, <1>15

-----------------------------------------------------------------------------
LEMMA NextInv ==
    ASSUME IInv, [Next]_ordersVars
    PROVE  IInv'
<1>1. CASE \E b \in Buyers : CustomerStep(b)
  <2>1. PICK b \in Buyers : CustomerStep(b)
    BY <1>1
  <2>2. b \in Requests
    BY DEF Requests
  <2> QED
    BY <2>1, <2>2, CheckoutInv, ReserveInv, GiveUpInv, PlaceOrderInv, UnreserveInv,
       SaveStatusInv DEF CustomerStep
<1>2. CASE \E a \in Admins : AdminStep(a)
  <2>1. PICK a \in Admins : AdminStep(a)
    BY <1>2
  <2>2. a \in Requests
    BY DEF Requests
  <2> QED
    BY <2>1, <2>2, PatchInv, SaveStatusInv, DeliverInv, CommitInv DEF AdminStep
<1>3. CASE \E r \in Requests : Abort(r)
  BY <1>3, GiveUpInv
<1>4. CASE \E t \in Retries : RetryStep(t) \/ RetryDies(t)
  BY <1>4, ReadInv, RetryFulfillInv, SaveFulfilledInv, MarkInv DEF RetryStep
<1>5. CASE UNCHANGED ordersVars
  <2>1. UNCHANGED <<order, entry, ledger, request, retry, contested>>
    BY <1>5 DEF ordersVars
  <2> QED
    BY <2>1 DEF IInv, TypeOK, CustomerShape, AdminShape, OrderFound, EntriesOver, NoEntryBefore,
                Apart, TodoUsed, MarkedDone, OrderReserved, FulfillPending, Used, Canceled, IsFirst,
                WaitingEntries
<1> QED
  BY <1>1, <1>2, <1>3, <1>4, <1>5 DEF Next

-----------------------------------------------------------------------------
(* What says that B2B took a fulfill - the order, an administrator's       *)
(* request, a run of the retry about to save it - says so of a recorded    *)
(* one.                                                                    *)
DoneRecorded ==
    \A a \in Admins :
        request[a].pc # "idle" /\ request[a].done => "fulfill" \in ledger[request[a].key]
SavedRecorded ==
    \A t \in Retries, e \in EntryIds :
        retry[t].pc = "save" /\ IsFirst(e, retry[t].todo)
            => "fulfill" \in ledger[entry[e].key]
DoneInv == FulfilledRecorded /\ DoneRecorded /\ SavedRecorded

(* A step that saves no fulfilled_at and takes no answer of a fulfill.     *)
LEMMA DoneKept ==
    ASSUME IInv, DoneInv,
           \A k \in Keys : /\ ledger[k] \subseteq ledger'[k]
                           /\ order'[k].fulfilled => "fulfill" \in ledger[k],
           \A a \in Admins : \/ request'[a].pc = "idle"
                             \/ request'[a].done => "fulfill" \in ledger'[request'[a].key],
           \A t \in Retries : \/ retry'[t].pc # "save"
                              \/ retry'[t] = retry[t],
           \A e \in EntryIds : Used(e) => entry'[e].key = entry[e].key
    PROVE  DoneInv'
<1>1. FulfilledRecorded'
  BY DEF FulfilledRecorded
<1>2. DoneRecorded'
  BY DEF DoneRecorded
<1>3. SavedRecorded'
  <2> SUFFICES ASSUME NEW t \in Retries, NEW e \in EntryIds,
                      retry'[t].pc = "save", IsFirst(e, retry'[t].todo)
               PROVE  "fulfill" \in ledger'[entry'[e].key]
    BY DEF SavedRecorded, IsFirst
  <2>1. retry'[t] = retry[t]
    OBVIOUS
  <2>2. Used(e) /\ entry[e].key \in Keys
    BY <2>1 DEF IInv, TodoUsed, IsFirst, TypeOK, Entry
  <2> QED
    BY <2>1, <2>2 DEF DoneInv, SavedRecorded
<1> QED
  BY <1>1, <1>2, <1>3 DEF DoneInv

(* What a request may do to itself, to the ledger and to its order.        *)
LEMMA RequestDone ==
    ASSUME IInv, DoneInv, UNCHANGED retry,
           NEW r \in Requests, NEW next, request' = [request EXCEPT ![r] = next],
           \A k \in Keys : ledger[k] \subseteq ledger'[k],
           r \in Admins /\ next.pc # "idle" /\ next.done => "fulfill" \in ledger'[next.key],
           \A k \in Keys : order'[k].fulfilled => "fulfill" \in ledger[k],
           \A e \in EntryIds : Used(e) => entry'[e].key = entry[e].key
    PROVE  DoneInv'
<1>1. \A a \in Admins : a \in Requests /\ request[a].key \in Keys
  BY DEF Requests, IInv, TypeOK, RequestState
<1>2. \A a \in Admins : request'[a] = IF a = r THEN next ELSE request[a]
  BY <1>1 DEF IInv, TypeOK
<1>3. \A a \in Admins : \/ request'[a].pc = "idle"
                        \/ request'[a].done => "fulfill" \in ledger'[request'[a].key]
  BY <1>1, <1>2 DEF DoneInv, DoneRecorded
<1> QED
  BY <1>3, DoneKept

LEMMA CustomerDone ==
    ASSUME IInv, DoneInv, NEW b \in Buyers, CustomerStep(b)
    PROVE  DoneInv'
<1>1. b \in Requests /\ b \notin Admins /\ request[b].key \in Keys
  BY DEF Requests, IInv, TypeOK, RequestState
<1>2. PICK next : request' = [request EXCEPT ![b] = next]
  BY DEF CustomerStep, Checkout, Cancel, ReserveStock, TakeReserve, RejectPromo, PlaceOrder,
         LoseRace, Unreserve, SaveStatus, Become
<1>3. UNCHANGED <<entry, retry, contested>>
  BY DEF CustomerStep, Checkout, Cancel, ReserveStock, RejectPromo, PlaceOrder, LoseRace,
         Unreserve, SaveStatus
<1>4. \A k \in Keys : ledger[k] \subseteq ledger'[k]
  <2>1. CASE UNCHANGED ledger
    BY <2>1
  <2>2. CASE \E operation \in Operations, answer \in Answers :
               Call(request[b].key, operation, answer)
    BY <1>1, <2>2, LedgerGrows DEF IInv
  <2> QED
    BY <2>1, <2>2, OperationsNamed DEF CustomerStep, Checkout, Cancel, ReserveStock,
       RejectPromo, PlaceOrder, LoseRace, Unreserve, SaveStatus
<1>5. \A k \in Keys : order'[k].fulfilled => order[k].fulfilled
  <2>1. CASE UNCHANGED order
    BY <2>1
  <2>2. CASE \E st : order' = [order EXCEPT ![request[b].key].status = st]
    BY <1>1, <2>2 DEF IInv, TypeOK, OrderRow
  <2> QED
    BY <2>1, <2>2 DEF CustomerStep, Checkout, Cancel, ReserveStock, RejectPromo, PlaceOrder,
       LoseRace, Unreserve, SaveStatus
<1>6. \A k \in Keys : order'[k].fulfilled => "fulfill" \in ledger[k]
  BY <1>5 DEF DoneInv, FulfilledRecorded
<1> QED
  BY <1>1, <1>2, <1>3, <1>4, <1>6, RequestDone

LEMMA AdminDone ==
    ASSUME IInv, DoneInv, NEW a \in Admins, AdminStep(a)
    PROVE  DoneInv'
<1> USE DEF IInv, DoneInv
<1>1. a \in Requests /\ request[a] \in RequestState /\ request[a].key \in Keys
  BY DEF Requests, TypeOK, RequestState
<1>2. CASE \E k \in Keys, new \in Statuses : Patch(a, k, new)
  <2>1. PICK k \in Keys, new \in Statuses : Patch(a, k, new)
    BY <1>2
  <2> DEFINE next == [pc |-> "save", key |-> k, new |-> new, done |-> order[k].fulfilled]
  <2>2. request' = [request EXCEPT ![a] = next] /\ UNCHANGED <<order, entry, ledger, retry>>
    BY <2>1 DEF Patch, Become
  <2>3. next.done => "fulfill" \in ledger'[next.key]
    BY <2>2 DEF FulfilledRecorded
  <2> QED
    BY <1>1, <2>2, <2>3, RequestDone DEF FulfilledRecorded
<1>3. CASE SaveStatus(a)
  <2>1. request' = [request EXCEPT ![a] = Idle] /\ UNCHANGED <<entry, ledger, retry, contested>>
    BY <1>3 DEF SaveStatus, Become
  <2>2. \A k \in Keys : order'[k].fulfilled => order[k].fulfilled
    BY <1>1, <1>3 DEF SaveStatus, TypeOK, OrderRow
  <2> QED
    BY <1>1, <2>1, <2>2, IdleTyped, RequestDone DEF FulfilledRecorded
<1>4. CASE SaveDelivered(a)
  <2>1. PICK pc : request' = [request EXCEPT ![a] = [request[a] EXCEPT !.pc = pc]]
    BY <1>4 DEF SaveDelivered, Become
  <2>2. UNCHANGED <<order, entry, ledger, retry, contested>> /\ request[a].pc # "idle"
    BY <1>4 DEF SaveDelivered
  <2>3. /\ [request[a] EXCEPT !.pc = pc].done = request[a].done
        /\ [request[a] EXCEPT !.pc = pc].key = request[a].key
    BY <1>1 DEF RequestState
  <2> QED
    BY <1>1, <2>1, <2>2, <2>3, RequestDone DEF FulfilledRecorded, DoneRecorded
<1>5. CASE FulfillDelivered(a)
  <2>1. PICK answer \in Answers, done \in BOOLEAN :
          /\ done = (answer = "ok")
          /\ Call(request[a].key, "fulfill", answer)
          /\ request' = [request EXCEPT ![a] =
                           [request[a] EXCEPT !.pc = "commit", !.done = done]]
    BY <1>5 DEF FulfillDelivered, Become
  <2>2. UNCHANGED <<order, entry, retry, contested>>
    BY <1>5 DEF FulfillDelivered
  <2>3. /\ \A j \in Keys : ledger[j] \subseteq ledger'[j]
        /\ done => "fulfill" \in ledger'[request[a].key]
    BY <1>1, <2>1, LedgerGrows, OperationsNamed
  <2> DEFINE next == [request[a] EXCEPT !.pc = "commit", !.done = done]
  <2>4. next = [pc |-> "commit", key |-> request[a].key, new |-> request[a].new,
                done |-> done]
    BY <1>1, PcAndDone
  <2>5. next.done => "fulfill" \in ledger'[next.key]
    BY <2>3, <2>4
  <2>6. request' = [request EXCEPT ![a] = next]
    BY <2>1
  <2> HIDE DEF next
  <2> QED
    BY <1>1, <2>2, <2>3, <2>5, <2>6, RequestDone DEF FulfilledRecorded
<1>6. CASE CommitDelivered(a)
  <2> DEFINE k == request[a].key
             row == [status |-> "DELIVERED", fulfilled |-> order[k].fulfilled \/ request[a].done]
  <2>1. /\ request' = [request EXCEPT ![a] = Idle] /\ request[a].pc = "commit"
        /\ order' = [order EXCEPT ![k] = row]
        /\ AskForRetry(a)
        /\ UNCHANGED <<ledger, retry, contested>>
    BY <1>6 DEF CommitDelivered, Become
  <2>2. \A e \in EntryIds : Used(e) => entry'[e].key = entry[e].key
    BY <2>1, AskedFor DEF TypeOK
  <2>3. row.fulfilled => "fulfill" \in ledger[k]
    BY <1>1, <2>1 DEF FulfilledRecorded, DoneRecorded
  <2>4. \A j \in Keys : order'[j] = IF j = k THEN row ELSE order[j]
    BY <1>1, <2>1 DEF TypeOK
  <2>5. \A j \in Keys : order'[j].fulfilled => "fulfill" \in ledger[j]
    BY <1>1, <2>3, <2>4 DEF FulfilledRecorded
  <2> QED
    BY <1>1, <2>1, <2>2, <2>5, IdleTyped, RequestDone
<1> QED
  BY <1>2, <1>3, <1>4, <1>5, <1>6 DEF AdminStep

LEMMA RetryDone ==
    ASSUME IInv, DoneInv, NEW t \in Retries, RetryStep(t) \/ RetryDies(t)
    PROVE  DoneInv'
<1> USE DEF IInv, DoneInv
<1>1. retry[t] \in RetryState /\ \A e \in EntryIds : entry[e] \in Entry /\ entry[e].key \in Keys
  BY DEF TypeOK, Entry
<1>2. \A u \in Retries : u # t => retry'[u] = retry[u]
  BY DEF RetryStep, RetryDies, ListPending, ReadOrder, RetryFulfill, TakeFulfill, SaveFulfilled,
         MarkEntry, Proceed, TypeOK
<1>3. UNCHANGED request
  BY DEF RetryStep, RetryDies, ListPending, ReadOrder, RetryFulfill, SaveFulfilled, MarkEntry
<1>4. \A a \in Admins : a \in Requests /\ request[a].key \in Keys
  BY DEF Requests, TypeOK, RequestState
<1>5. CASE ListPending(t) \/ RetryDies(t) \/ \E e \in EntryIds : ReadOrder(t, e)
  <2>1. UNCHANGED <<order, entry, ledger, contested>>
    BY <1>5 DEF ListPending, RetryDies, ReadOrder
  <2>2. retry'[t].pc # "save"
    BY <1>1, <1>5 DEF ListPending, RetryDies, ReadOrder, Proceed, IdleRetry, TypeOK, RetryState
  <2> QED
    BY <1>2, <1>3, <1>4, <2>1, <2>2, DoneKept DEF FulfilledRecorded, DoneRecorded
<1>6. CASE \E e \in EntryIds : RetryFulfill(t, e)
  <2>1. PICK e \in EntryIds, answer \in Answers :
          /\ Call(entry[e].key, "fulfill", answer)
          /\ TakeFulfill(t, e, answer)
          /\ IsFirst(e, retry[t].todo)
          /\ UNCHANGED <<order, entry, contested>>
    BY <1>6 DEF RetryFulfill
  <2>2. /\ \A j \in Keys : ledger[j] \subseteq ledger'[j]
        /\ answer = "ok" => "fulfill" \in ledger'[entry[e].key]
    BY <1>1, <2>1, LedgerGrows, OperationsNamed
  <2>3. CASE answer # "ok"
    <3>1. retry'[t].pc # "save"
      BY <2>1, <2>3 DEF TakeFulfill, Proceed, TypeOK
    <3> QED
      BY <1>2, <1>3, <1>4, <2>1, <2>2, <3>1, DoneKept DEF FulfilledRecorded, DoneRecorded
  <2>4. CASE answer = "ok"
    <3>1. retry'[t].todo = retry[t].todo
      BY <1>1, <2>1, <2>4 DEF TakeFulfill, Proceed, TypeOK, RetryState
    <3>2. FulfilledRecorded' /\ DoneRecorded'
      BY <1>3, <1>4, <2>1, <2>2 DEF FulfilledRecorded, DoneRecorded
    <3>3. SavedRecorded'
      <4> SUFFICES ASSUME NEW u \in Retries, NEW d \in EntryIds,
                          retry'[u].pc = "save", IsFirst(d, retry'[u].todo)
                   PROVE  "fulfill" \in ledger'[entry[d].key]
        BY <2>1 DEF SavedRecorded, IsFirst
      <4>1. CASE u = t
        <5>1. d = e
          BY <2>1, <3>1, <4>1 DEF IsFirst, EntryIds
        <5> QED
          BY <2>2, <2>4, <5>1
      <4>2. CASE u # t
        BY <1>1, <1>2, <2>2, <4>2 DEF SavedRecorded
      <4> QED
        BY <4>1, <4>2
    <3> QED
      BY <3>2, <3>3
  <2> QED
    BY <2>3, <2>4
<1>7. CASE \E e \in EntryIds : SaveFulfilled(t, e)
  <2>1. PICK e \in EntryIds : SaveFulfilled(t, e)
    BY <1>7
  <2>2. /\ retry[t].pc = "save" /\ IsFirst(e, retry[t].todo)
        /\ retry'[t].pc = "mark"
        /\ UNCHANGED <<entry, ledger, contested>>
    BY <1>1, <2>1 DEF SaveFulfilled, Proceed, TypeOK, RetryState
  <2>3. \A j \in Keys : order'[j].fulfilled => j = entry[e].key \/ order[j].fulfilled
    BY <2>1 DEF SaveFulfilled, TypeOK
  <2>4. \A j \in Keys : order'[j].fulfilled => "fulfill" \in ledger[j]
    BY <2>2, <2>3 DEF FulfilledRecorded, SavedRecorded
  <2> QED
    BY <1>2, <1>3, <1>4, <2>2, <2>4, DoneKept DEF DoneRecorded
<1>8. CASE \E e \in EntryIds : MarkEntry(t, e)
  <2>1. PICK e \in EntryIds : MarkEntry(t, e)
    BY <1>8
  <2>2. retry'[t].pc # "save" /\ UNCHANGED <<order, ledger, contested>>
    BY <2>1 DEF MarkEntry, Proceed, TypeOK
  <2>3. \A d \in EntryIds : entry'[d].key = entry[d].key
    BY <1>1, <2>1 DEF MarkEntry, TypeOK, Entry
  <2> QED
    BY <1>2, <1>3, <1>4, <2>2, <2>3, DoneKept DEF FulfilledRecorded, DoneRecorded
<1> QED
  BY <1>5, <1>6, <1>7, <1>8 DEF RetryStep

LEMMA InitDone == Init => DoneInv
  BY IdleTyped DEF Init, DoneInv, FulfilledRecorded, DoneRecorded, SavedRecorded, IdleRetry,
                   Requests

LEMMA NextDone ==
    ASSUME IInv, DoneInv, [Next]_ordersVars
    PROVE  DoneInv'
<1>1. CASE \E r \in Requests : Abort(r)
  <2>1. PICK r \in Requests : Abort(r)
    BY <1>1
  <2>2. request' = [request EXCEPT ![r] = Idle] /\ UNCHANGED <<order, entry, ledger, retry, contested>>
    BY <2>1 DEF Abort, Become
  <2> QED
    BY <2>2, IdleTyped, RequestDone DEF DoneInv, FulfilledRecorded
<1>2. CASE UNCHANGED ordersVars
  <2>1. UNCHANGED <<order, entry, ledger, request, retry, contested>>
    BY <1>2 DEF ordersVars
  <2> QED
    BY <2>1 DEF DoneInv, FulfilledRecorded, DoneRecorded, SavedRecorded, IsFirst
<1> QED
  BY <1>1, <1>2, CustomerDone, AdminDone, RetryDone DEF Next

-----------------------------------------------------------------------------
(* A request that is about to deliver an order that is not contested finds *)
(* it on its way, and one that is about to take it a step before that      *)
(* finds no fulfill recorded.                                              *)
OnTheWay ==
    \A a \in Admins : request[a].key \notin contested =>
        /\ request[a].pc \in {"save", "fulfill", "commit"} /\ request[a].new = "DELIVERED"
             => order[request[a].key].status \in {"DELIVERING", "CANCELED", "CANCEL_PENDING"}
        /\ request[a].pc = "save"
             /\ request[a].new \notin {"DELIVERING", "DELIVERED", "CANCELED"}
             => "fulfill" \notin ledger[request[a].key]
OutInv == FulfillDelivering /\ OnTheWay

LEMMA InitOut == Init => OutInv
<1> SUFFICES ASSUME Init PROVE OutInv
  OBVIOUS
<1>1. FulfillDelivering
  BY DEF Init, FulfillDelivering
<1>2. \A a \in Admins : request[a].pc = "idle"
  BY IdleTyped DEF Init, Requests
<1> QED
  BY <1>1, <1>2 DEF OutInv, OnTheWay

(* A call tells B2B one thing about one order.                             *)
LEMMA CallRecords ==
    ASSUME TypeOK, NEW k \in Keys, NEW operation, NEW answer, Call(k, operation, answer)
    PROVE  \A j \in Keys : "fulfill" \in ledger'[j]
                           => "fulfill" \in ledger[j] \/ (j = k /\ operation = "fulfill")
  BY DEF TypeOK, Call

(* What a customer does to orders and to what B2B is told of them: the     *)
(* administrator's order may be canceled meanwhile, and no more.           *)
LEMMA CustomerOut ==
    ASSUME IInv, OutInv, NEW b \in Buyers, CustomerStep(b)
    PROVE  OutInv'
<1>1. b \in Requests /\ b \notin Admins /\ request[b] \in RequestState /\ request[b].key \in Keys
  BY DEF Requests, IInv, TypeOK, RequestState
<1>2. PICK next : request' = [request EXCEPT ![b] = next]
  BY DEF CustomerStep, Checkout, Cancel, ReserveStock, TakeReserve, RejectPromo, PlaceOrder,
         LoseRace, Unreserve, SaveStatus, Become
<1>3. \A a \in Admins : request'[a] = request[a] /\ request[a].key \in Keys
  BY <1>1, <1>2 DEF Requests, IInv, TypeOK, RequestState
<1>8. UNCHANGED contested
  BY DEF CustomerStep, Checkout, Cancel, ReserveStock, RejectPromo, PlaceOrder, LoseRace,
         Unreserve, SaveStatus
<1>4. \A k \in Keys : "fulfill" \in ledger'[k] => "fulfill" \in ledger[k]
  <2>1. CASE UNCHANGED ledger
    BY <2>1
  <2>2. CASE \E operation \in Operations \ {"fulfill"}, answer \in Answers :
               Call(request[b].key, operation, answer)
    BY <1>1, <2>2, CallRecords DEF IInv
  <2>3. {"reserve", "promo-fail", "unreserve"} \subseteq Operations \ {"fulfill"}
    BY DEF Operations
  <2> QED
    BY <2>1, <2>2, <2>3 DEF CustomerStep, Checkout, Cancel, ReserveStock, RejectPromo,
       PlaceOrder, LoseRace, Unreserve, SaveStatus
<1>5. \A k \in Keys : \/ order'[k].status = order[k].status
                      \/ order[k].status = "NONE"
                      \/ order'[k].status \in {"CANCELED", "CANCEL_PENDING"}
  <2>1. CASE UNCHANGED order
    BY <2>1
  <2>2. CASE PlaceOrder(b)
    BY <1>1, <2>2 DEF PlaceOrder, IInv, TypeOK
  <2>3. CASE SaveStatus(b)
    <3>1. request[b].new \in {"CANCELED", "CANCEL_PENDING"}
      BY <2>3 DEF SaveStatus, IInv, CustomerShape
    <3>2. \A k \in Keys : order[k] \in OrderRow
      BY DEF IInv, TypeOK
    <3> QED
      BY <1>1, <2>3, <3>1, <3>2 DEF SaveStatus, IInv, TypeOK, OrderRow
  <2> QED
    BY <2>1, <2>2, <2>3 DEF CustomerStep, Checkout, Cancel, ReserveStock, RejectPromo,
       LoseRace, Unreserve
<1>6. FulfillDelivering'
  BY <1>4, <1>5, <1>8 DEF OutInv, FulfillDelivering
<1>7. OnTheWay'
  BY <1>3, <1>4, <1>5, <1>8 DEF OutInv, OnTheWay
<1> QED
  BY <1>6, <1>7 DEF OutInv

LEMMA AdminOut ==
    ASSUME IInv, OutInv, NEW a \in Admins, AdminStep(a)
    PROVE  OutInv'
<1> USE DEF OutInv
<1>1. /\ a \in Requests /\ request[a] \in RequestState /\ request[a].key \in Keys
      /\ \A c \in Admins : request[c].key \in Keys
      /\ \A k \in Keys : order[k] \in OrderRow
      /\ \A next : Become(a, next) => request'[a] = next
  BY DEF Requests, IInv, TypeOK, RequestState, Become
<1>7. \A c \in Admins \ {a} : request'[c] = request[c]
  BY <1>1 DEF AdminStep, Patch, SaveStatus, SaveDelivered, FulfillDelivered, CommitDelivered,
              Become, Requests, IInv, TypeOK
<1>8. request[a].pc # "idle" /\ request[a].key \notin contested =>
        \A c \in Admins \ {a} : request[c].pc = "idle" \/ request[c].key # request[a].key
  BY DEF IInv, Apart
<1>2. CASE \E k \in Keys, new \in Statuses : Patch(a, k, new)
  <2>1. PICK k \in Keys, new \in Statuses : Patch(a, k, new)
    BY <1>2
  <2>2. /\ request'[a].key = k /\ request'[a].new = new /\ request'[a].pc = "save"
        /\ new \in AllowedTransitions(order[k].status)
        /\ UNCHANGED <<order, ledger>> /\ contested \subseteq contested'
    BY <1>1, <2>1 DEF Patch
  <2>3. new = "DELIVERED" => order[k].status = "DELIVERING"
    BY <2>2 DEF AllowedTransitions
  <2>4. new \notin {"DELIVERING", "DELIVERED", "CANCELED"}
          => order[k].status \in {"CREATED", "PENDING", "PAID"}
    BY <2>2 DEF AllowedTransitions
  <2>5. FulfillDelivering'
    BY <2>2 DEF FulfillDelivering
  <2>6. ASSUME NEW c \in Admins, c # a
        PROVE  request'[c] = request[c] /\ (request[c].key \notin contested' =>
                                            request[c].key \notin contested)
    BY <1>7, <2>2, <2>6
  <2>7. OnTheWay'
    BY <1>1, <2>2, <2>3, <2>4, <2>6 DEF OnTheWay, FulfillDelivering
  <2> QED
    BY <2>5, <2>7
<1>3. CASE SaveStatus(a)
  <2> DEFINE k == request[a].key
  <2>1. /\ request'[a].pc = "idle" /\ UNCHANGED <<ledger, contested>>
        /\ request[a].pc = "save" /\ request[a].new # "DELIVERED"
        /\ order' = [order EXCEPT ![k].status = request[a].new]
    BY <1>1, <1>3, IdleTyped DEF SaveStatus
  <2>2. \A j \in Keys : order'[j].status = IF j = k THEN request[a].new ELSE order[j].status
    BY <1>1, <2>1 DEF IInv, TypeOK, OrderRow
  <2>3. FulfillDelivering'
    BY <1>1, <2>1, <2>2 DEF FulfillDelivering, OnTheWay
  <2>4. ASSUME NEW c \in Admins, c # a, request[c].pc # "idle", request[c].key \notin contested
        PROVE  order'[request[c].key].status = order[request[c].key].status
    BY <1>1, <1>8, <2>1, <2>2, <2>4
  <2>5. OnTheWay'
    BY <1>7, <2>1, <2>4 DEF OnTheWay
  <2> QED
    BY <2>3, <2>5
<1>4. CASE SaveDelivered(a)
  <2>1. PICK pc \in {"commit", "fulfill"} : Become(a, [request[a] EXCEPT !.pc = pc])
    BY <1>4 DEF SaveDelivered
  <2>2. /\ UNCHANGED <<order, ledger, contested>>
        /\ request[a].pc = "save" /\ request[a].new = "DELIVERED"
        /\ request'[a].pc = pc /\ request'[a].key = request[a].key
        /\ request'[a].new = "DELIVERED"
    BY <1>1, <1>4, <2>1 DEF SaveDelivered, RequestState
  <2>3. FulfillDelivering'
    BY <2>2 DEF FulfillDelivering
  <2>4. OnTheWay'
    BY <1>1, <1>7, <2>2 DEF OnTheWay
  <2> QED
    BY <2>3, <2>4
<1>5. CASE FulfillDelivered(a)
  <2>1. PICK answer \in Answers, done \in BOOLEAN :
          /\ Call(request[a].key, "fulfill", answer)
          /\ Become(a, [request[a] EXCEPT !.pc = "commit", !.done = done])
    BY <1>5 DEF FulfillDelivered
  <2>2. /\ UNCHANGED <<order, contested>>
        /\ request[a].pc = "fulfill" /\ request[a].new = "DELIVERED"
    BY <1>5 DEF FulfillDelivered, IInv, AdminShape
  <2>3. request'[a] = [pc |-> "commit", key |-> request[a].key, new |-> request[a].new,
                       done |-> done]
    BY <1>1, <2>1, PcAndDone
  <2>4. \A j \in Keys : "fulfill" \in ledger'[j] => "fulfill" \in ledger[j] \/ j = request[a].key
    BY <1>1, <2>1, CallRecords DEF IInv
  <2>5. request[a].key \notin contested =>
          order[request[a].key].status \in {"DELIVERING", "CANCELED", "CANCEL_PENDING"}
    BY <2>2 DEF OnTheWay
  <2>6. FulfillDelivering'
    BY <2>2, <2>4, <2>5 DEF FulfillDelivering
  <2>7. OnTheWay'
    BY <1>1, <1>7, <1>8, <2>2, <2>3, <2>4, <2>5 DEF OnTheWay
  <2> QED
    BY <2>6, <2>7
<1>6. CASE CommitDelivered(a)
  <2>1. /\ request'[a].pc = "idle" /\ UNCHANGED <<ledger, contested>>
        /\ request[a].pc # "idle"
        /\ \A j \in Keys : order'[j].status =
                              IF j = request[a].key THEN "DELIVERED" ELSE order[j].status
    BY <1>1, <1>6, IdleTyped DEF CommitDelivered, IInv, TypeOK
  <2>2. ASSUME NEW c \in Admins, c # a, request[c].pc # "idle", request[c].key \notin contested
        PROVE  order'[request[c].key].status = order[request[c].key].status
    BY <1>1, <1>8, <2>1, <2>2
  <2>3. FulfillDelivering'
    BY <2>1 DEF FulfillDelivering
  <2>4. OnTheWay'
    BY <1>7, <2>1, <2>2 DEF OnTheWay
  <2> QED
    BY <2>3, <2>4
<1> QED
  BY <1>2, <1>3, <1>4, <1>5, <1>6 DEF AdminStep

(* The entry a run fulfills is of an order whose delivery is over, which   *)
(* nobody takes a step back.                                               *)
LEMMA RetryOut ==
    ASSUME IInv, OutInv, NEW t \in Retries, RetryStep(t) \/ RetryDies(t)
    PROVE  OutInv'
<1> USE DEF OutInv
<1>1. /\ UNCHANGED <<request, contested>>
      /\ \A e \in EntryIds : entry[e].key \in Keys
      /\ \A a \in Admins : request[a].key \in Keys
  BY DEF RetryStep, RetryDies, ListPending, ReadOrder, RetryFulfill, SaveFulfilled, MarkEntry,
         IInv, TypeOK, Entry, Requests, RequestState
<1>2. \A k \in Keys : order'[k].status = order[k].status
  <2>1. CASE UNCHANGED order
    BY <2>1
  <2>2. CASE \E e \in EntryIds : SaveFulfilled(t, e)
    BY <1>1, <2>2 DEF SaveFulfilled, IInv, TypeOK
  <2> QED
    BY <2>1, <2>2 DEF RetryStep, RetryDies, ListPending, ReadOrder, RetryFulfill, MarkEntry
<1>3. CASE UNCHANGED ledger
  BY <1>1, <1>2, <1>3 DEF FulfillDelivering, OnTheWay
<1>4. CASE \E e \in EntryIds : RetryFulfill(t, e)
  <2>1. PICK e \in EntryIds, answer \in Answers :
          IsFirst(e, retry[t].todo) /\ Call(entry[e].key, "fulfill", answer)
    BY <1>4 DEF RetryFulfill
  <2>2. Used(e)
    BY <2>1 DEF IsFirst, IInv, TodoUsed
  <2>3. \A j \in Keys : "fulfill" \in ledger'[j] => "fulfill" \in ledger[j] \/ j = entry[e].key
    BY <1>1, <2>1, CallRecords DEF IInv
  <2>4. entry[e].key \notin contested =>
          order[entry[e].key].status \in {"DELIVERED", "CANCELED", "CANCEL_PENDING"}
    BY <2>2 DEF IInv, EntriesOver, Canceled
  <2>5. FulfillDelivering'
    BY <1>1, <1>2, <2>3, <2>4 DEF FulfillDelivering
  <2>6. OnTheWay'
    BY <1>1, <1>2, <2>2, <2>3 DEF OnTheWay, IInv, NoEntryBefore
  <2> QED
    BY <2>5, <2>6
<1> QED
  BY <1>3, <1>4 DEF RetryStep, RetryDies, ListPending, ReadOrder, SaveFulfilled, MarkEntry

LEMMA NextOut ==
    ASSUME IInv, OutInv, [Next]_ordersVars
    PROVE  OutInv'
<1>1. CASE \E r \in Requests : Abort(r)
  <2>1. PICK r \in Requests : Abort(r)
    BY <1>1
  <2>2. /\ UNCHANGED <<order, ledger, contested>>
        /\ \A a \in Admins : request'[a] = request[a] \/ request'[a] = Idle
    BY <2>1 DEF Abort, Become, IInv, TypeOK, Requests
  <2>3. FulfillDelivering'
    BY <2>2 DEF OutInv, FulfillDelivering
  <2>4. OnTheWay'
    BY <2>2, IdleTyped DEF OutInv, OnTheWay
  <2> QED
    BY <2>3, <2>4 DEF OutInv
<1>2. CASE UNCHANGED ordersVars
  BY <1>2 DEF ordersVars, OutInv, FulfillDelivering, OnTheWay
<1> QED
  BY <1>1, <1>2, CustomerOut, AdminOut, RetryOut DEF Next

(* A request that saves a cancel is the only one that moves.               *)
LEMMA CancelSaved ==
    ASSUME IInv, Next, NEW k \in Keys, NEW b \in Buyers,
           request[b].pc = "save", request[b].key = k,
           order'[k].status = "CANCELED", request'[b] # request[b],
           order[k].status # "CANCELED"
    PROVE  "unreserve" \in ledger[k]
<1>1. b \in Requests /\ b \notin Admins
  BY DEF Requests
<1>2. \A r \in Requests : r # b => \A next : ~Become(r, next)
  BY <1>1 DEF Become, IInv, TypeOK
<1>3. ~UNCHANGED request /\ ~UNCHANGED order
  OBVIOUS
<1>4. SaveStatus(b)
  <2>1. ASSUME NEW c \in Buyers, CustomerStep(c)
        PROVE  SaveStatus(b)
    <3>1. c = b
      BY <1>2, <2>1 DEF Requests, CustomerStep, Checkout, Cancel, ReserveStock, TakeReserve,
         RejectPromo, PlaceOrder, LoseRace, Unreserve, SaveStatus
    <3> QED
      BY <2>1, <3>1 DEF CustomerStep, Checkout, Cancel, ReserveStock, RejectPromo, PlaceOrder,
         LoseRace, Unreserve
  <2>2. ASSUME NEW a \in Admins
        PROVE  ~AdminStep(a)
    BY <1>1, <1>2 DEF Requests, AdminStep, Patch, SaveStatus, SaveDelivered, FulfillDelivered,
                      CommitDelivered
  <2>3. \A r \in Requests : ~Abort(r)
    BY <1>3 DEF Abort
  <2>4. \A t \in Retries : ~RetryStep(t) /\ ~RetryDies(t)
    BY <1>3 DEF RetryStep, RetryDies, ListPending, ReadOrder, RetryFulfill, SaveFulfilled,
                MarkEntry
  <2> QED
    BY <2>1, <2>2, <2>3, <2>4 DEF Next
<1>5. request[b].new = "CANCELED"
  BY <1>4 DEF SaveStatus, IInv, TypeOK, OrderRow
<1> QED
  BY <1>5 DEF IInv, CustomerShape

-----------------------------------------------------------------------------
(* The rows and requests keep their shape.                                 *)
THEOREM OrdersTyped == Spec => []TypeOK
<1>1. IInv => TypeOK
  BY DEF IInv
<1> QED
  BY InitInv, NextInv, <1>1, PTL DEF Spec

(* However calls of B2B are lost, refused and repeated and however         *)
(* checkouts, deliveries and retries race, an order exists only when its   *)
(* reserve is recorded, and is fulfilled only when its fulfill is.         *)
THEOREM OrdersBacked == Spec => []LedgerBacks
<1>1. IInv /\ DoneInv => LedgerBacks
  BY DEF IInv, DoneInv, LedgerBacks
<1> QED
  BY InitInv, NextInv, InitDone, NextDone, <1>1, PTL DEF Spec

(* However many runs of retry_pending_fulfill overlap and die and whatever *)
(* cancels are saved, a delivered order that B2B has not fulfilled, and    *)
(* that no two administrators have worked on at once, is waiting to be     *)
(* retried.                                                                *)
THEOREM UnfulfilledRetried == Spec => []FulfillPending
<1>1. IInv => FulfillPending
  BY DEF IInv
<1> QED
  BY InitInv, NextInv, <1>1, PTL DEF Spec

(* B2B is told to give goods out only for an order that was on its way, or *)
(* that two administrators have worked on at once, however deliveries are  *)
(* rolled back and cancels are saved over them.                            *)
THEOREM FulfillsDelivering == Spec => []FulfillDelivering
<1>1. OutInv => FulfillDelivering
  BY DEF OutInv
<1>2. IInv /\ OutInv /\ [Next]_ordersVars => OutInv'
  BY NextOut
<1> QED
  BY InitInv, NextInv, InitOut, <1>1, <1>2, PTL DEF Spec

(* A customer's cancel is saved as CANCELED only when B2B has recorded the *)
(* unreserve, whatever is lost on the way and whoever else works on the    *)
(* order.                                                                  *)
THEOREM CancelsRelease == Spec => CancelReleases
<1> DEFINE Released == \A k \in Keys, b \in Buyers :
             /\ request[b].pc = "save" /\ request[b].key = k
             /\ order'[k].status = "CANCELED" /\ request'[b] # request[b]
             /\ order[k].status # "CANCELED"
             => "unreserve" \in ledger[k]
<1>1. IInv /\ [Next]_ordersVars => [Released]_ordersVars
  BY CancelSaved
<1> QED
  BY InitInv, NextInv, <1>1, PTL DEF Spec, CancelReleases
=============================================================================
