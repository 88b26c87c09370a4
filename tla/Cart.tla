---------------------------------- MODULE Cart ----------------------------------
(***************************************************************************)
(* The cart service (cart_api) for one customer: the cart of the user, the *)
(* cart of the guest session, and the requests that change them.  A        *)
(* request that carries both identities first merges the session's cart    *)
(* into the user's.                                                        *)
(*                                                                         *)
(* Adding and changing an item are transactions; every other request       *)
(* commits statement by statement, its merge included.  Statements read    *)
(* what is committed and what their own transaction wrote; a row another   *)
(* open transaction wrote is waited for.                                   *)
(*                                                                         *)
(* Left out: products, prices and the unavailable_reason column, which     *)
(* events write and no response reads.  A user's cart row, never deleted,  *)
(* is taken to exist.  What the catalog answers is open.                   *)
(***************************************************************************)
EXTENDS Naturals, FiniteSets

CONSTANTS
    Skus,
    Requests,    \* requests of the customer under way at once
    MaxItems,    \* bound: CartItem rows, the deleted ones still referred to included
    MaxCarts,    \* bound: the user's cart, the session's and the deleted ones referred to
    MaxQty,      \* bound: the stock, and so the quantity of an item
    MaxArrivals  \* bound: requests that ever arrive

ASSUME CartAssumption ==
    /\ Skus # {}
    /\ MaxItems \in Nat \ {0}
    /\ MaxCarts \in Nat \ {0, 1}
    /\ MaxQty \in Nat \ {0}
    /\ MaxArrivals \in Nat

VARIABLES
    item,      \* the committed CartItem rows, by id
    session,   \* the session's cart, the next one to be created if there is none
    request,   \* what each request is doing
    writes,    \* per request, the rows its open transaction has written or locked
    arrivals,  \* requests that have arrived
    chosen,    \* per SKU, every quantity an add or a change has written (history)
    touched    \* an add, change, removal or clearing was committed beside a merge (history)

cartVars == <<item, session, request, writes, arrivals, chosen, touched>>

ItemIds == 1..MaxItems
Carts == 1..MaxCarts
UserCart == 1
NoCart == 0                         \* cart of a row that does not exist
NoRow == 0
Quantities == 1..MaxQty
AnySku == CHOOSE s \in Skus : TRUE

CartItem == [cart : Carts \union {NoCart}, sku : Skus, quantity : Quantities]
NoItem == [cart |-> NoCart, sku |-> AnySku, quantity |-> 1]

(* The items of the session's cart still to be merged, as they were listed *)
GuestItem == [id : ItemIds, sku : Skus, quantity : Quantities]

(* row, new: the row the next statement writes and its quantity.           *)
(* dropped: the open transaction has deleted cart.                         *)
RequestState ==
    [pc : {"idle", "list", "find", "save", "move", "work", "write"},
     who : {"guest", "user", "both"},
     op : {"look", "clear", "add", "change", "remove"},
     sku : Skus, asked : Quantities,
     merges : 1..2, cart : Carts, todo : SUBSET GuestItem,
     row : ItemIds \union {NoRow}, new : 1..(2 * MaxQty), dropped : BOOLEAN]

NoWrites == [i \in {} |-> NoItem]
Idle == [pc |-> "idle", who |-> "guest", op |-> "look", sku |-> AnySku, asked |-> 1,
         merges |-> 1, cart |-> UserCart, todo |-> {}, row |-> NoRow, new |-> 1,
         dropped |-> FALSE]

(* Every field of every row and of every request has a value it can have:  *)
(* carts and quantities in range, written rows among the rows there are.   *)
TypeOK ==
    /\ item \in [ItemIds -> CartItem]
    /\ session \in Carts \ {UserCart}
    /\ request \in [Requests -> RequestState]
    /\ DOMAIN writes = Requests
    /\ \A r \in Requests : /\ DOMAIN writes[r] \subseteq ItemIds
                           /\ writes[r] \in [DOMAIN writes[r] -> CartItem]
    /\ arrivals \in 0..MaxArrivals
    /\ chosen \in [Skus -> SUBSET Quantities]
    /\ touched \in BOOLEAN

Init ==
    /\ item = [i \in ItemIds |-> NoItem]
    /\ session = 2
    /\ request = [r \in Requests |-> Idle]
    /\ writes = [r \in Requests |-> NoWrites]
    /\ arrivals = 0
    /\ chosen = [s \in Skus |-> {}]
    /\ touched = FALSE

-----------------------------------------------------------------------------
(* Statements and transactions.                                            *)

Transaction(r) == request[r].op \in {"add", "change"}
Others(r) == Requests \ {r}

Overlay(rows, under) ==
    [i \in ItemIds |-> IF i \in DOMAIN rows THEN rows[i] ELSE under[i]]
Seen(r) == Overlay(writes[r], item)

(* The rows of a cart that r sees, and those of one SKU.                   *)
ItemsOf(r, c) == {i \in ItemIds : Seen(r)[i].cart = c}
Holding(r, c, s) == {i \in ItemsOf(r, c) : Seen(r)[i].sku = s}

NeverLocked(r, i) == r \in Requests /\ i \in ItemIds                   \* mutant
RowFree(r, i) == \A o \in Others(r) : i \notin DOMAIN writes[o]

(* No open transaction has written a row of SKU s into or out of cart c:   *)
(* where the unique constraint (cart, sku) would have to wait for it.      *)
PlaceFree(r, c, s) ==
    \A o \in Others(r) : \A i \in DOMAIN writes[o] :
        /\ ~(writes[o][i].cart = c /\ writes[o][i].sku = s)
        /\ ~(item[i].cart = c /\ item[i].sku = s)

(* No open transaction has deleted cart c, or put a row into it.           *)
CartKept(r, c) == \A o \in Others(r) : request[o].dropped => request[o].cart # c
CartUnused(r, c) == \A o \in Others(r) : \A i \in DOMAIN writes[o] : writes[o][i].cart # c

Merged(rows, more) ==
    [i \in DOMAIN rows \union DOMAIN more |-> IF i \in DOMAIN rows THEN rows[i] ELSE more[i]]

(* One statement of r that writes rows, after which r goes on as next.     *)
Write(r, rows, next) ==
    /\ \A i \in DOMAIN rows : RowFree(r, i)
    /\ request' = [request EXCEPT ![r] = next]
    /\ IF Transaction(r)
       THEN writes' = [writes EXCEPT ![r] = Merged(rows, @)] /\ UNCHANGED item
       ELSE item' = Overlay(rows, item) /\ UNCHANGED writes

(* An id, or a cart, that no row and no request refers to.                 *)
UnusedItem(i) ==
    /\ item[i].cart = NoCart
    /\ \A o \in Requests : /\ request[o].row # i
                           /\ i \notin DOMAIN writes[o]
                           /\ \A g \in request[o].todo : g.id # i
NewItem == {i \in ItemIds : UnusedItem(i) /\ \A j \in 1..(i - 1) : ~UnusedItem(j)}
UnusedCart(c) == c \notin {UserCart, session} /\ \A o \in Requests : request[o].cart # c
NewCart == {c \in Carts : UnusedCart(c) /\ \A d \in 1..(c - 1) : ~UnusedCart(d)}

(* The session's cart is deleted; the next request that needs one creates  *)
(* another.                                                                *)
Replaced(c) == IF session = c THEN session' \in NewCart ELSE UNCHANGED session

(* The end of a request: its transaction, if any, is committed.            *)
Commit(r, rows) ==
    /\ item' = Overlay(rows, item)
    /\ IF request[r].dropped THEN Replaced(request[r].cart) ELSE UNCHANGED session
    /\ request' = [request EXCEPT ![r] = Idle]
    /\ writes' = [writes EXCEPT ![r] = NoWrites]

Merging == \E o \in Requests : request[o].pc # "idle" /\ request[o].who = "both"
Quiet == touched' = (touched /\ Merging) /\ UNCHANGED <<arrivals, chosen>>
Touch == touched' = TRUE /\ UNCHANGED arrivals
Choose(s, q) == chosen' = [chosen EXCEPT ![s] = @ \union {q}]

-----------------------------------------------------------------------------
(* A request arrives.  Changing or removing an item merges twice.  One     *)
(* that only reads and has nothing to merge is left out.                   *)
Begin(r, who, op, s, q) ==
    /\ request[r].pc = "idle"
    /\ arrivals < MaxArrivals
    /\ arrivals' = arrivals + 1
    /\ op = "look" => who = "both"
    /\ op \in {"look", "clear"} => s = AnySku
    /\ op \notin {"add", "change"} => q = 1
    /\ request' = [request EXCEPT ![r] =
         [Idle EXCEPT !.pc = IF who = "both" THEN "list" ELSE "work",
                      !.who = who, !.op = op, !.sku = s, !.asked = q,
                      !.merges = IF op \in {"change", "remove"} THEN 2 ELSE 1]]
    /\ touched' = (touched /\ Merging)
    /\ UNCHANGED <<item, session, writes, chosen>>

OwnCart(r) == IF request[r].who = "guest" THEN session ELSE UserCart

-----------------------------------------------------------------------------
(* The merge.                                                              *)

CountedDown(req) ==                                                     \* mutant
    [req EXCEPT !.pc = IF req.merges = 2 THEN "list" ELSE "work", !.merges = @ - 1]
AfterMerge(req) ==
    IF req.merges = 2 THEN [req EXCEPT !.pc = "list", !.merges = 1]
                      ELSE [req EXCEPT !.pc = "work"]

NoSessionCart(r) ==
    /\ request[r].pc = "list"
    /\ request[r].dropped \/ ItemsOf(r, session) = {}
    /\ request' = [request EXCEPT ![r] = AfterMerge(@)]
    /\ Quiet
    /\ UNCHANGED <<item, session, writes>>

ListGuestItems(r) ==
    /\ request[r].pc = "list"
    /\ ~request[r].dropped
    /\ request' = [request EXCEPT ![r].pc = "find", ![r].cart = session,
         ![r].todo = {[id |-> i, sku |-> Seen(r)[i].sku, quantity |-> Seen(r)[i].quantity] :
                        i \in ItemsOf(r, session)}]
    /\ Quiet
    /\ UNCHANGED <<item, session, writes>>

SummedQuantity(target, guest) == target + guest                         \* mutant
GuestsQuantity(target, guest) == guest                                  \* mutant
MergedQuantity(target, guest) == IF guest > target THEN guest ELSE target

(* One item of the list: the user's item of the same SKU is read, without  *)
(* a lock; it has to be raised, or the guest's item moved, or neither.     *)
FindTarget(r) ==
    /\ request[r].pc = "find"
    /\ \E g \in request[r].todo :
         LET next == [request[r] EXCEPT !.todo = @ \ {g}]
             targets == Holding(r, UserCart, g.sku)
         IN  \/ /\ targets = {}
                /\ request' = [request EXCEPT ![r] = [next EXCEPT !.pc = "move", !.row = g.id]]
             \/ \E t \in targets :
                  LET old == Seen(r)[t].quantity
                      new == MergedQuantity(old, g.quantity)
                  IN  request' = [request EXCEPT ![r] =
                        IF new = old THEN next
                        ELSE [next EXCEPT !.pc = "save", !.row = t, !.new = new]]
    /\ Quiet
    /\ UNCHANGED <<item, session, writes>>

(* A row that no longer exists makes the statement, and so the request,    *)
(* fail; so does a move to a cart that has an item of the SKU by now.      *)
SaveTarget(r) ==
    LET i == request[r].row
    IN  /\ request[r].pc = "save"
        /\ Seen(r)[i].cart # NoCart
        /\ Write(r, [j \in {i} |-> [Seen(r)[i] EXCEPT !.quantity = request[r].new]],
                 [request[r] EXCEPT !.pc = "find", !.row = NoRow, !.new = 1])
        /\ Quiet
        /\ UNCHANGED session

MoveGuestItem(r) ==
    LET i == request[r].row
    IN  /\ request[r].pc = "move"
        /\ Seen(r)[i].cart # NoCart
        /\ PlaceFree(r, UserCart, Seen(r)[i].sku)
        /\ Holding(r, UserCart, Seen(r)[i].sku) \subseteq {i}
        /\ Write(r, [j \in {i} |-> [Seen(r)[i] EXCEPT !.cart = UserCart]],
                 [request[r] EXCEPT !.pc = "find", !.row = NoRow, !.new = 1])
        /\ Quiet
        /\ UNCHANGED session

(* The session's cart is deleted with whatever items it has by then.       *)
DropSessionCart(r) ==
    LET c == request[r].cart
        next == AfterMerge(request[r])
    IN  /\ request[r].pc = "find"
        /\ request[r].todo = {}
        /\ CartKept(r, c)
        /\ CartUnused(r, c)
        /\ Write(r, [i \in ItemsOf(r, c) |-> NoItem],
                 IF Transaction(r) /\ session = c THEN [next EXCEPT !.dropped = TRUE]
                                                  ELSE [next EXCEPT !.cart = UserCart])
        /\ IF Transaction(r) THEN UNCHANGED session ELSE Replaced(c)
        /\ Quiet

-----------------------------------------------------------------------------
(* What was asked for.                                                     *)

(* The cart is read, or the request is refused: the item or the SKU is not *)
(* found, the catalog does not answer, or the stock is too small.  What a  *)
(* transaction has written by then is committed all the same.              *)
Answer(r) ==
    /\ \/ request[r].pc = "work" /\ request[r].op # "clear"
       \/ request[r].pc = "write" /\ request[r].op = "change"
    /\ Commit(r, writes[r])
    /\ Quiet

ClearCart(r) ==
    /\ request[r].pc = "work"
    /\ request[r].op = "clear"
    /\ Write(r, [i \in ItemsOf(r, OwnCart(r)) |-> NoItem], Idle)
    /\ Touch
    /\ UNCHANGED <<session, chosen>>

(* get_or_create with the row locked: the quantity is the one it has now.  *)
LockItem(r) ==
    LET c == OwnCart(r)
        s == request[r].sku
        n == request[r].asked
    IN  /\ request[r].pc = "work"
        /\ request[r].op = "add"
        /\ PlaceFree(r, c, s)
        /\ \/ \E i \in Holding(r, c, s) :
                Write(r, [j \in {i} |-> Seen(r)[i]],
                      [request[r] EXCEPT !.pc = "write", !.row = i,
                                         !.new = Seen(r)[i].quantity + n])
           \/ /\ Holding(r, c, s) = {}
              /\ CartKept(r, c)
              /\ \E i \in NewItem :
                   Write(r, [j \in {i} |-> [cart |-> c, sku |-> s, quantity |-> n]],
                         [request[r] EXCEPT !.pc = "write", !.row = i, !.new = n])
        /\ Quiet
        /\ UNCHANGED session

(* A row that was created is committed even if the stock is too small.     *)
AddItem(r) ==
    LET i == request[r].row
        mine == writes[r]
    IN  /\ request[r].pc = "write"
        /\ request[r].op = "add"
        /\ \E enough \in BOOLEAN :
             LET q == IF enough THEN request[r].new ELSE mine[i].quantity
             IN  /\ q \in Quantities
                 /\ Commit(r, [mine EXCEPT ![i].quantity = q])
                 /\ Choose(request[r].sku, q)
        /\ Touch

(* The row to change or to remove is read without a lock.                  *)
FindItem(r) ==
    /\ request[r].pc = "work"
    /\ request[r].op \in {"change", "remove"}
    /\ \E i \in Holding(r, OwnCart(r), request[r].sku) :
         request' = [request EXCEPT ![r].pc = "write", ![r].row = i]
    /\ Quiet
    /\ UNCHANGED <<item, session, writes>>

ChangeItem(r) ==
    LET i == request[r].row
    IN  /\ request[r].pc = "write"
        /\ request[r].op = "change"
        /\ Seen(r)[i].cart # NoCart
        /\ RowFree(r, i)
        /\ Commit(r, Merged([j \in {i} |-> [Seen(r)[i] EXCEPT !.quantity = request[r].asked]],
                            writes[r]))
        /\ Choose(Seen(r)[i].sku, request[r].asked)
        /\ Touch

RemoveItem(r) ==
    /\ request[r].pc = "write"
    /\ request[r].op = "remove"
    /\ Write(r, [j \in {request[r].row} |-> NoItem], Idle)
    /\ Touch
    /\ UNCHANGED <<session, chosen>>

(* A statement fails, two transactions wait for each other, the process    *)
(* dies: the open transaction is rolled back, nothing else is.             *)
Fail(r) ==
    /\ request[r].pc # "idle"
    /\ request' = [request EXCEPT ![r] = Idle]
    /\ writes' = [writes EXCEPT ![r] = NoWrites]
    /\ Quiet
    /\ UNCHANGED <<item, session>>

-----------------------------------------------------------------------------
MergeStep(r) ==
    \/ NoSessionCart(r) \/ ListGuestItems(r) \/ FindTarget(r)
    \/ SaveTarget(r) \/ MoveGuestItem(r) \/ DropSessionCart(r)

WorkStep(r) ==
    \/ Answer(r) \/ ClearCart(r) \/ LockItem(r) \/ AddItem(r)
    \/ FindItem(r) \/ ChangeItem(r) \/ RemoveItem(r)

Next ==
    \E r \in Requests :
        \/ \E who \in {"guest", "user", "both"}, s \in Skus, q \in Quantities,
              op \in {"look", "clear", "add", "change", "remove"} : Begin(r, who, op, s, q)
        \/ MergeStep(r) \/ WorkStep(r) \/ Fail(r)

Spec == Init /\ [][Next]_cartVars

-----------------------------------------------------------------------------
(* Properties.                                                             *)

(* A merge takes the larger of two quantities and never makes up one:      *)
(* every item has a quantity that an add or a change wrote for its SKU,    *)
(* however many merges overlap and whatever they read before.              *)
QuantityChosen ==
    \A i \in ItemIds : item[i].cart # NoCart => item[i].quantity \in chosen[item[i].sku]

(* Adds add up: the quantity an add is about to commit is what the item    *)
(* holds at that moment and what was asked for; no merge, change, removal  *)
(* or other add has come between the read and the write.  (An add that     *)
(* merges first may have lowered the item it counts on: see README.)       *)
AddsCount ==
    \A r \in Requests :
        LET req == request[r]
        IN  /\ req.op = "add" /\ req.who # "both" /\ req.pc = "write"
            /\ item[req.row].cart # NoCart
            => req.new = item[req.row].quantity + req.asked

(* The largest quantity of a SKU in either cart, 0 if there is none.       *)
Largest(rows, s) ==
    LET held == {rows[i].quantity : i \in {j \in ItemIds : rows[j].cart # NoCart /\ rows[j].sku = s}}
    IN  IF held = {} THEN 0 ELSE CHOOSE q \in held : \A p \in held : p <= q

(* Merges that overlap lose nothing: as long as only merges write, no      *)
(* step, a deleted session cart included, lowers what the customer has of  *)
(* a SKU.                                                                  *)
MergesKeepItems ==
    [][~touched' => \A s \in Skus : Largest(item', s) >= Largest(item, s)]_cartVars
=============================================================================
