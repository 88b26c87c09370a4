------------------------------- MODULE Inventory -------------------------------
(***************************************************************************)
(* The stock of a seller's product in the B2B service (b2b_api/views.py):  *)
(* reserve, unreserve and fulfill, which the orders service calls and may  *)
(* call again, the seller's edits and deletions, and the invoices that     *)
(* bring new stock.                                                        *)
(*                                                                         *)
(* Reserve, unreserve and fulfill look their operation key up, then lock   *)
(* the SKU rows (and, through the join, the product row), validate, write  *)
(* and record the key in one transaction.  The seller's handlers read      *)
(* without a lock and write what they read: each is two steps here.        *)
(***************************************************************************)
EXTENDS Integers, FiniteSets, FiniteSetsExt

CONSTANTS
    Skus,         \* the SKUs of one product
    Orders,       \* orders; the reserve of an order carries one idempotency key
    Clients,      \* concurrent calls of the orders service
    Sellers,      \* concurrent requests of the seller
    Invoices,     \* invoice ids
    Initial,      \* active_quantity each SKU starts with
    OrderItems,   \* the item lists orders are made of
    InvoiceItems, \* the item lists invoices are made of
    Quantities    \* active_quantity values the seller's edits set

(* An item list, by SKU: the sum of its rows, and its largest row.  They   *)
(* differ when a SKU is listed twice.                                      *)
Rows == [sum : Nat, top : Nat]
NoItems == [s \in Skus |-> [sum |-> 0, top |-> 0]]

(* PUT and DELETE of a SKU, PUT and DELETE of the product.                 *)
SellerOps == {"edit", "delete", "revise", "drop"}

ASSUME InventoryAssumption ==
    /\ Skus # {}
    /\ Orders # {}
    /\ Initial \in Nat
    /\ Quantities \subseteq Nat
    /\ OrderItems \subseteq [Skus -> Rows] \ {NoItems}
    /\ \A items \in OrderItems, s \in Skus :
         /\ items[s].top <= items[s].sum
         /\ items[s].top = 0 => items[s].sum = 0
    /\ InvoiceItems \subseteq [Skus -> Nat]

VARIABLES
    sku,        \* Sku rows
    product,    \* the Product row
    ops,        \* InventoryOperation rows: per key, the items it moved
    client,     \* what each call of the orders service is doing
    seller,     \* what each request of the seller is doing
    invoice     \* Invoice rows

stockVars == <<sku, product, ops, client, seller, invoice>>

Kinds == {"RESERVE", "UNRESERVE", "FULFILL"}
Keys == Kinds \X Orders
Statuses == {"CREATED", "ON_MODERATION", "MODERATED", "BLOCKED", "HARD_BLOCKED"}

SkuRow == [active : Int, reserved : Int, deleted : BOOLEAN]
ProductRow == [status : Statuses, deleted : BOOLEAN]
Fresh == [active |-> Initial, reserved |-> 0, deleted |-> FALSE]
NoInvoice == [status |-> "NONE", items |-> [s \in Skus |-> 0]]

ClientState == [pc : {"idle", "checked"}, kind : Kinds, order : Orders,
                items : [Skus -> Rows]]
SellerState == [pc : {"idle"} \union SellerOps, sku : Skus,
                seen : SkuRow, status : Statuses]

AnOrder == CHOOSE o \in Orders : TRUE
ASku == CHOOSE s \in Skus : TRUE
IdleClient == [pc |-> "idle", kind |-> "RESERVE", order |-> AnOrder, items |-> NoItems]
IdleSeller == [pc |-> "idle", sku |-> ASku, seen |-> Fresh, status |-> "MODERATED"]

TypeOK ==
    /\ sku \in [Skus -> SkuRow]
    /\ product \in ProductRow
    /\ ops \in [Keys -> [Skus -> Rows]]
    /\ client \in [Clients -> ClientState]
    /\ seller \in [Sellers -> SellerState]
    /\ invoice \in [Invoices -> [status : {"NONE", "PENDING", "ACCEPTED"},
                                 items : [Skus -> Nat]]]

Init ==
    /\ sku = [s \in Skus |-> Fresh]
    /\ product = [status |-> "MODERATED", deleted |-> FALSE]
    /\ ops = [k \in Keys |-> NoItems]
    /\ client = [c \in Clients |-> IdleClient]
    /\ seller = [x \in Sellers |-> IdleSeller]
    /\ invoice = [i \in Invoices |-> NoInvoice]

-----------------------------------------------------------------------------
(* Reserve, unreserve, fulfill.                                            *)

NeverRecorded(k) == ops[k] # ops[k]                                     \* mutant
Recorded(k) == ops[k] # NoItems
Key(c) == <<client[c].kind, client[c].order>>
Named(items) == {s \in Skus : items[s].sum > 0}

(* _lock_skus_for_inventory finds every SKU of the list.                   *)
AllFound(items) == \A s \in Named(items) : ~sku[s].deleted
OnSale == product.status = "MODERATED" /\ ~product.deleted

(* Every row is compared with the quantity before any row is applied.      *)
CanReserve(items) ==
    /\ AllFound(items)
    /\ OnSale
    /\ \A s \in Named(items) : sku[s].active >= items[s].top
ReturnUnchecked(items) == AllFound(items)                               \* mutant
CanReturn(items) ==
    /\ AllFound(items)
    /\ \A s \in Named(items) : sku[s].reserved >= items[s].top

(* The key is looked up first; a key that is recorded answers the call     *)
(* with the recorded payload and nothing happens.                          *)
Lookup(c, kind, o, items) ==
    /\ client[c].pc = "idle"
    /\ ~Recorded(<<kind, o>>)
    /\ client' = [client EXCEPT ![c] = [pc |-> "checked", kind |-> kind,
                                        order |-> o, items |-> items]]
    /\ UNCHANGED <<sku, product, ops, seller, invoice>>

(* What the call c does to the stock; the key is inserted as a primary     *)
(* key, so a key recorded since the lookup rolls everything back.          *)
Apply(c, kind, valid, active, reserved) ==
    /\ client[c].pc = "checked"
    /\ client[c].kind = kind
    /\ valid
    /\ ~Recorded(Key(c))
    /\ sku' = [s \in Skus |->
                 [sku[s] EXCEPT !.active = @ + active * client[c].items[s].sum,
                                !.reserved = @ + reserved * client[c].items[s].sum]]
    /\ ops' = [ops EXCEPT ![Key(c)] = client[c].items]
    /\ client' = [client EXCEPT ![c] = IdleClient]
    /\ UNCHANGED <<product, seller, invoice>>

Reserve(c) == Apply(c, "RESERVE", CanReserve(client[c].items), -1, 1)
Unreserve(c) == Apply(c, "UNRESERVE", CanReturn(client[c].items), 1, -1)
Fulfill(c) == Apply(c, "FULFILL", CanReturn(client[c].items), 0, -1)

(* 400, 409, a duplicate key, a crash: the transaction is rolled back.     *)
GiveUp(c) ==
    /\ client[c].pc = "checked"
    /\ client' = [client EXCEPT ![c] = IdleClient]
    /\ UNCHANGED <<sku, product, ops, seller, invoice>>

-----------------------------------------------------------------------------
(* The seller.                                                             *)

LiveSkus == {s \in Skus : ~sku[s].deleted}
(* A request keeps of what it read what it will write or decide on.        *)
Remember(x, op, s) ==
    /\ seller[x].pc = "idle"
    /\ product.status # "HARD_BLOCKED"
    /\ seller' = [seller EXCEPT ![x] =
                     [pc |-> op, sku |-> s,
                      seen |-> IF op = "edit" THEN sku[s] ELSE Fresh,
                      status |-> IF op = "drop" THEN "MODERATED" ELSE product.status]]
    /\ UNCHANGED <<sku, product, ops, client, invoice>>

(* PUT /skus/{id}: the row is read ...                                     *)
EditRead(x, s) == ~sku[s].deleted /\ Remember(x, "edit", s)

(* ... and all its columns are saved, the ones that were only read too; a  *)
(* product that was on sale or blocked goes to moderation.                 *)
EditWrite(x, quantity) ==
    /\ seller[x].pc = "edit"
    /\ sku' = [sku EXCEPT ![seller[x].sku] = [seller[x].seen EXCEPT !.active = quantity]]
    /\ product' = IF seller[x].status \in {"MODERATED", "BLOCKED"}
                  THEN [product EXCEPT !.status = "ON_MODERATION"] ELSE product
    /\ seller' = [seller EXCEPT ![x] = IdleSeller]
    /\ UNCHANGED <<ops, client, invoice>>

(* PUT /products/{id}: likewise for the product row.                       *)
ReviseRead(x) == ~product.deleted /\ Remember(x, "revise", ASku)

ReviseWrite(x) ==
    /\ seller[x].pc = "revise"
    /\ product' = [status |-> IF seller[x].status \in {"MODERATED", "BLOCKED"}
                              THEN "ON_MODERATION" ELSE seller[x].status,
                   deleted |-> FALSE]
    /\ seller' = [seller EXCEPT ![x] = IdleSeller]
    /\ UNCHANGED <<sku, ops, client, invoice>>

(* DELETE /skus/{id}: 409 while the row that was read has reserves.        *)
DeleteRead(x, s) ==
    /\ ~sku[s].deleted
    /\ sku[s].reserved <= 0
    /\ Remember(x, "delete", s)

DeleteWrite(x) ==
    /\ seller[x].pc = "delete"
    /\ sku' = [sku EXCEPT ![seller[x].sku] = [@ EXCEPT !.deleted = TRUE, !.active = 0]]
    /\ product' = IF seller[x].status = "ON_MODERATION"
                     /\ LiveSkus \ {seller[x].sku} = {}
                  THEN [product EXCEPT !.status = "CREATED"] ELSE product
    /\ seller' = [seller EXCEPT ![x] = IdleSeller]
    /\ UNCHANGED <<ops, client, invoice>>

(* DELETE /products/{id}: 409 while a live SKU has reserves.               *)
DropRead(x) ==
    /\ ~product.deleted
    /\ \A s \in LiveSkus : sku[s].reserved <= 0
    /\ Remember(x, "drop", ASku)

DropWrite(x) ==
    /\ seller[x].pc = "drop"
    /\ sku' = [s \in Skus |-> IF s \in LiveSkus
                              THEN [sku[s] EXCEPT !.deleted = TRUE, !.active = 0]
                              ELSE sku[s]]
    /\ product' = [product EXCEPT !.deleted = TRUE]
    /\ seller' = [seller EXCEPT ![x] = IdleSeller]
    /\ UNCHANGED <<ops, client, invoice>>

(* POST /invoices accepts live SKUs of a MODERATED product ...             *)
CreateInvoice(i, items) ==
    /\ invoice[i].status = "NONE"
    /\ \A s \in Skus : items[s] > 0 => ~sku[s].deleted /\ OnSale
    /\ invoice' = [invoice EXCEPT ![i] = [status |-> "PENDING", items |-> items]]
    /\ UNCHANGED <<sku, product, ops, client, seller>>

(* ... and accepting one, under the lock of the invoice row, adds its      *)
(* quantities whatever has become of the SKUs.                             *)
AcceptInvoice(i) ==
    /\ invoice[i].status = "PENDING"
    /\ sku' = [s \in Skus |-> [sku[s] EXCEPT !.active = @ + invoice[i].items[s]]]
    /\ invoice' = [invoice EXCEPT ![i].status = "ACCEPTED"]
    /\ UNCHANGED <<product, ops, client, seller>>

(* A decision of the moderation service: applied whatever the product's    *)
(* status has become.                                                      *)
ModerateApproved(status) ==                                             \* mutant
    /\ product' = [product EXCEPT !.status = IF @ = "HARD_BLOCKED" THEN "APPROVED"
                                                               ELSE status]
    /\ UNCHANGED <<sku, ops, client, seller, invoice>>
Moderate(status) ==
    /\ product' = [product EXCEPT !.status = status]
    /\ UNCHANGED <<sku, ops, client, seller, invoice>>

-----------------------------------------------------------------------------
ClientStep(c) ==
    \/ \E kind \in Kinds, o \in Orders, items \in OrderItems : Lookup(c, kind, o, items)
    \/ Reserve(c)
    \/ Unreserve(c)
    \/ Fulfill(c)
    \/ GiveUp(c)

SellerStep(x) ==
    \/ \E s \in Skus : EditRead(x, s) \/ DeleteRead(x, s)
    \/ \E quantity \in Quantities \union {seller[x].seen.active} : EditWrite(x, quantity)
    \/ ReviseRead(x)
    \/ DropRead(x)
    \/ DeleteWrite(x)
    \/ ReviseWrite(x)
    \/ DropWrite(x)

Next ==
    \/ \E c \in Clients : ClientStep(c)
    \/ \E x \in Sellers : SellerStep(x)
    \/ \E i \in Invoices, items \in InvoiceItems : CreateInvoice(i, items)
    \/ \E i \in Invoices : AcceptInvoice(i)
    \/ \E status \in {"MODERATED", "BLOCKED", "HARD_BLOCKED"} : Moderate(status)

Spec == Init /\ [][Next]_stockVars

-----------------------------------------------------------------------------
(* Properties.                                                             *)

(* Item lists that name a SKU once, as the orders service sends them       *)
(* (_normalize_items).                                                     *)
DistinctRows == \A items \in OrderItems, s \in Skus : items[s].top = items[s].sum

(* The columns the contract bounds below (active_quantity and              *)
(* reserved_quantity, "minimum: 0") never go below zero, though edits save *)
(* quantities read before the reserves that have happened since.           *)
NonNegative == \A s \in Skus : sku[s].active >= 0 /\ sku[s].reserved >= 0

(* What the recorded operations of one kind moved of SKU s, and what the   *)
(* accepted invoices brought.                                              *)
Moved(kind, s) == MapThenSumSet(LAMBDA o : ops[<<kind, o>>][s].sum, Orders)
Brought(s) ==
    MapThenSumSet(LAMBDA i : invoice[i].items[s],
                  {i \in Invoices : invoice[i].status = "ACCEPTED"})

(* Where the books put the quantities of SKU s, up to what the seller's    *)
(* own requests set.                                                       *)
BookedReserved(s) == Moved("RESERVE", s) - Moved("UNRESERVE", s) - Moved("FULFILL", s)
BookedActive(s) == Brought(s) - Moved("RESERVE", s) + Moved("UNRESERVE", s)

(* However calls are repeated, raced and rolled back, no step other than a *)
(* request of the seller moves a quantity without booking it, or books an  *)
(* operation or an invoice without moving the quantity.                    *)
Accounted ==
    [][seller' = seller =>
         \A s \in Skus :
           /\ sku'[s].reserved - sku[s].reserved = BookedReserved(s)' - BookedReserved(s)
           /\ sku'[s].active - sku[s].active = BookedActive(s)' - BookedActive(s)]_stockVars

(* Editing a SKU leaves its reserves alone: what is reserved is what the   *)
(* orders reserved and have not given back or received                     *)
(* (test_reserves_preserved_after_sku_edit).                               *)
ReservesPreserved == \A s \in Skus : sku[s].reserved = BookedReserved(s)
=============================================================================
