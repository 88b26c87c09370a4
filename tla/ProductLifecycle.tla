----------------------------- MODULE ProductLifecycle -----------------------------
(***************************************************************************)
(* One product of B2B: its status, its SKUs, the outbox rows the handlers  *)
(* write, and moderation's decisions.                                      *)
(*                                                                         *)
(* A seller's handler reads the product without a lock, checks what it     *)
(* read, and saves later; a decision locks the row before it changes it.   *)
(* A save locks the row until the transaction ends, so what follows the    *)
(* first save of the product, its outbox rows included, is one step.  The  *)
(* ids of outbox rows follow the order of their inserts.                   *)
(***************************************************************************)
EXTENDS Naturals, Sequences, FiniteSets

CONSTANTS
    Skus,      \* SKUs the product may ever have
    Sellers,   \* concurrent requests of the product's seller
    Calls,     \* concurrent calls of moderation, retries included
    Tickets,   \* moderation's cards of the product
    NoDecision,   \* a call that is not under way
    MaxRows    \* bound: outbox rows ever written


VARIABLES
    product,   \* the Product row
    sku,       \* the Sku rows
    outbox,    \* IntegrationOutbox, in the order of the ids
    inbox,     \* IntegrationInbox: the decisions recorded, in order
    seller,    \* what each request of the seller has read
    call       \* the decision each call of moderation carries

lifecycleVars == <<product, sku, outbox, inbox, seller, call>>

Verdicts == {"MODERATED", "BLOCKED", "HARD_BLOCKED"}
Statuses == {"CREATED", "ON_MODERATION"} \union Verdicts
(* A card gives one decision of each kind at most: its key names both.     *)
Decisions == [ticket : Tickets, verdict : Verdicts]

ASSUME LifecycleAssumption ==
    /\ Skus # {}
    /\ MaxRows \in Nat
    /\ NoDecision \notin Decisions

(* explained: blocking_reason is set.                                      *)
ProductRow == [status : Statuses \union {"NONE"}, deleted : BOOLEAN, explained : BOOLEAN]
NoProduct == [status |-> "NONE", deleted |-> FALSE, explained |-> FALSE]
Marked(row, status, explained) ==
    [status |-> status, deleted |-> row.deleted, explained |-> explained]
SkuStates == {"NONE", "live", "deleted"}

(* The rows without a snapshot are for the shops.                          *)
SnapshotEvents == {"CREATED", "EDITED", "DELETED", "UPDATED"}
ShopEvents == {"PRODUCT_BLOCKED", "PRODUCT_DELETED", "SKU_OUT_OF_STOCK"}
OutboxRow == [event : SnapshotEvents \union ShopEvents, snapshot : ProductRow]

Operations == {"idle", "edit", "add sku", "edit sku", "announce", "drop sku", "dropping",
               "withdrawing", "drop"}
(* read: the product as it was read; flag: it had no live SKU, for "add    *)
(* sku"; the SKU was in stock, for "drop sku".                             *)
SellerState == [op : Operations, sku : Skus, read : ProductRow, flag : BOOLEAN]
ASku == CHOOSE k \in Skus : TRUE
IdleSeller == [op |-> "idle", sku |-> ASku, read |-> NoProduct, flag |-> FALSE]

TypeOK ==
    /\ product \in ProductRow
    /\ sku \in [Skus -> SkuStates]
    /\ outbox \in Seq(OutboxRow) /\ Len(outbox) <= MaxRows
    /\ inbox \in Seq(Decisions)
    /\ seller \in [Sellers -> SellerState]
    /\ call \in [Calls -> Decisions \union {NoDecision}]

Init ==
    /\ product = NoProduct
    /\ sku = [k \in Skus |-> "NONE"]
    /\ outbox = <<>>
    /\ inbox = <<>>
    /\ seller = [s \in Sellers |-> IdleSeller]
    /\ call = [c \in Calls |-> NoDecision]

-----------------------------------------------------------------------------
Live == {k \in Skus : sku[k] = "live"}
Row(event, snapshot) == [event |-> event, snapshot |-> snapshot]
ForShops(event) == Row(event, NoProduct)

(* An edit or a deletion has saved the SKU and has not committed.          *)
SkuLocked(k) ==
    \E s \in Sellers : /\ seller[s].op \in {"announce", "dropping", "withdrawing"}
                      /\ seller[s].sku = k

Write(rows) ==
    /\ Len(outbox) + Len(rows) <= MaxRows
    /\ outbox' = outbox \o rows

Start(s, op, k, flag) ==
    /\ seller[s].op = "idle"
    /\ seller' = [seller EXCEPT ![s] = [op |-> op, sku |-> k, read |-> product, flag |-> flag]]
    /\ UNCHANGED <<product, sku, outbox, inbox, call>>
Finish(s) == seller' = [seller EXCEPT ![s] = IdleSeller]

(* What a handler checks of the product before it goes on.                 *)
NotHardBlocked == product.status \notin {"NONE", "HARD_BLOCKED"}
WasDecided(row) == row.status \in {"MODERATED", "BLOCKED"}

(* _set_product_on_moderation with the event it sends.                     *)
SilentPut(event) ==                                                     \* mutant
    /\ product' = Marked(product, "ON_MODERATION", FALSE)
    /\ UNCHANGED outbox
MisnamedPut(event) ==                                                   \* mutant
    /\ product' = Marked(product, "PENDING_MODERATION", FALSE)
    /\ Write(<<Row(event, product')>>)
PutOnModeration(event) ==
    /\ product' = Marked(product, "ON_MODERATION", FALSE)
    /\ Write(<<Row(event, product')>>)

CreateProduct ==
    /\ product = NoProduct
    /\ product' = [NoProduct EXCEPT !.status = "CREATED"]
    /\ Write(<<Row("CREATED", product')>>)
    /\ UNCHANGED <<sku, inbox, seller, call>>

-----------------------------------------------------------------------------
(* Editing the product: the row is saved whole, as it was read.            *)

EditRead(s) == NotHardBlocked /\ ~product.deleted /\ Start(s, "edit", ASku, FALSE)

SavedAnyway(row) == row                                                 \* mutant
SavedAs(row) ==
    IF WasDecided(row) THEN Marked(row, "ON_MODERATION", FALSE) ELSE row

EditWrite(s) ==
    /\ seller[s].op = "edit"
    /\ product' = SavedAs(seller[s].read)
    /\ Write(<<Row("EDITED", product')>>)
    /\ Finish(s)
    /\ UNCHANGED <<sku, inbox, call>>

-----------------------------------------------------------------------------
(* SKUs.                                                                   *)

AddRead(s) ==
    /\ NotHardBlocked /\ ~product.deleted
    /\ Start(s, "add sku", ASku, Live = {})

AddWrite(s, k) ==
    /\ seller[s].op = "add sku"
    /\ sku[k] = "NONE"
    /\ sku' = [sku EXCEPT ![k] = "live"]
    /\ \/ seller[s].flag /\ PutOnModeration("CREATED")
       \/ ~seller[s].flag /\ WasDecided(seller[s].read) /\ PutOnModeration("EDITED")
       \/ ~seller[s].flag /\ ~WasDecided(seller[s].read) /\ UNCHANGED <<product, outbox>>
    /\ Finish(s)
    /\ UNCHANGED <<inbox, call>>

EditSkuRead(s, k) == sku[k] = "live" /\ NotHardBlocked /\ Start(s, "edit sku", k, FALSE)

EditSkuWrite(s) ==
    /\ seller[s].op = "edit sku"
    /\ WasDecided(seller[s].read)
    /\ ~SkuLocked(seller[s].sku)
    /\ sku' = [sku EXCEPT ![seller[s].sku] = "live"]
    /\ PutOnModeration("EDITED")
    /\ Finish(s)
    /\ UNCHANGED <<inbox, call>>

(* The product is not saved, so no lock is held between the snapshot and   *)
(* the insert of the row that carries it.                                  *)
EditSkuSnapshot(s) ==
    /\ seller[s].op = "edit sku"
    /\ ~WasDecided(seller[s].read)
    /\ ~SkuLocked(seller[s].sku)
    /\ seller' = [seller EXCEPT ![s] = [op |-> "announce", sku |-> @.sku, read |-> product,
                                       flag |-> FALSE]]
    /\ UNCHANGED <<product, sku, outbox, inbox, call>>

EditSkuAnnounce(s) ==
    /\ seller[s].op = "announce"
    /\ sku' = [sku EXCEPT ![seller[s].sku] = "live"]
    /\ Write(<<Row("EDITED", seller[s].read)>>)
    /\ Finish(s)
    /\ UNCHANGED <<product, inbox, call>>

DropSkuRead(s, k, inStock) ==
    /\ sku[k] = "live" /\ NotHardBlocked
    /\ Start(s, "drop sku", k, inStock)

(* A product on moderation that loses its last SKU is no longer on         *)
(* moderation: the SKU is saved, others that are live are looked for, and  *)
(* before the product is saved they may have been deleted or added.        *)
DropSkuSave(s) ==
    /\ seller[s].op = "drop sku"
    /\ ~SkuLocked(seller[s].sku)
    /\ seller' = [seller EXCEPT ![s].op =
           IF Live \ {seller[s].sku} = {} /\ seller[s].read.status = "ON_MODERATION"
           THEN "withdrawing" ELSE "dropping"]
    /\ UNCHANGED <<product, sku, outbox, inbox, call>>

DropSkuCommit(s) ==
    /\ sku' = [sku EXCEPT ![seller[s].sku] = "deleted"]
    /\ \/ /\ seller[s].op = "withdrawing"
          /\ product' = Marked(product, "CREATED", product.explained)
          /\ Write(<<Row("DELETED", product')>>)
       \/ /\ seller[s].op = "dropping"
          /\ Write(IF seller[s].flag /\ seller[s].read.status = "MODERATED"
                   THEN <<ForShops("SKU_OUT_OF_STOCK")>> ELSE <<>>)
          /\ UNCHANGED product
    /\ Finish(s)
    /\ UNCHANGED <<inbox, call>>

-----------------------------------------------------------------------------
DropRead(s) == NotHardBlocked /\ ~product.deleted /\ Start(s, "drop", ASku, FALSE)

DropWrite(s) ==
    /\ seller[s].op = "drop"
    /\ \A k \in Live : ~SkuLocked(k)
    /\ sku' = [k \in Skus |-> IF sku[k] = "live" THEN "deleted" ELSE sku[k]]
    /\ product' = [product EXCEPT !.deleted = TRUE]
    /\ Write(<<Row("DELETED", product'), ForShops("PRODUCT_DELETED")>>)
    /\ Finish(s)
    /\ UNCHANGED <<inbox, call>>

(* The transaction fails, or the process dies.                             *)
SellerFails(s) ==
    /\ seller[s].op # "idle"
    /\ Finish(s)
    /\ UNCHANGED <<product, sku, outbox, inbox, call>>

-----------------------------------------------------------------------------
(* Moderation's decisions.                                                 *)

Recorded(d) == \E i \in DOMAIN inbox : inbox[i] = d

(* A decision found in the inbox is answered and changes nothing.          *)
Deliver(c, d) ==
    /\ call[c] = NoDecision
    /\ product.status # "NONE"
    /\ ~Recorded(d)
    /\ call' = [call EXCEPT ![c] = d]
    /\ UNCHANGED <<product, sku, outbox, inbox, seller>>

DecisionRows(verdict, snapshot) ==
    IF verdict = "MODERATED"
    THEN <<Row("UPDATED", snapshot)>>
    ELSE <<Row("UPDATED", snapshot), ForShops("PRODUCT_BLOCKED")>>

(* The inbox row comes after the save of the product.  The unique key of a *)
(* decision recorded since the lookup fails the transaction, the save with *)
(* it.                                                                     *)
SwallowDuplicate(d) ==                                                  \* mutant
    /\ product' = Marked(product, d.verdict, d.verdict # "MODERATED")
    /\ IF Recorded(d)
       THEN UNCHANGED <<outbox, inbox>>
       ELSE inbox' = Append(inbox, d) /\ Write(DecisionRows(d.verdict, product'))
AnnounceFirst(d) ==                                                     \* mutant
    /\ product' = Marked(product, d.verdict, d.verdict # "MODERATED")
    /\ inbox' = IF Recorded(d) THEN inbox ELSE Append(inbox, d)
    /\ Write(DecisionRows(d.verdict, product'))
UnexplainedBlock(d) ==                                                  \* mutant
    /\ ~Recorded(d)
    /\ product' = [product EXCEPT !.status = d.verdict]
    /\ inbox' = Append(inbox, d)
    /\ Write(DecisionRows(d.verdict, product'))
Apply(d) ==
    /\ ~Recorded(d)
    /\ product' = Marked(product, d.verdict, d.verdict # "MODERATED")
    /\ inbox' = Append(inbox, d)
    /\ Write(DecisionRows(d.verdict, product'))

Decide(c) ==
    /\ call[c] # NoDecision
    /\ Apply(call[c])
    /\ call' = [call EXCEPT ![c] = NoDecision]
    /\ UNCHANGED <<sku, seller>>

CallFails(c) ==
    /\ call[c] # NoDecision
    /\ call' = [call EXCEPT ![c] = NoDecision]
    /\ UNCHANGED <<product, sku, outbox, inbox, seller>>

-----------------------------------------------------------------------------
SellerStep(s) ==
    \/ EditRead(s) \/ EditWrite(s) \/ AddRead(s) \/ DropRead(s) \/ DropWrite(s)
    \/ EditSkuWrite(s) \/ EditSkuSnapshot(s) \/ EditSkuAnnounce(s)
    \/ DropSkuSave(s) \/ DropSkuCommit(s) \/ SellerFails(s)
    \/ \E k \in Skus :
         \/ AddWrite(s, k) \/ EditSkuRead(s, k)
         \/ \E inStock \in BOOLEAN : DropSkuRead(s, k, inStock)
CallStep(c) == Decide(c) \/ CallFails(c) \/ \E d \in Decisions : Deliver(c, d)

Next ==
    \/ CreateProduct
    \/ \E s \in Sellers : SellerStep(s)
    \/ \E c \in Calls : CallStep(c)

Spec == Init /\ [][Next]_lifecycleVars

-----------------------------------------------------------------------------
(* Properties.                                                             *)

(* Sellers save rows they read long ago, and decisions are delivered twice *)
(* at once: still, a product that is on sale or blocked is so because the  *)
(* last decision recorded says it.                                         *)
DecisionStands ==
    product.status \in Verdicts =>
        inbox # <<>> /\ product.status = inbox[Len(inbox)].verdict

(* The rows that announce decisions are the recorded decisions, each once  *)
(* and in their order: there are as many, and the n-th row announces the   *)
(* n-th decision.                                                          *)
Announcing(last) == {i \in 1..last : outbox[i].event = "UPDATED"}
DecisionsAnnounced ==
    /\ Cardinality(Announcing(Len(outbox))) = Len(inbox)
    /\ \A i \in Announcing(Len(outbox)) :
         outbox[i].snapshot.status = inbox[Cardinality(Announcing(i))].verdict

(* A seller whose product is blocked is told why, whatever stale row a     *)
(* concurrent edit has saved.                                              *)
BlockExplained == product.status \in {"BLOCKED", "HARD_BLOCKED"} => product.explained

(* No handler changes the product without a row that carries the change.   *)
NoSilentChange ==
    [][product' # product =>
         \E i \in DOMAIN outbox' :
           i > Len(outbox) /\ outbox'[i].event \in SnapshotEvents
           /\ outbox'[i].snapshot = product']_lifecycleVars

(* B2B keeps the promise of DecisionLog: what a seller does only opens the *)
(* question again.                                                         *)
Log == INSTANCE DecisionLog WITH
           Decisions <- Decisions, log <- inbox,
           standing <- IF product.status \in Verdicts THEN product.status ELSE "open"
ImplementsLog == Log!Spec
=============================================================================
