------------------------- MODULE ProductLifecycle_proofs -------------------------
(* What holds of a product for any number of SKUs, concurrent requests,    *)
(* calls and cards.                                                        *)
EXTENDS ProductLifecycle, FiniteSetTheorems, TLAPS

USE LifecycleAssumption

(* A seller's edit goes on only with a product that was not hard-blocked   *)
(* when it was read.                                                       *)
ReadAllowed ==
    \A s \in Sellers :
        seller[s].op = "edit" => seller[s].read.status \notin {"NONE", "HARD_BLOCKED"}

(* DecisionStands survives the save of a row read long ago because a row   *)
(* whose status is a verdict is saved as ON_MODERATION: HARD_BLOCKED, the  *)
(* one verdict that is not, is never saved again, by ReadAllowed.          *)
IInv ==
    /\ TypeOK
    /\ ReadAllowed
    /\ DecisionStands
    /\ DecisionsAnnounced
    /\ BlockExplained

(* What a step that decides nothing does to the product: it leaves the     *)
(* verdict alone, or takes the product out of it.                          *)
Unjudged ==
    \/ product'.status \notin Verdicts
    \/ product'.status = product.status /\ product'.explained = product.explained

(* What such a step writes: rows that announce no decision and, if it      *)
(* changes the product, one that carries the change.                       *)
Undecided(rows) == \A i \in DOMAIN rows : rows[i].event # "UPDATED"
Carries(rows) ==
    product' # product =>
        \E i \in DOMAIN rows : rows[i].event \in SnapshotEvents /\ rows[i].snapshot = product'
Told ==
    \E rows \in Seq(OutboxRow) :
        outbox' = outbox \o rows /\ Undecided(rows) /\ Carries(rows)

-----------------------------------------------------------------------------
LEMMA NoProductTyped == NoProduct \in ProductRow
  BY DEF NoProduct, ProductRow

LEMMA IdleTyped == IdleSeller \in SellerState /\ IdleSeller.op = "idle" /\ ASku \in Skus
  BY NoProductTyped DEF IdleSeller, SellerState, Operations, ASku

LEMMA MarkedTyped ==
    ASSUME NEW row \in ProductRow, NEW status \in Statuses, NEW explained \in BOOLEAN
    PROVE  /\ Marked(row, status, explained) \in ProductRow
           /\ Marked(row, status, explained).status = status
           /\ Marked(row, status, explained).explained = explained
<1>1. row.deleted \in BOOLEAN
  BY DEF ProductRow
<1> QED
  BY <1>1 DEF Marked, ProductRow

LEMMA RowTyped ==
    ASSUME NEW event \in SnapshotEvents \union ShopEvents, NEW row \in ProductRow
    PROVE  Row(event, row) \in OutboxRow
  BY DEF Row, OutboxRow

LEMMA ShopRowTyped ==
    ASSUME NEW event \in ShopEvents
    PROVE  ForShops(event) \in OutboxRow
  BY RowTyped, NoProductTyped DEF ForShops

(* The outbox stays typed and within its bound.                            *)
OutboxTyped == outbox \in Seq(OutboxRow) /\ Len(outbox) <= MaxRows

LEMMA WriteTyped ==
    ASSUME TypeOK, NEW rows \in Seq(OutboxRow), Write(rows)
    PROVE  OutboxTyped'
<1>1. outbox \in Seq(OutboxRow)
  BY DEF TypeOK
<1>2. outbox \o rows \in Seq(OutboxRow) /\ Len(outbox \o rows) = Len(outbox) + Len(rows)
  BY <1>1
<1> QED
  BY <1>2 DEF Write, OutboxTyped

LEMMA EmptyTyped == <<>> \in Seq(OutboxRow)
  OBVIOUS

LEMMA NothingTold ==
    ASSUME TypeOK, UNCHANGED <<product, outbox>>
    PROVE  Told
<1>1. outbox = outbox \o <<>>
  BY DEF TypeOK
<1>2. Undecided(<<>>) /\ Carries(<<>>)
  BY DEF Undecided, Carries
<1> QED
  BY <1>1, <1>2, EmptyTyped DEF Told

LEMMA RowTold ==
    ASSUME NEW event \in SnapshotEvents \ {"UPDATED"}, product' \in ProductRow,
           Write(<<Row(event, product')>>)
    PROVE  Told
<1> DEFINE rows == <<Row(event, product')>>
<1>1. rows \in Seq(OutboxRow)
  BY RowTyped
<1>2. DOMAIN rows = {1} /\ rows[1].event = event /\ rows[1].snapshot = product'
  BY DEF Row
<1> HIDE DEF rows
<1>3. Undecided(rows) /\ Carries(rows)
  BY <1>2 DEF Undecided, Carries
<1>4. outbox' = outbox \o rows
  BY DEF Write, rows
<1> QED
  BY <1>1, <1>3, <1>4 DEF Told

LEMMA PutTyped ==
    ASSUME TypeOK, NEW event \in {"CREATED", "EDITED"}, PutOnModeration(event)
    PROVE  product' \in ProductRow /\ OutboxTyped' /\ Told /\ Unjudged
<1>0. event \in SnapshotEvents \ {"UPDATED"}
  BY DEF SnapshotEvents
<1>1. product' = Marked(product, "ON_MODERATION", FALSE) /\ Write(<<Row(event, product')>>)
  BY DEF PutOnModeration
<1>2. product' \in ProductRow /\ product'.status = "ON_MODERATION"
  BY <1>1, MarkedTyped DEF TypeOK, Statuses
<1>3. <<Row(event, product')>> \in Seq(OutboxRow)
  BY <1>0, <1>2, RowTyped
<1>4. Told
  BY <1>0, <1>1, <1>2, RowTold
<1> QED
  BY <1>1, <1>2, <1>3, <1>4, WriteTyped DEF Unjudged, Verdicts

(* A request that ends, ends idle.                                         *)
LEMMA FinishTyped ==
    ASSUME IInv, NEW s \in Sellers, Finish(s)
    PROVE  seller' \in [Sellers -> SellerState] /\ ReadAllowed'
<1>1. seller' \in [Sellers -> SellerState]
  BY IdleTyped DEF Finish, IInv, TypeOK
<1>2. \A u \in Sellers : seller'[u] = seller[u] \/ seller'[u] = IdleSeller
  BY DEF Finish, IInv, TypeOK
<1> QED
  BY <1>1, <1>2, IdleTyped DEF IInv, ReadAllowed

LEMMA InitInv == Init => IInv
<1> SUFFICES ASSUME Init PROVE IInv
  OBVIOUS
<1>1. TypeOK
  BY NoProductTyped, IdleTyped DEF Init, TypeOK, SkuStates
<1>2. ReadAllowed
  BY IdleTyped DEF Init, ReadAllowed
<1>3. DecisionStands /\ BlockExplained
  BY DEF Init, NoProduct, DecisionStands, BlockExplained, Verdicts
<1>4. DecisionsAnnounced
  <2>1. Len(outbox) = 0 /\ Len(inbox) = 0 /\ Announcing(0) = {}
    BY DEF Init, Announcing
  <2> QED
    BY <2>1, FS_EmptySet DEF DecisionsAnnounced
<1> QED
  BY <1>1, <1>2, <1>3, <1>4 DEF IInv

-----------------------------------------------------------------------------
(* The seller's steps.                                                     *)

(* What every step of the seller keeps.                                    *)
Kept ==
    /\ product' \in ProductRow
    /\ sku' \in [Skus -> SkuStates]
    /\ OutboxTyped'
    /\ Told
    /\ seller' \in [Sellers -> SellerState] /\ ReadAllowed'
    /\ UNCHANGED <<inbox, call>>
    /\ Unjudged

LEMMA CreateKept == IInv /\ CreateProduct => Kept
<1> SUFFICES ASSUME IInv, CreateProduct PROVE Kept
  OBVIOUS
<1>1. product' = [status |-> "CREATED", deleted |-> FALSE, explained |-> FALSE]
  BY DEF CreateProduct, NoProduct
<1>2. product' \in ProductRow /\ product'.status = "CREATED"
  BY <1>1 DEF ProductRow, Statuses
<1>3. <<Row("CREATED", product')>> \in Seq(OutboxRow)
  BY <1>2, RowTyped DEF SnapshotEvents
<1>4. OutboxTyped' /\ Told
  BY <1>2, <1>3, WriteTyped, RowTold DEF CreateProduct, IInv, SnapshotEvents
<1>5. UNCHANGED <<sku, inbox, seller, call>>
  BY DEF CreateProduct
<1> QED
  BY <1>2, <1>4, <1>5 DEF Kept, IInv, TypeOK, ReadAllowed, Unjudged, Verdicts

LEMMA ReadKept ==
    ASSUME IInv, NEW s \in Sellers, NEW op \in Operations, NEW k \in Skus, NEW flag \in BOOLEAN,
           Start(s, op, k, flag), NotHardBlocked
    PROVE  Kept
<1> DEFINE next == [op |-> op, sku |-> k, read |-> product, flag |-> flag]
<1>1. next \in SellerState
  BY DEF IInv, TypeOK, SellerState
<1>2. seller' = [seller EXCEPT ![s] = next] /\ UNCHANGED <<product, sku, outbox, inbox, call>>
  BY DEF Start
<1>3. seller' \in [Sellers -> SellerState]
  BY <1>1, <1>2 DEF IInv, TypeOK
<1>4. ReadAllowed'
  BY <1>2 DEF IInv, TypeOK, ReadAllowed, NotHardBlocked
<1> QED
  BY <1>2, <1>3, <1>4, NothingTold DEF Kept, Unjudged, OutboxTyped, IInv, TypeOK

LEMMA EditKept ==
    ASSUME IInv, NEW s \in Sellers, EditWrite(s)
    PROVE  Kept
<1> DEFINE read == seller[s].read
<1>1. read \in ProductRow /\ read.status \notin {"NONE", "HARD_BLOCKED"}
  BY DEF IInv, TypeOK, SellerState, ReadAllowed, EditWrite
<1>2. product' = SavedAs(read)
  BY DEF EditWrite
<1>3. product' \in ProductRow /\ product'.status \notin Verdicts
  <2>1. CASE WasDecided(read)
    BY <1>1, <1>2, <2>1, MarkedTyped DEF SavedAs, Statuses, Verdicts
  <2>2. CASE ~WasDecided(read)
    BY <1>1, <1>2, <2>2 DEF SavedAs, WasDecided, Verdicts
  <2> QED
    BY <2>1, <2>2
<1>4. <<Row("EDITED", product')>> \in Seq(OutboxRow)
  BY <1>3, RowTyped DEF SnapshotEvents
<1>5. OutboxTyped' /\ Told /\ Finish(s) /\ UNCHANGED <<sku, inbox, call>>
  BY <1>3, <1>4, WriteTyped, RowTold DEF EditWrite, IInv, SnapshotEvents
<1> QED
  BY <1>3, <1>5, FinishTyped DEF Kept, Unjudged, IInv, TypeOK

LEMMA AddKept ==
    ASSUME IInv, NEW s \in Sellers, NEW k \in Skus, AddWrite(s, k)
    PROVE  Kept
<1>1. /\ Finish(s) /\ UNCHANGED <<inbox, call>>
      /\ sku' = [sku EXCEPT ![k] = "live"]
  BY DEF AddWrite
<1>2. product' \in ProductRow /\ OutboxTyped' /\ Told /\ Unjudged
  <2>1. CASE PutOnModeration("CREATED") \/ PutOnModeration("EDITED")
    BY <2>1, PutTyped DEF IInv
  <2>2. CASE UNCHANGED <<product, outbox>>
    BY <2>2, NothingTold DEF IInv, TypeOK, Unjudged, OutboxTyped
  <2> QED
    BY <2>1, <2>2 DEF AddWrite
<1>3. sku' \in [Skus -> SkuStates]
  BY <1>1 DEF IInv, TypeOK, SkuStates
<1> QED
  BY <1>1, <1>2, <1>3, FinishTyped DEF Kept

LEMMA EditSkuKept ==
    ASSUME IInv, NEW s \in Sellers,
           EditSkuWrite(s) \/ EditSkuSnapshot(s) \/ EditSkuAnnounce(s)
    PROVE  Kept
<1>1. /\ seller[s] \in SellerState /\ seller[s].sku \in Skus /\ seller[s].read \in ProductRow
      /\ product \in ProductRow
  BY DEF IInv, TypeOK, SellerState
<1>2. CASE EditSkuWrite(s)
  <2>1. sku' \in [Skus -> SkuStates]
    BY <1>1, <1>2 DEF EditSkuWrite, IInv, TypeOK, SkuStates
  <2>2. PutOnModeration("EDITED") /\ Finish(s) /\ UNCHANGED <<inbox, call>>
    BY <1>2 DEF EditSkuWrite
  <2> QED
    BY <2>1, <2>2, PutTyped, FinishTyped DEF Kept, IInv
<1>3. CASE EditSkuSnapshot(s)
  <2> DEFINE next == [op |-> "announce", sku |-> seller[s].sku, read |-> product, flag |-> FALSE]
  <2>1. next \in SellerState
    BY <1>1 DEF SellerState, Operations
  <2>2. /\ seller' = [seller EXCEPT ![s] = next]
        /\ UNCHANGED <<product, sku, outbox, inbox, call>>
    BY <1>3 DEF EditSkuSnapshot
  <2>3. seller' \in [Sellers -> SellerState] /\ ReadAllowed'
    BY <2>1, <2>2 DEF IInv, TypeOK, ReadAllowed
  <2> QED
    BY <2>2, <2>3, NothingTold DEF Kept, Unjudged, OutboxTyped, IInv, TypeOK
<1>4. CASE EditSkuAnnounce(s)
  <2>1. sku' \in [Skus -> SkuStates]
    BY <1>1, <1>4 DEF EditSkuAnnounce, IInv, TypeOK, SkuStates
  <2>2. /\ Write(<<Row("EDITED", seller[s].read)>>)
        /\ Finish(s) /\ UNCHANGED <<product, inbox, call>>
    BY <1>4 DEF EditSkuAnnounce
  <2>3. <<Row("EDITED", seller[s].read)>> \in Seq(OutboxRow)
    BY <1>1, RowTyped DEF SnapshotEvents
  <2>4. OutboxTyped'
    BY <2>2, <2>3, WriteTyped DEF IInv
  <2>5. Told
    <3> DEFINE rows == <<Row("EDITED", seller[s].read)>>
    <3>1. DOMAIN rows = {1} /\ rows[1].event = "EDITED"
      BY DEF Row
    <3>2. Undecided(rows) /\ Carries(rows)
      BY <2>2, <3>1 DEF Undecided, Carries
    <3> QED
      BY <2>2, <2>3, <3>2 DEF Write, Told
  <2> QED
    BY <1>1, <2>1, <2>2, <2>4, <2>5, FinishTyped DEF Kept, Unjudged
<1> QED
  BY <1>2, <1>3, <1>4

LEMMA DropSkuSaveKept ==
    ASSUME IInv, NEW s \in Sellers, DropSkuSave(s)
    PROVE  Kept
<1>1. PICK op \in {"withdrawing", "dropping"} : seller' = [seller EXCEPT ![s].op = op]
  BY DEF DropSkuSave
<1>2. UNCHANGED <<product, sku, outbox, inbox, call>>
  BY DEF DropSkuSave
<1>3. op \in Operations
  BY <1>1 DEF Operations
<1>4. seller' \in [Sellers -> SellerState] /\ \A v \in Sellers : seller'[v].read = seller[v].read
  BY <1>1, <1>3 DEF IInv, TypeOK, SellerState
<1>5. ReadAllowed'
  BY <1>1, <1>2, <1>4 DEF IInv, TypeOK, SellerState, ReadAllowed
<1> QED
  BY <1>2, <1>4, <1>5, NothingTold DEF Kept, Unjudged, OutboxTyped, IInv, TypeOK

LEMMA DropSkuKept ==
    ASSUME IInv, NEW s \in Sellers, DropSkuCommit(s)
    PROVE  Kept
<1>1. seller[s].sku \in Skus /\ product \in ProductRow /\ product.explained \in BOOLEAN
  BY DEF IInv, TypeOK, SellerState, ProductRow
<1>2. /\ Finish(s) /\ UNCHANGED <<inbox, call>>
      /\ sku' = [sku EXCEPT ![seller[s].sku] = "deleted"]
  BY DEF DropSkuCommit
<1>3. sku' \in [Skus -> SkuStates]
  BY <1>1, <1>2 DEF IInv, TypeOK, SkuStates
<1>4. ASSUME product' = Marked(product, "CREATED", product.explained),
             Write(<<Row("DELETED", product')>>)
      PROVE  Kept
  <2>1. product' \in ProductRow /\ product'.status = "CREATED"
    BY <1>1, <1>4, MarkedTyped DEF Statuses
  <2>2. <<Row("DELETED", product')>> \in Seq(OutboxRow)
    BY <2>1, RowTyped DEF SnapshotEvents
  <2>3. OutboxTyped' /\ Told
    BY <1>4, <2>1, <2>2, WriteTyped, RowTold DEF IInv, SnapshotEvents
  <2> QED
    BY <1>2, <1>3, <2>1, <2>3, FinishTyped DEF Kept, Unjudged, Verdicts
<1>5. ASSUME NEW rows, rows = <<>> \/ rows = <<ForShops("SKU_OUT_OF_STOCK")>>, Write(rows),
             UNCHANGED product
      PROVE  Kept
  <2>1. rows \in Seq(OutboxRow) /\ Undecided(rows)
    <3>1. CASE rows = <<>>
      BY <3>1, EmptyTyped DEF Undecided
    <3>2. CASE rows = <<ForShops("SKU_OUT_OF_STOCK")>>
      BY <3>2, ShopRowTyped DEF ShopEvents, Undecided, ForShops, Row
    <3> QED
      BY <1>5, <3>1, <3>2
  <2>2. OutboxTyped'
    BY <1>5, <2>1, WriteTyped DEF IInv
  <2>3. Told
    BY <1>5, <2>1 DEF Write, Told, Carries
  <2> QED
    BY <1>1, <1>2, <1>3, <1>5, <2>2, <2>3, FinishTyped DEF Kept, Unjudged
<1> QED
  BY <1>4, <1>5 DEF DropSkuCommit

LEMMA DropKept ==
    ASSUME IInv, NEW s \in Sellers, DropWrite(s)
    PROVE  Kept
<1>1. product \in ProductRow
  BY DEF IInv, TypeOK
<1>2. product' = [product EXCEPT !.deleted = TRUE]
  BY DEF DropWrite
<1>3. /\ product' \in ProductRow
      /\ product'.status = product.status /\ product'.explained = product.explained
  BY <1>1, <1>2, Zenon DEF ProductRow
<1>4. <<Row("DELETED", product'), ForShops("PRODUCT_DELETED")>> \in Seq(OutboxRow)
  <2>1. Row("DELETED", product') \in OutboxRow /\ ForShops("PRODUCT_DELETED") \in OutboxRow
    BY <1>3, RowTyped, ShopRowTyped DEF SnapshotEvents, ShopEvents
  <2> QED
    BY <2>1
<1>5. OutboxTyped' /\ Told
  <2> DEFINE rows == <<Row("DELETED", product'), ForShops("PRODUCT_DELETED")>>
  <2>1. /\ DOMAIN rows = {1, 2}
        /\ rows[1].event = "DELETED" /\ rows[1].snapshot = product'
        /\ rows[2].event = "PRODUCT_DELETED"
    BY DEF Row, ForShops
  <2>2. rows \in Seq(OutboxRow) /\ Write(rows)
    BY <1>4 DEF DropWrite
  <2> HIDE DEF rows
  <2>3. Undecided(rows) /\ Carries(rows)
    BY <2>1 DEF Undecided, Carries, SnapshotEvents
  <2> QED
    BY <2>2, <2>3, WriteTyped DEF Told, Write, IInv
<1>6. Finish(s) /\ UNCHANGED <<inbox, call>> /\ sku' \in [Skus -> SkuStates]
  BY DEF DropWrite, IInv, TypeOK, SkuStates
<1> QED
  BY <1>3, <1>5, <1>6, FinishTyped DEF Kept, Unjudged

LEMMA SellerKept ==
    ASSUME IInv, NEW s \in Sellers, SellerStep(s)
    PROVE  Kept
<1>1. CASE EditRead(s) \/ AddRead(s) \/ DropRead(s)
  <2>1. PICK op \in Operations, flag \in BOOLEAN :
          Start(s, op, ASku, flag) /\ NotHardBlocked
    BY <1>1 DEF EditRead, AddRead, DropRead, Operations
  <2> QED
    BY <2>1, ReadKept, IdleTyped
<1>2. CASE \E k \in Skus : EditSkuRead(s, k) \/ \E inStock \in BOOLEAN : DropSkuRead(s, k, inStock)
  <2>1. PICK op \in Operations, flag \in BOOLEAN, k \in Skus :
          Start(s, op, k, flag) /\ NotHardBlocked
    BY <1>2 DEF EditSkuRead, DropSkuRead, Operations
  <2> QED
    BY <2>1, ReadKept
<1>3. CASE SellerFails(s)
  BY <1>3, FinishTyped, NothingTold DEF SellerFails, Kept, Unjudged, OutboxTyped, IInv, TypeOK
<1> QED
  BY <1>1, <1>2, <1>3, EditKept, AddKept, EditSkuKept, DropSkuSaveKept, DropSkuKept,
     DropKept DEF SellerStep

(* The outbox after a write.                                               *)
LEMMA Extension ==
    ASSUME NEW s \in Seq(OutboxRow), NEW rows \in Seq(OutboxRow), NEW t, t = s \o rows
    PROVE  /\ Len(s) \in Nat /\ Len(rows) \in Nat /\ Len(t) = Len(s) + Len(rows)
           /\ \A i \in 1..Len(s) : t[i] = s[i]
           /\ \A i \in 1..Len(rows) : t[Len(s) + i] = rows[i]
  OBVIOUS

LEMMA AnnouncingFinite ==
    ASSUME NEW n \in Nat
    PROVE  IsFiniteSet(Announcing(n)) /\ IsFiniteSet(Announcing(n)')
<1>1. Announcing(n) \in SUBSET (1..n) /\ Announcing(n)' \in SUBSET (1..n)
  BY DEF Announcing
<1>2. IsFiniteSet(1..n)
  BY FS_Interval
<1> QED
  BY <1>1, <1>2, FS_Subset

LEMMA UndecidedKeeps ==
    ASSUME IInv, Told, inbox' = inbox
    PROVE  DecisionsAnnounced'
<1>1. PICK rows \in Seq(OutboxRow) : outbox' = outbox \o rows /\ Undecided(rows)
  BY DEF Told
<1>2. /\ Len(outbox) \in Nat /\ Len(rows) \in Nat /\ Len(outbox') = Len(outbox) + Len(rows)
      /\ \A i \in 1..Len(outbox) : outbox'[i] = outbox[i]
      /\ \A i \in 1..Len(rows) : outbox'[Len(outbox) + i] = rows[i]
  BY <1>1, Extension DEF IInv, TypeOK
<1>3. \A i \in 1..Len(outbox') : outbox'[i].event = "UPDATED" => i \in 1..Len(outbox)
  <2> SUFFICES ASSUME NEW i \in 1..Len(outbox'), i > Len(outbox)
               PROVE  outbox'[i].event # "UPDATED"
    BY <1>2
  <2>1. i - Len(outbox) \in 1..Len(rows) /\ i = Len(outbox) + (i - Len(outbox))
    BY <1>2
  <2>2. outbox'[i] = rows[i - Len(outbox)]
    BY <1>2, <2>1
  <2> QED
    BY <1>1, <2>1, <2>2 DEF Undecided
<1>4. Announcing(Len(outbox))' = Announcing(Len(outbox))
  BY <1>2, <1>3 DEF Announcing
<1>5. \A i \in 1..Len(outbox) : Announcing(i)' = Announcing(i)
  BY <1>2 DEF Announcing
<1>6. Announcing(Len(outbox)) \subseteq 1..Len(outbox)
  BY DEF Announcing
<1> QED
  BY <1>2, <1>4, <1>5, <1>6 DEF IInv, DecisionsAnnounced

LEMMA KeptInv == IInv /\ Kept => IInv'
<1> SUFFICES ASSUME IInv, Kept PROVE IInv'
  OBVIOUS
<1>1. TypeOK' /\ ReadAllowed'
  BY DEF IInv, Kept, TypeOK, OutboxTyped
<1>2. DecisionStands'
  BY DEF IInv, Kept, Unjudged, DecisionStands
<1>3. BlockExplained'
  BY DEF IInv, Kept, Unjudged, BlockExplained, Verdicts
<1>4. DecisionsAnnounced'
  BY UndecidedKeeps DEF Kept
<1> QED
  BY <1>1, <1>2, <1>3, <1>4 DEF IInv

-----------------------------------------------------------------------------
(* Moderation's calls.                                                     *)

(* A decision writes its row at the end of the outbox, and at most one row *)
(* for the shops after it.                                                 *)
LEMMA DecisionAnnounced ==
    ASSUME IInv, NEW d \in Decisions, inbox' = Append(inbox, d), product' \in ProductRow,
           product'.status = d.verdict, Write(DecisionRows(d.verdict, product')),
           DecisionRows(d.verdict, product') \in Seq(OutboxRow)
    PROVE  /\ DecisionsAnnounced'
           /\ \E i \in DOMAIN outbox' :
                i > Len(outbox) /\ outbox'[i].event \in SnapshotEvents
                /\ outbox'[i].snapshot = product'
<1> DEFINE rows == DecisionRows(d.verdict, product')
<1>0. PICK n \in Nat : n = Len(outbox)
  BY DEF IInv, TypeOK
<1>1. /\ Len(rows) \in {1, 2}
      /\ rows[1] = Row("UPDATED", product')
      /\ Len(rows) = 2 => rows[2] = ForShops("PRODUCT_BLOCKED")
  BY DEF DecisionRows
<1>2. outbox' = outbox \o rows /\ rows \in Seq(OutboxRow) /\ outbox \in Seq(OutboxRow)
  BY DEF Write, IInv, TypeOK
<1> HIDE DEF rows
<1>3. /\ n \in Nat /\ Len(outbox') = n + Len(rows)
      /\ \A i \in 1..n : outbox'[i] = outbox[i]
      /\ \A i \in 1..Len(rows) : outbox'[n + i] = rows[i]
  BY <1>0, <1>2, Extension
<1>4. /\ outbox'[n + 1].event = "UPDATED" /\ outbox'[n + 1].snapshot = product'
      /\ Len(rows) = 2 => outbox'[n + 2].event # "UPDATED"
  BY <1>1, <1>3 DEF Row, ForShops
<1>5. /\ Len(inbox) \in Nat /\ Len(inbox') = Len(inbox) + 1
      /\ inbox'[Len(inbox) + 1] = d
      /\ \A i \in 1..Len(inbox) : inbox'[i] = inbox[i]
  BY DEF IInv, TypeOK
<1>6. /\ Announcing(Len(outbox))' = Announcing(n) \union {n + 1}
      /\ Announcing(n + 1)' = Announcing(n) \union {n + 1}
      /\ n + 1 \notin Announcing(n)
  <2>1. Len(outbox') = n + 1 \/ (Len(outbox') = n + 2 /\ outbox'[n + 2].event # "UPDATED")
    BY <1>1, <1>3, <1>4
  <2>2. \A i \in 1..Len(outbox') : i \in 1..n \/ i = n + 1 \/ (i = n + 2 /\ n + 2 = Len(outbox'))
    BY <1>3, <2>1
  <2>3. Announcing(Len(outbox))' = Announcing(n) \union {n + 1}
    BY <1>3, <1>4, <2>1, <2>2 DEF Announcing
  <2>4. Announcing(n + 1)' = Announcing(n) \union {n + 1}
    <3>1. 1..(n + 1) = (1..n) \union {n + 1}
      BY <1>3
    <3> QED
      BY <1>3, <1>4, <3>1 DEF Announcing
  <2> QED
    BY <1>3, <2>3, <2>4 DEF Announcing
<1>7. \A i \in 1..n : Announcing(i)' = Announcing(i)
  BY <1>3 DEF Announcing
<1>8. /\ Cardinality(Announcing(n)) = Len(inbox)
      /\ \A i \in Announcing(n) :
            outbox[i].snapshot.status = inbox[Cardinality(Announcing(i))].verdict
  BY <1>0 DEF IInv, DecisionsAnnounced
<1>9. Cardinality(Announcing(n) \union {n + 1}) = Len(inbox) + 1
  BY <1>3, <1>6, <1>8, AnnouncingFinite, FS_AddElement
<1>10. \A i \in Announcing(n) :
         /\ i \in 1..n
         /\ Cardinality(Announcing(i)) \in 1..Len(inbox)
  <2> SUFFICES ASSUME NEW i \in Announcing(n)
               PROVE  i \in 1..n /\ Cardinality(Announcing(i)) \in 1..Len(inbox)
    OBVIOUS
  <2>1. i \in 1..n /\ i \in Announcing(i) /\ Announcing(i) \in SUBSET Announcing(n)
    BY <1>3 DEF Announcing
  <2>2. IsFiniteSet(Announcing(n)) /\ IsFiniteSet(Announcing(i))
    BY <1>3, <2>1, AnnouncingFinite
  <2>3. Cardinality(Announcing(i)) <= Len(inbox)
    BY <1>8, <2>1, <2>2, FS_Subset
  <2>4. Cardinality(Announcing(i)) \in Nat /\ Cardinality(Announcing(i)) # 0
    BY <2>1, <2>2, FS_EmptySet, FS_CardinalityType
  <2> QED
    BY <1>5, <2>1, <2>3, <2>4
<1>11. DecisionsAnnounced'
  <2>1. Cardinality(Announcing(Len(outbox))') = Len(inbox')
    BY <1>5, <1>6, <1>9
  <2>2. ASSUME NEW i \in Announcing(Len(outbox))'
        PROVE  outbox'[i].snapshot.status = inbox'[Cardinality(Announcing(i)')].verdict
    <3>1. CASE i = n + 1
      <4>1. Cardinality(Announcing(i)') = Len(inbox) + 1
        BY <1>6, <1>9, <3>1
      <4> QED
        BY <1>4, <1>5, <3>1, <4>1
    <3>2. CASE i \in Announcing(n)
      BY <1>3, <1>5, <1>7, <1>8, <1>10, <3>2
    <3> QED
      BY <1>6, <3>1, <3>2
  <2> QED
    BY <2>1, <2>2 DEF DecisionsAnnounced
<1>12. n + 1 \in DOMAIN outbox' /\ n + 1 > Len(outbox)
  <2>1. outbox' \in Seq(OutboxRow)
    BY <1>2
  <2> QED
    BY <1>0, <1>1, <1>3, <2>1
<1> QED
  BY <1>4, <1>11, <1>12 DEF SnapshotEvents

LEMMA DecideInv ==
    ASSUME IInv, NEW c \in Calls, Decide(c)
    PROVE  /\ IInv'
           /\ \E i \in DOMAIN outbox' :
                i > Len(outbox) /\ outbox'[i].event \in SnapshotEvents
                /\ outbox'[i].snapshot = product'
           /\ product'.status = call[c].verdict /\ call[c].verdict \in Verdicts
<1> DEFINE d == call[c]
<1>1. d \in Decisions /\ d.verdict \in Verdicts /\ product \in ProductRow
  BY DEF IInv, TypeOK, Decide, Decisions
<1>2. /\ product' = Marked(product, d.verdict, d.verdict # "MODERATED")
      /\ inbox' = Append(inbox, d)
      /\ Write(DecisionRows(d.verdict, product'))
      /\ call' = [call EXCEPT ![c] = NoDecision]
      /\ UNCHANGED <<sku, seller>>
  BY DEF Decide, Apply
<1>3. /\ product' \in ProductRow
      /\ product'.status = d.verdict /\ product'.explained = (d.verdict # "MODERATED")
  BY <1>1, <1>2, MarkedTyped DEF Statuses
<1>4. DecisionRows(d.verdict, product') \in Seq(OutboxRow)
  <2>1. Row("UPDATED", product') \in OutboxRow /\ ForShops("PRODUCT_BLOCKED") \in OutboxRow
    BY <1>3, RowTyped, ShopRowTyped DEF SnapshotEvents, ShopEvents
  <2> QED
    BY <2>1 DEF DecisionRows
<1>5. OutboxTyped'
  BY <1>2, <1>4, WriteTyped DEF IInv
<1>6. /\ inbox' \in Seq(Decisions) /\ inbox' # <<>>
      /\ inbox'[Len(inbox')] = d
  <2>1. inbox \in Seq(Decisions)
    BY DEF IInv, TypeOK
  <2> HIDE DEF d
  <2>2. /\ Append(inbox, d) \in Seq(Decisions)
        /\ Len(Append(inbox, d)) = Len(inbox) + 1
        /\ Append(inbox, d)[Len(inbox) + 1] = d
    BY <1>1, <2>1
  <2>3. Append(inbox, d) # <<>>
    BY <2>1, <2>2
  <2> QED
    BY <1>2, <2>2, <2>3
<1>7. TypeOK'
  BY <1>2, <1>3, <1>5, <1>6 DEF IInv, TypeOK, OutboxTyped
<1>8. ReadAllowed'
  BY <1>2 DEF IInv, ReadAllowed
<1>9. DecisionStands'
  BY <1>3, <1>6 DEF DecisionStands
<1>10. BlockExplained'
  BY <1>3 DEF BlockExplained
<1>11. /\ DecisionsAnnounced'
       /\ \E i \in DOMAIN outbox' :
            i > Len(outbox) /\ outbox'[i].event \in SnapshotEvents
            /\ outbox'[i].snapshot = product'
  BY <1>1, <1>2, <1>3, <1>4, DecisionAnnounced
<1> QED
  BY <1>1, <1>3, <1>7, <1>8, <1>9, <1>10, <1>11 DEF IInv

LEMMA CarryInv ==
    ASSUME IInv, NEW c \in Calls, CallFails(c) \/ \E d \in Decisions : Deliver(c, d)
    PROVE  IInv' /\ UNCHANGED <<product, inbox>>
<1>1. UNCHANGED <<product, sku, outbox, inbox, seller>>
  BY DEF CallFails, Deliver
<1>2. call' \in [Calls -> Decisions \union {NoDecision}]
  BY DEF CallFails, Deliver, IInv, TypeOK
<1> QED
  BY <1>1, <1>2 DEF IInv, TypeOK, ReadAllowed, DecisionStands, BlockExplained,
                    DecisionsAnnounced, Announcing

LEMMA NextInv ==
    ASSUME IInv, [Next]_lifecycleVars
    PROVE  IInv'
<1>1. CASE CreateProduct \/ \E s \in Sellers : SellerStep(s)
  BY <1>1, CreateKept, SellerKept, KeptInv
<1>2. CASE \E c \in Calls : CallStep(c)
  BY <1>2, DecideInv, CarryInv DEF CallStep
<1>3. CASE UNCHANGED lifecycleVars
  BY <1>3 DEF lifecycleVars, IInv, TypeOK, ReadAllowed, DecisionStands, BlockExplained,
              DecisionsAnnounced, Announcing
<1> QED
  BY <1>1, <1>2, <1>3 DEF Next

-----------------------------------------------------------------------------
(* The rows and requests keep their shape.                                 *)
THEOREM LifecycleTyped == Spec => []TypeOK
<1>1. IInv => TypeOK
  BY DEF IInv
<1> QED
  BY InitInv, NextInv, <1>1, PTL DEF Spec

(* Whatever stale rows the seller's handlers save and however often calls  *)
(* are repeated, a product on sale or blocked is so by the last decision.  *)
THEOREM LastDecisionStands == Spec => []DecisionStands
<1>1. IInv => DecisionStands
  BY DEF IInv
<1> QED
  BY InitInv, NextInv, <1>1, PTL DEF Spec

(* A blocked product says why, whatever stale rows are saved.              *)
THEOREM BlocksExplained == Spec => []BlockExplained
<1>1. IInv => BlockExplained
  BY DEF IInv
<1> QED
  BY InitInv, NextInv, <1>1, PTL DEF Spec

(* The rows that announce decisions are the recorded decisions, each once  *)
(* and in their order, whatever calls of moderation overlap.               *)
THEOREM DecisionsAnnouncedOnce == Spec => []DecisionsAnnounced
<1>1. IInv => DecisionsAnnounced
  BY DEF IInv
<1> QED
  BY InitInv, NextInv, <1>1, PTL DEF Spec

(* What a step tells the outbox is at its end.                             *)
LEMMA ToldAtEnd ==
    ASSUME TypeOK, Told, product' # product
    PROVE  \E i \in DOMAIN outbox' :
             i > Len(outbox) /\ outbox'[i].event \in SnapshotEvents
             /\ outbox'[i].snapshot = product'
<1>1. PICK rows \in Seq(OutboxRow) : outbox' = outbox \o rows /\ Carries(rows)
  BY DEF Told
<1>2. PICK i \in DOMAIN rows : rows[i].event \in SnapshotEvents /\ rows[i].snapshot = product'
  BY <1>1 DEF Carries
<1>3. /\ Len(outbox) \in Nat /\ Len(rows) \in Nat /\ Len(outbox') = Len(outbox) + Len(rows)
      /\ \A j \in 1..Len(rows) : outbox'[Len(outbox) + j] = rows[j]
  BY <1>1, Extension DEF TypeOK
<1>4. i \in 1..Len(rows) /\ outbox' \in Seq(OutboxRow)
  BY <1>1 DEF TypeOK
<1>5. Len(outbox) + i \in DOMAIN outbox' /\ Len(outbox) + i > Len(outbox)
  BY <1>3, <1>4
<1> QED
  BY <1>2, <1>3, <1>4, <1>5

(* No handler changes the product, in whatever state its stale row is,     *)
(* without a row that carries the product as it is after the change.       *)
THEOREM ChangesTold == Spec => NoSilentChange
<1> DEFINE Heard == product' # product =>
                      \E i \in DOMAIN outbox' :
                        i > Len(outbox) /\ outbox'[i].event \in SnapshotEvents
                        /\ outbox'[i].snapshot = product'
<1>1. IInv /\ [Next]_lifecycleVars => [Heard]_lifecycleVars
  <2> SUFFICES ASSUME IInv, Next PROVE Heard
    OBVIOUS
  <2>1. CASE CreateProduct \/ \E s \in Sellers : SellerStep(s)
    BY <2>1, CreateKept, SellerKept, ToldAtEnd DEF Kept, IInv
  <2>2. CASE \E c \in Calls : Decide(c)
    BY <2>2, DecideInv
  <2>3. CASE \E c \in Calls : CallFails(c) \/ \E d \in Decisions : Deliver(c, d)
    BY <2>3, CarryInv
  <2> QED
    BY <2>1, <2>2, <2>3 DEF Next, CallStep
<1> QED
  BY InitInv, NextInv, <1>1, PTL DEF Spec, NoSilentChange

(* B2B takes each decision at most once, and everything else it does to    *)
(* the product leaves the last decision alone or opens the question again. *)
THEOREM ImplementsDecisionLog == Spec => ImplementsLog
<1>1. Init => Log!Init
  BY DEF Init, Log!Init, NoProduct, Verdicts
<1>2. IInv /\ [Next]_lifecycleVars => [Log!Next]_(Log!logVars)
  <2> SUFFICES ASSUME IInv, [Next]_lifecycleVars PROVE [Log!Next]_(Log!logVars)
    OBVIOUS
  <2>1. CASE CreateProduct \/ \E s \in Sellers : SellerStep(s)
    <3>1. Unjudged /\ UNCHANGED inbox
      BY <2>1, CreateKept, SellerKept DEF Kept
    <3> QED
      BY <3>1 DEF Unjudged, Log!Next, Log!Reopen, Log!logVars
  <2>2. CASE \E c \in Calls : Decide(c)
    <3>1. PICK c \in Calls : Decide(c)
      BY <2>2
    <3>2. product'.status = call[c].verdict /\ product'.status \in Verdicts
      BY <3>1, DecideInv
    <3>3. call[c] \in Decisions /\ ~Recorded(call[c]) /\ inbox' = Append(inbox, call[c])
      BY <3>1 DEF Decide, Apply, IInv, TypeOK
    <3> QED
      BY <3>2, <3>3 DEF Log!Next, Log!Take, Log!Taken, Recorded
  <2>3. CASE \E c \in Calls : CallFails(c) \/ \E d \in Decisions : Deliver(c, d)
    BY <2>3, CarryInv DEF Log!logVars
  <2>4. CASE UNCHANGED lifecycleVars
    BY <2>4 DEF lifecycleVars, Log!logVars
  <2> QED
    BY <2>1, <2>2, <2>3, <2>4 DEF Next, CallStep
<1> QED
  BY InitInv, NextInv, <1>1, <1>2, PTL DEF Spec, ImplementsLog, Log!Spec
=============================================================================
