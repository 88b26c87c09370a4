--------------------------- MODULE Inventory_proofs ---------------------------
(* What holds of the stock for every set of SKUs, orders and requests.     *)
EXTENDS Inventory, FiniteSetTheorems, WellFoundedInduction, TLAPS

-----------------------------------------------------------------------------
(* Sums over finite sets: what a function sums up to over a set, defined   *)
(* without an operator for a parameter, as MapThenSumSet does it.          *)
Pick(S) == CHOOSE x \in S : TRUE
Sums(f, S, sum) ==
    sum = [T \in SUBSET S |-> IF T = {} THEN 0 ELSE f[Pick(T)] + sum[T \ {Pick(T)}]]
Sum(f, S) == (CHOOSE sum : Sums(f, S, sum))[S]

(* Among sets of subsets of a finite set one has no smaller one: the       *)
(* induction over finite sets in the form used below.                      *)
LEMMA LeastSet ==
    ASSUME NEW S, IsFiniteSet(S), NEW Bad, Bad \subseteq SUBSET S, Bad # {}
    PROVE  \E T \in Bad : \A U \in SUBSET T : U # T => U \notin Bad
<1>1. SUBSET S \subseteq FiniteSubsetsOf(S)
  BY FS_Subset DEF FiniteSubsetsOf
<1>2. PICK T \in Bad : \A U \in Bad : <<U, T>> \notin StrictSubsetOrdering(S)
  BY <1>1, WFMin, FS_StrictSubsetOrderingWellFounded
<1> QED
  BY <1>2 DEF StrictSubsetOrdering

LEMMA Picked ==
    ASSUME NEW T, T # {}
    PROVE  /\ Pick(T) \in T
           /\ T \ {Pick(T)} \in SUBSET T
           /\ T \ {Pick(T)} # T
  BY DEF Pick

LEMMA SumsAgree ==
    ASSUME NEW S, IsFiniteSet(S), NEW f, NEW U \in SUBSET S, NEW V \in SUBSET S,
           NEW g, NEW h, Sums(f, U, g), Sums(f, V, h)
    PROVE  \A T \in SUBSET (U \intersect V) : g[T] = h[T]
<1> DEFINE Bad == {T \in SUBSET (U \intersect V) : g[T] # h[T]}
<1>1. SUFFICES ASSUME Bad # {}
               PROVE  FALSE
  OBVIOUS
<1>2. PICK T \in Bad : \A W \in SUBSET T : W # T => W \notin Bad
  <2>1. Bad \subseteq SUBSET S
    OBVIOUS
  <2> HIDE DEF Bad
  <2> QED
    BY <1>1, <2>1, LeastSet
<1>3. /\ g[T] = IF T = {} THEN 0 ELSE f[Pick(T)] + g[T \ {Pick(T)}]
      /\ h[T] = IF T = {} THEN 0 ELSE f[Pick(T)] + h[T \ {Pick(T)}]
  BY DEF Sums
<1>4. T # {}
  BY <1>3
<1>5. g[T \ {Pick(T)}] = h[T \ {Pick(T)}]
  BY <1>2, <1>4, Picked
<1> QED
  BY <1>3, <1>5

LEMMA SumsExist ==
    ASSUME NEW S, IsFiniteSet(S), NEW f
    PROVE  \A T \in SUBSET S : \E sum : Sums(f, T, sum)
<1> DEFINE Bad == {T \in SUBSET S : ~ \E sum : Sums(f, T, sum)}
<1>1. SUFFICES ASSUME Bad # {}
               PROVE  FALSE
  OBVIOUS
<1>2. PICK T \in Bad : \A W \in SUBSET T : W # T => W \notin Bad
  <2>1. Bad \subseteq SUBSET S
    OBVIOUS
  <2> HIDE DEF Bad
  <2> QED
    BY <1>1, <2>1, LeastSet
<1>3. \A W \in SUBSET T : W # T => Sums(f, W, CHOOSE sum : Sums(f, W, sum))
  BY <1>2
<1>4. PICK total :
        total = [U \in SUBSET T |->
                   IF U = {} THEN 0 ELSE f[Pick(U)] + Sum(f, U \ {Pick(U)})]
  OBVIOUS
<1>5. ASSUME NEW W \in SUBSET T, W # T
      PROVE  Sum(f, W) = total[W]
  <2>1. PICK sum : sum = CHOOSE it : Sums(f, W, it)
    OBVIOUS
  <2>2. Sums(f, W, sum) /\ Sum(f, W) = sum[W]
    BY <1>3, <1>5, <2>1 DEF Sum
  <2>3. sum[W] = IF W = {} THEN 0 ELSE f[Pick(W)] + sum[W \ {Pick(W)}]
    BY <2>2 DEF Sums
  <2>4. CASE W = {}
    BY <1>4, <2>2, <2>3, <2>4
  <2>5. CASE W # {}
    <3>1. PICK V : V = W \ {Pick(W)}
      OBVIOUS
    <3>2. V \in SUBSET W /\ V # T
      BY <1>5, <2>5, <3>1, Picked
    <3>3. PICK less : less = CHOOSE it : Sums(f, V, it)
      OBVIOUS
    <3>4. Sums(f, V, less) /\ Sum(f, V) = less[V]
      BY <1>3, <3>2, <3>3 DEF Sum
    <3>5. less[V] = sum[V]
      BY <2>2, <3>2, <3>4, SumsAgree
    <3> QED
      BY <1>4, <2>2, <2>3, <2>5, <3>1, <3>4, <3>5
  <2> QED
    BY <2>4, <2>5
<1>6. Sums(f, T, total)
  <2>1. \A U \in SUBSET T : U # {} =>
           Sum(f, U \ {Pick(U)}) = total[U \ {Pick(U)}]
    BY <1>5, Picked
  <2> QED
    BY <1>4, <2>1 DEF Sums
<1> QED
  BY <1>2, <1>6

LEMMA SumStep ==
    ASSUME NEW S, IsFiniteSet(S), NEW f, NEW T \in SUBSET S
    PROVE  Sum(f, T) = IF T = {} THEN 0 ELSE f[Pick(T)] + Sum(f, T \ {Pick(T)})
<1>1. PICK sum : sum = CHOOSE it : Sums(f, T, it)
  OBVIOUS
<1>2. Sums(f, T, sum) /\ Sum(f, T) = sum[T]
  BY <1>1, SumsExist DEF Sum
<1>3. sum[T] = IF T = {} THEN 0 ELSE f[Pick(T)] + sum[T \ {Pick(T)}]
  BY <1>2 DEF Sums
<1>4. CASE T # {}
  <2>1. PICK V : V = T \ {Pick(T)}
    OBVIOUS
  <2>2. V \in SUBSET T
    BY <2>1
  <2>3. PICK less : less = CHOOSE it : Sums(f, V, it)
    OBVIOUS
  <2>4. Sums(f, V, less) /\ Sum(f, V) = less[V]
    BY <2>2, <2>3, SumsExist DEF Sum
  <2>5. less[V] = sum[V]
    BY <1>2, <2>2, <2>4, SumsAgree
  <2> QED
    BY <1>2, <1>3, <1>4, <2>1, <2>4, <2>5
<1> QED
  BY <1>2, <1>3, <1>4

LEMMA SumInt ==
    ASSUME NEW S, IsFiniteSet(S), NEW f \in [S -> Int]
    PROVE  \A T \in SUBSET S : Sum(f, T) \in Int
<1> DEFINE Bad == {T \in SUBSET S : Sum(f, T) \notin Int}
<1>1. SUFFICES ASSUME Bad # {}
               PROVE  FALSE
  OBVIOUS
<1>2. PICK T \in Bad : \A W \in SUBSET T : W # T => W \notin Bad
  <2>1. Bad \subseteq SUBSET S
    OBVIOUS
  <2> HIDE DEF Bad
  <2> QED
    BY <1>1, <2>1, LeastSet
<1>3. Sum(f, T) = IF T = {} THEN 0 ELSE f[Pick(T)] + Sum(f, T \ {Pick(T)})
  BY SumStep
<1>4. T # {}
  BY <1>3
<1>5. Sum(f, T \ {Pick(T)}) \in Int /\ f[Pick(T)] \in Int
  BY <1>2, <1>4, Picked
<1> QED
  BY <1>3, <1>4, <1>5

(* Whatever CHOOSE picks first, any element can be taken out of a sum.     *)
LEMMA SumTake ==
    ASSUME NEW S, IsFiniteSet(S), NEW f \in [S -> Int]
    PROVE  \A T \in SUBSET S : \A x \in T : Sum(f, T) = f[x] + Sum(f, T \ {x})
<1> DEFINE Bad == {T \in SUBSET S : \E x \in T : Sum(f, T) # f[x] + Sum(f, T \ {x})}
<1>1. SUFFICES ASSUME Bad # {}
               PROVE  FALSE
  OBVIOUS
<1>2. PICK T \in Bad : \A W \in SUBSET T : W # T => W \notin Bad
  <2>1. Bad \subseteq SUBSET S
    OBVIOUS
  <2> HIDE DEF Bad
  <2> QED
    BY <1>1, <2>1, LeastSet
<1>3. PICK x \in T : Sum(f, T) # f[x] + Sum(f, T \ {x})
  OBVIOUS
<1>4. PICK y : y = Pick(T)
  OBVIOUS
<1>5. y \in T /\ Sum(f, T) = f[y] + Sum(f, T \ {y})
  BY <1>3, <1>4, SumStep, Picked
<1>6. x # y
  BY <1>3, <1>5
<1>7. /\ Sum(f, T \ {y}) = f[x] + Sum(f, (T \ {y}) \ {x})
      /\ Sum(f, T \ {x}) = f[y] + Sum(f, (T \ {x}) \ {y})
  BY <1>2, <1>5, <1>6
<1>8. (T \ {y}) \ {x} = (T \ {x}) \ {y}
  OBVIOUS
<1>9. PICK rest : rest = Sum(f, (T \ {x}) \ {y})
  OBVIOUS
<1>10. f[x] \in Int /\ f[y] \in Int /\ rest \in Int
  BY <1>5, <1>9, SumInt
<1>11. f[y] + (f[x] + rest) = f[x] + (f[y] + rest)
  BY <1>10
<1> QED
  BY <1>3, <1>5, <1>7, <1>8, <1>9, <1>11, Zenon

LEMMA SumSame ==
    ASSUME NEW S, IsFiniteSet(S), NEW f, NEW g, \A x \in S : f[x] = g[x]
    PROVE  \A T \in SUBSET S : Sum(f, T) = Sum(g, T)
<1> DEFINE Bad == {T \in SUBSET S : Sum(f, T) # Sum(g, T)}
<1>1. SUFFICES ASSUME Bad # {}
               PROVE  FALSE
  OBVIOUS
<1>2. PICK T \in Bad : \A W \in SUBSET T : W # T => W \notin Bad
  <2>1. Bad \subseteq SUBSET S
    OBVIOUS
  <2> HIDE DEF Bad
  <2> QED
    BY <1>1, <2>1, LeastSet
<1>3. Sum(f, T) = IF T = {} THEN 0 ELSE f[Pick(T)] + Sum(f, T \ {Pick(T)})
  BY SumStep
<1>4. Sum(g, T) = IF T = {} THEN 0 ELSE g[Pick(T)] + Sum(g, T \ {Pick(T)})
  BY SumStep
<1>5. T # {}
  BY <1>3, <1>4
<1>6. Sum(f, T \ {Pick(T)}) = Sum(g, T \ {Pick(T)}) /\ f[Pick(T)] = g[Pick(T)]
  BY <1>2, <1>5, Picked
<1> QED
  BY <1>3, <1>4, <1>5, <1>6

(* A sum changes by what its one changed term changes by.                  *)
LEMMA SumChanges ==
    ASSUME NEW S, IsFiniteSet(S), NEW f \in [S -> Int], NEW g \in [S -> Int], NEW x \in S,
           \A y \in S \ {x} : f[y] = g[y]
    PROVE  Sum(g, S) - Sum(f, S) = g[x] - f[x]
<1>1. Sum(f, S \ {x}) = Sum(g, S \ {x})
  <2>1. IsFiniteSet(S \ {x})
    BY FS_Subset
  <2> QED
    BY <2>1, SumSame
<1>2. Sum(f, S) = f[x] + Sum(f, S \ {x}) /\ Sum(g, S) = g[x] + Sum(g, S \ {x})
  BY SumTake
<1>3. f[x] \in Int /\ g[x] \in Int /\ Sum(f, S \ {x}) \in Int
  BY SumInt
<1> QED
  BY <1>1, <1>2, <1>3

-----------------------------------------------------------------------------
USE InventoryAssumption

(* A call that has passed its lookup carries an item list of an order.     *)
CallItems == \A c \in Clients : client[c].items \in OrderItems \union {NoItems}

TInv == TypeOK /\ CallItems

(* What an edit has read and will save was non-negative when it was read.  *)
SeenNonNegative ==
    \A x \in Sellers : seller[x].seen.active >= 0 /\ seller[x].seen.reserved >= 0

(* NonNegative is not inductive: EditWrite saves what EditRead remembered, *)
(* and Apply moves what the call carries.                                  *)
NInv == NonNegative /\ SeenNonNegative

-----------------------------------------------------------------------------
(* An item list is one of rows.                                            *)
LEMMA OrderRows ==
    ASSUME NEW items \in OrderItems \union {NoItems}
    PROVE  items \in [Skus -> Rows]
  BY DEF NoItems, Rows

LEMMA FreshTyped == Fresh \in SkuRow /\ Fresh.active >= 0 /\ Fresh.reserved >= 0
  BY DEF Fresh, SkuRow

LEMMA IdleTyped ==
    /\ IdleClient \in ClientState
    /\ IdleClient.items = NoItems
    /\ IdleSeller \in SellerState
    /\ IdleSeller.seen = Fresh
  BY FreshTyped DEF IdleClient, IdleSeller, ClientState, SellerState, AnOrder, ASku,
                    Kinds, NoItems, Rows, Statuses, SellerOps

LEMMA InitInv == Init => TInv /\ NInv
<1> SUFFICES ASSUME Init PROVE TInv /\ NInv
  OBVIOUS
<1>1. sku \in [Skus -> SkuRow] /\ NonNegative
  BY FreshTyped DEF Init, NonNegative
<1>2. client \in [Clients -> ClientState] /\ CallItems
  BY IdleTyped DEF Init, CallItems
<1>3. seller \in [Sellers -> SellerState] /\ SeenNonNegative
  BY IdleTyped, FreshTyped DEF Init, SeenNonNegative
<1>4. product \in ProductRow
  BY DEF Init, ProductRow, Statuses
<1>5. ops \in [Keys -> [Skus -> Rows]]
  BY DEF Init, NoItems, Rows
<1>6. invoice \in [Invoices -> [status : {"NONE", "PENDING", "ACCEPTED"},
                                items : [Skus -> Nat]]]
  BY DEF Init, NoInvoice
<1> QED
  BY <1>1, <1>2, <1>3, <1>4, <1>5, <1>6 DEF TInv, NInv, TypeOK

-----------------------------------------------------------------------------
(* What the writes leave in a SKU's row.                                   *)

(* Reserve, unreserve and fulfill differ in what they check and in the     *)
(* direction they move the two quantities.                                 *)
LEMMA AppliedRows ==
    ASSUME TInv, NEW c \in Clients, NEW kind \in Kinds, NEW valid,
           NEW a \in {-1, 0, 1}, NEW r \in {-1, 1},
           Apply(c, kind, valid, a, r)
    PROVE  /\ sku' \in [Skus -> SkuRow]
           /\ client[c].items \in [Skus -> Rows]
           /\ \A s \in Skus :
                /\ client[c].items[s].sum \in Nat
                /\ sku'[s].active = sku[s].active + a * client[c].items[s].sum
                /\ sku'[s].reserved = sku[s].reserved + r * client[c].items[s].sum
<1> USE DEF TInv, TypeOK
<1> DEFINE items == client[c].items
<1>1. items \in [Skus -> Rows]
  BY OrderRows DEF CallItems
<1>2. \A s \in Skus : items[s].sum \in Nat
  BY <1>1 DEF Rows
<1>3. \A s \in Skus : a * items[s].sum \in Int /\ r * items[s].sum \in Int
  BY <1>2
<1>4. sku' = [s \in Skus |-> [sku[s] EXCEPT !.active = @ + a * items[s].sum,
                                            !.reserved = @ + r * items[s].sum]]
  BY DEF Apply
<1>5. \A s \in Skus : /\ sku'[s].active = sku[s].active + a * items[s].sum
                      /\ sku'[s].reserved = sku[s].reserved + r * items[s].sum
                      /\ sku'[s] \in SkuRow
  <2> SUFFICES ASSUME NEW s \in Skus
               PROVE  /\ sku'[s].active = sku[s].active + a * items[s].sum
                      /\ sku'[s].reserved = sku[s].reserved + r * items[s].sum
                      /\ sku'[s] \in SkuRow
    OBVIOUS
  <2> DEFINE active == sku[s].active + a * items[s].sum
             reserved == sku[s].reserved + r * items[s].sum
  <2>1. sku'[s] = [sku[s] EXCEPT !.active = active, !.reserved = reserved]
    BY <1>4
  <2>2. active \in Int /\ reserved \in Int /\ sku[s] \in SkuRow
    BY <1>3 DEF SkuRow
  <2> HIDE DEF active, reserved
  <2>3. sku'[s].active = active /\ sku'[s].reserved = reserved /\ sku'[s] \in SkuRow
    <3>1. sku'[s] = [active |-> active, reserved |-> reserved, deleted |-> sku[s].deleted]
      BY ONLY <2>1, <2>2 DEF SkuRow
    <3>2. sku[s].deleted \in BOOLEAN
      BY DEF SkuRow
    <3> QED
      BY ONLY <2>2, <3>1, <3>2 DEF SkuRow
  <2> QED
    BY <2>3 DEF active, reserved
<1> QED
  BY <1>1, <1>2, <1>4, <1>5

(* Accepting an invoice raises active_quantity.                            *)
LEMMA RaisedRow ==
    ASSUME NEW row \in SkuRow, NEW n \in Nat, NEW new, new = [row EXCEPT !.active = @ + n]
    PROVE  new \in SkuRow /\ new.active = row.active + n /\ new.reserved = row.reserved
<1>1. new = [active |-> row.active + n, reserved |-> row.reserved, deleted |-> row.deleted]
  BY DEF SkuRow
<1> QED
  BY <1>1 DEF SkuRow

(* Deleting a SKU, or every live SKU, sets active_quantity to zero.        *)
LEMMA DeletedRow ==
    ASSUME NEW row \in SkuRow, NEW gone, gone = [row EXCEPT !.deleted = TRUE, !.active = 0]
    PROVE  gone \in SkuRow /\ gone.active = 0 /\ gone.reserved = row.reserved
<1>1. gone = [active |-> 0, reserved |-> row.reserved, deleted |-> TRUE]
  BY DEF SkuRow
<1>2. row.reserved \in Int
  BY DEF SkuRow
<1>3. gone \in SkuRow
  BY ONLY <1>1, <1>2 DEF SkuRow
<1> QED
  BY <1>1, <1>3

LEMMA AcceptedRows ==
    ASSUME TInv, NEW i \in Invoices, AcceptInvoice(i)
    PROVE  /\ sku' \in [Skus -> SkuRow]
           /\ \A s \in Skus : /\ invoice[i].items[s] \in Nat
                              /\ sku'[s].active = sku[s].active + invoice[i].items[s]
                              /\ sku'[s].reserved = sku[s].reserved
<1> USE DEF TInv, TypeOK
<1>1. \A s \in Skus : invoice[i].items[s] \in Nat
  OBVIOUS
<1>2. ASSUME NEW s \in Skus
      PROVE  /\ sku'[s] \in SkuRow
             /\ sku'[s].active = sku[s].active + invoice[i].items[s]
             /\ sku'[s].reserved = sku[s].reserved
  <2>1. sku'[s] = [sku[s] EXCEPT !.active = @ + invoice[i].items[s]]
    BY DEF AcceptInvoice
  <2>2. sku[s] \in SkuRow
    OBVIOUS
  <2> QED
    BY <2>1, <2>2, <1>1, RaisedRow
<1> QED
  BY <1>1, <1>2 DEF AcceptInvoice

LEMMA EditedRows ==
    ASSUME TInv, NEW x \in Sellers,
           NEW quantity \in Quantities \union {seller[x].seen.active},
           EditWrite(x, quantity)
    PROVE  /\ sku' \in [Skus -> SkuRow]
           /\ \A s \in Skus :
                \/ sku'[s] = sku[s]
                \/ sku'[s].active = quantity /\ sku'[s].reserved = seller[x].seen.reserved
<1> USE DEF TInv, TypeOK
<1>1. PICK new : new = [seller[x].seen EXCEPT !.active = quantity]
  OBVIOUS
<1>2. seller[x].seen \in SkuRow /\ quantity \in Int /\ seller[x].sku \in Skus
  BY DEF SellerState, SkuRow
<1>3. new \in SkuRow /\ new.active = quantity /\ new.reserved = seller[x].seen.reserved
  BY <1>1, <1>2 DEF SkuRow
<1>4. sku' = [sku EXCEPT ![seller[x].sku] = new]
  BY <1>1 DEF EditWrite
<1> QED
  BY <1>2, <1>3, <1>4

LEMMA DeletedRows ==
    ASSUME TInv, NEW x \in Sellers, DeleteWrite(x) \/ DropWrite(x)
    PROVE  /\ sku' \in [Skus -> SkuRow]
           /\ \A s \in Skus :
                \/ sku'[s] = sku[s]
                \/ sku'[s].active = 0 /\ sku'[s].reserved = sku[s].reserved
<1> USE DEF TInv, TypeOK
<1>1. CASE DeleteWrite(x)
  <2>1. PICK gone : gone = [sku[seller[x].sku] EXCEPT !.deleted = TRUE, !.active = 0]
    OBVIOUS
  <2>2. seller[x].sku \in Skus
    BY DEF SellerState
  <2>3. gone \in SkuRow /\ gone.active = 0 /\ gone.reserved = sku[seller[x].sku].reserved
    BY <2>1, <2>2, DeletedRow
  <2>4. sku' = [sku EXCEPT ![seller[x].sku] = gone]
    BY <1>1, <2>1, <2>2 DEF DeleteWrite
  <2> QED
    BY <2>2, <2>3, <2>4
<1>2. CASE DropWrite(x)
  <2>1. ASSUME NEW s \in Skus
        PROVE  /\ sku'[s] \in SkuRow
               /\ \/ sku'[s] = sku[s]
                  \/ sku'[s].active = 0 /\ sku'[s].reserved = sku[s].reserved
    <3>1. CASE s \in LiveSkus
      <4>1. sku'[s] = [sku[s] EXCEPT !.deleted = TRUE, !.active = 0]
        BY <1>2, <3>1 DEF DropWrite
      <4>2. sku[s] \in SkuRow
        OBVIOUS
      <4> QED
        BY <4>1, <4>2, DeletedRow
    <3>2. CASE s \notin LiveSkus
      BY <1>2, <3>2 DEF DropWrite
    <3> QED
      BY <3>1, <3>2
  <2> QED
    BY <1>2, <2>1 DEF DropWrite
<1> QED
  BY <1>1, <1>2

-----------------------------------------------------------------------------
(* The rows keep their shape.                                              *)
LEMMA ApplyTyped ==
    ASSUME TInv, NEW c \in Clients, NEW kind \in Kinds, NEW valid,
           NEW a \in {-1, 0, 1}, NEW r \in {-1, 1},
           Apply(c, kind, valid, a, r)
    PROVE  TInv'
<1> USE DEF TInv, TypeOK
<1>1. sku' \in [Skus -> SkuRow] /\ client[c].items \in [Skus -> Rows]
  BY AppliedRows
<1>2. Key(c) \in Keys
  BY DEF Key, Keys, ClientState
<1>3. ops' \in [Keys -> [Skus -> Rows]]
  BY <1>1, <1>2 DEF Apply
<1>4. client' \in [Clients -> ClientState] /\ CallItems'
  BY IdleTyped DEF Apply, CallItems
<1>5. UNCHANGED <<product, seller, invoice>>
  BY DEF Apply
<1> QED
  BY <1>1, <1>3, <1>4, <1>5

LEMMA LookupTyped ==
    ASSUME TInv, NEW c \in Clients,
           \/ \E kind \in Kinds, o \in Orders, items \in OrderItems : Lookup(c, kind, o, items)
           \/ GiveUp(c)
    PROVE  TInv'
<1> USE DEF TInv, TypeOK
<1>1. ASSUME NEW kind \in Kinds, NEW o \in Orders, NEW items \in OrderItems,
             Lookup(c, kind, o, items)
      PROVE  TInv'
  <2>1. client' \in [Clients -> ClientState] /\ CallItems'
    BY <1>1, OrderRows DEF Lookup, ClientState, CallItems
  <2> QED
    BY <1>1, <2>1 DEF Lookup
<1>2. CASE GiveUp(c)
  <2>1. client' \in [Clients -> ClientState] /\ CallItems'
    BY <1>2, IdleTyped DEF GiveUp, CallItems
  <2> QED
    BY <1>2, <2>1 DEF GiveUp
<1> QED
  BY <1>1, <1>2

LEMMA RememberTyped ==
    ASSUME TInv, NEW x \in Sellers, NEW s \in Skus, NEW op \in SellerOps,
           Remember(x, op, s)
    PROVE  /\ TInv'
           /\ \E row \in {sku[s], Fresh} :
                /\ seller'[x].seen = row
                /\ \A y \in Sellers \ {x} : seller'[y] = seller[y]
           /\ seller'[x].pc # seller[x].pc
<1> USE DEF TInv, TypeOK
<1>1. PICK seen : seen = IF op = "edit" THEN sku[s] ELSE Fresh
  OBVIOUS
<1>2. seen \in SkuRow /\ seen \in {sku[s], Fresh}
  BY <1>1, FreshTyped
<1>3. op \in SellerOps /\ product.status \in Statuses /\ op # "idle"
  BY DEF Remember, ProductRow, SellerOps
<1>4. PICK status \in Statuses :
        seller' = [seller EXCEPT ![x] = [pc |-> op, sku |-> s, seen |-> seen, status |-> status]]
  BY <1>1, <1>3 DEF Remember, Statuses
<1>5. seller' \in [Sellers -> SellerState]
  BY <1>2, <1>3, <1>4 DEF SellerState
<1>6. TInv'
  BY <1>5 DEF Remember, CallItems
<1> QED
  BY <1>2, <1>3, <1>4, <1>6 DEF Remember

(* The writes: what remains to show of each is its SKU rows and product.   *)
LEMMA WriteTyped ==
    ASSUME TInv, NEW x \in Sellers,
           seller' = [seller EXCEPT ![x] = IdleSeller],
           UNCHANGED <<ops, client, invoice>>,
           sku' \in [Skus -> SkuRow], product' \in ProductRow
    PROVE  TInv'
  BY IdleTyped DEF TInv, TypeOK, CallItems

LEMMA SellerTyped ==
    ASSUME TInv, NEW x \in Sellers, SellerStep(x)
    PROVE  TInv'
<1>1. ASku \in Skus
  BY DEF ASku
<1>2. ASSUME NEW s \in Skus, EditRead(x, s) \/ DeleteRead(x, s)
      PROVE  TInv'
  BY <1>2, RememberTyped DEF EditRead, DeleteRead, SellerOps
<1>3. CASE ReviseRead(x) \/ DropRead(x)
  BY <1>1, <1>3, RememberTyped DEF ReviseRead, DropRead, SellerOps
<1>4. ASSUME NEW quantity \in Quantities \union {seller[x].seen.active},
             EditWrite(x, quantity)
      PROVE  TInv'
  <2>1. product' \in ProductRow
    BY <1>4 DEF EditWrite, ProductRow, Statuses, TInv, TypeOK
  <2> QED
    BY <1>4, <2>1, EditedRows, WriteTyped DEF EditWrite
<1>5. CASE DeleteWrite(x) \/ DropWrite(x)
  <2>1. product' \in ProductRow
    BY <1>5 DEF DeleteWrite, DropWrite, ProductRow, Statuses, TInv, TypeOK
  <2> QED
    BY <1>5, <2>1, DeletedRows, WriteTyped DEF DeleteWrite, DropWrite
<1>6. CASE ReviseWrite(x)
  <2>1. product' \in ProductRow /\ sku' \in [Skus -> SkuRow]
    BY <1>6 DEF ReviseWrite, ProductRow, SellerState, Statuses, TInv, TypeOK
  <2> QED
    BY <1>6, <2>1, WriteTyped DEF ReviseWrite
<1> QED
  BY <1>2, <1>3, <1>4, <1>5, <1>6 DEF SellerStep

LEMMA NextTyped ==
    ASSUME TInv, [Next]_stockVars
    PROVE  TInv'
<1>1. ASSUME NEW c \in Clients, ClientStep(c)
      PROVE  TInv'
  <2>1. CASE Reserve(c) \/ Unreserve(c) \/ Fulfill(c)
    BY <2>1, ApplyTyped DEF Reserve, Unreserve, Fulfill, Kinds
  <2> QED
    BY <1>1, <2>1, LookupTyped DEF ClientStep
<1>2. ASSUME NEW x \in Sellers, SellerStep(x)
      PROVE  TInv'
  BY <1>2, SellerTyped
<1>3. ASSUME NEW i \in Invoices, NEW items \in InvoiceItems, CreateInvoice(i, items)
      PROVE  TInv'
  BY <1>3 DEF CreateInvoice, TInv, TypeOK, CallItems
<1>4. ASSUME NEW i \in Invoices, AcceptInvoice(i)
      PROVE  TInv'
  BY <1>4, AcceptedRows, ZenonT(30) DEF AcceptInvoice, TInv, TypeOK, CallItems
<1>5. ASSUME NEW status \in {"MODERATED", "BLOCKED", "HARD_BLOCKED"}, Moderate(status)
      PROVE  TInv'
  BY <1>5 DEF Moderate, ProductRow, Statuses, TInv, TypeOK, CallItems
<1>6. CASE UNCHANGED stockVars
  BY <1>6 DEF stockVars, TInv, TypeOK, CallItems
<1> QED
  BY <1>1, <1>2, <1>3, <1>4, <1>5, <1>6 DEF Next

(* The tables and the requests under way keep their shape.                 *)
THEOREM StockTyped == Spec => []TypeOK
<1>1. TInv /\ [Next]_stockVars => TInv'
  BY NextTyped
<1>2. Init => TInv
  BY InitInv
<1>3. TInv => TypeOK
  BY DEF TInv
<1> QED
  BY <1>1, <1>2, <1>3, PTL DEF Spec

-----------------------------------------------------------------------------
(* The quantities stay at zero or above.                                   *)

(* A row is named, or moves nothing.                                       *)
LEMMA NamedRows ==
    ASSUME DistinctRows, TInv, NEW c \in Clients, NEW s \in Skus
    PROVE  LET row == client[c].items[s]
           IN  /\ row.sum \in Nat
               /\ row.top = row.sum
               /\ s \notin Named(client[c].items) => row.sum = 0
<1>1. client[c].items \in OrderItems \union {NoItems}
  BY DEF TInv, CallItems
<1>2. client[c].items[s] \in Rows
  BY <1>1, OrderRows
<1>3. client[c].items[s].top = client[c].items[s].sum
  BY <1>1 DEF DistinctRows, NoItems
<1> QED
  BY <1>2, <1>3 DEF Rows, Named

(* What the calls check keeps both columns of every SKU from going below   *)
(* zero.                                                                   *)
LEMMA ApplyNonNegative ==
    ASSUME DistinctRows, TInv, NInv, NEW c \in Clients,
           Reserve(c) \/ Unreserve(c) \/ Fulfill(c)
    PROVE  NInv'
<1>1. ASSUME NEW s \in Skus
      PROVE  sku'[s].active >= 0 /\ sku'[s].reserved >= 0
  <2>1. PICK n : n = client[c].items[s].sum
    OBVIOUS
  <2>2. /\ n \in Nat
        /\ client[c].items[s].top = n
        /\ s \notin Named(client[c].items) => n = 0
    BY <2>1, NamedRows
  <2>3. /\ sku[s].active \in Int /\ sku[s].active >= 0
        /\ sku[s].reserved \in Int /\ sku[s].reserved >= 0
    BY DEF TInv, TypeOK, SkuRow, NInv, NonNegative
  <2>4. CASE Reserve(c)
    <3>1. sku'[s].active = sku[s].active + (-1) * n /\ sku'[s].reserved = sku[s].reserved + 1 * n
      BY <2>1, <2>4, AppliedRows DEF Reserve, Kinds
    <3>2. sku[s].active >= n
      BY <2>2, <2>3, <2>4 DEF Reserve, Apply, CanReserve
    <3> QED
      BY <2>2, <2>3, <3>1, <3>2
  <2>5. CASE Unreserve(c)
    <3>1. sku'[s].active = sku[s].active + 1 * n /\ sku'[s].reserved = sku[s].reserved + (-1) * n
      BY <2>1, <2>5, AppliedRows DEF Unreserve, Kinds
    <3>2. sku[s].reserved >= n
      BY <2>2, <2>3, <2>5 DEF Unreserve, Apply, CanReturn
    <3> QED
      BY <2>2, <2>3, <3>1, <3>2
  <2>6. CASE Fulfill(c)
    <3>1. sku'[s].active = sku[s].active + 0 * n /\ sku'[s].reserved = sku[s].reserved + (-1) * n
      BY <2>1, <2>6, AppliedRows DEF Fulfill, Kinds
    <3>2. sku[s].reserved >= n
      BY <2>2, <2>3, <2>6 DEF Fulfill, Apply, CanReturn
    <3> QED
      BY <2>2, <2>3, <3>1, <3>2
  <2> QED
    BY <2>4, <2>5, <2>6
<1>2. UNCHANGED seller
  BY DEF Reserve, Unreserve, Fulfill, Apply
<1> QED
  BY <1>1, <1>2 DEF NInv, NonNegative, SeenNonNegative

LEMMA SellerNonNegative ==
    ASSUME TInv, NInv, NEW x \in Sellers, SellerStep(x)
    PROVE  NInv'
<1> USE DEF NInv, NonNegative, SeenNonNegative
<1>1. ASSUME NEW s \in Skus, NEW op \in SellerOps, Remember(x, op, s)
      PROVE  NInv'
  <2>1. UNCHANGED sku
    BY <1>1 DEF Remember
  <2> QED
    BY <1>1, <2>1, FreshTyped, RememberTyped
<1>2. ASSUME NEW s \in Skus, EditRead(x, s) \/ DeleteRead(x, s)
      PROVE  NInv'
  BY <1>1, <1>2 DEF EditRead, DeleteRead, SellerOps
<1>3. CASE ReviseRead(x) \/ DropRead(x)
  <2>1. ASku \in Skus
    BY DEF ASku
  <2> QED
    BY <1>1, <1>3, <2>1 DEF ReviseRead, DropRead, SellerOps
<1>4. ASSUME seller' = [seller EXCEPT ![x] = IdleSeller]
      PROVE  SeenNonNegative'
  BY <1>4, IdleTyped, FreshTyped DEF TInv, TypeOK
<1>5. ASSUME NEW quantity \in Quantities \union {seller[x].seen.active},
             EditWrite(x, quantity)
      PROVE  NInv'
  <2>1. quantity >= 0
    OBVIOUS
  <2> QED
    BY <1>4, <1>5, <2>1, EditedRows DEF EditWrite
<1>6. CASE DeleteWrite(x) \/ DropWrite(x)
  <2>1. seller' = [seller EXCEPT ![x] = IdleSeller]
    BY <1>6 DEF DeleteWrite, DropWrite
  <2>2. \A s \in Skus : sku'[s].active >= 0 /\ sku'[s].reserved >= 0
    BY <1>6, DeletedRows
  <2> QED
    BY <1>4, <2>1, <2>2
<1>7. CASE ReviseWrite(x)
  BY <1>4, <1>7 DEF ReviseWrite
<1> QED
  BY <1>2, <1>3, <1>5, <1>6, <1>7 DEF SellerStep

LEMMA NextNonNegative ==
    ASSUME DistinctRows, TInv, NInv, [Next]_stockVars
    PROVE  NInv'
<1> USE DEF NInv, NonNegative, SeenNonNegative
<1>1. ASSUME NEW c \in Clients, ClientStep(c)
      PROVE  NInv'
  <2>1. CASE Reserve(c) \/ Unreserve(c) \/ Fulfill(c)
    BY <2>1, ApplyNonNegative
  <2> QED
    BY <1>1, <2>1 DEF ClientStep, Lookup, GiveUp
<1>2. ASSUME NEW x \in Sellers, SellerStep(x)
      PROVE  NInv'
  BY <1>2, SellerNonNegative
<1>3. ASSUME NEW i \in Invoices, AcceptInvoice(i)
      PROVE  NInv'
  <2>1. UNCHANGED seller
    BY <1>3 DEF AcceptInvoice
  <2>2. ASSUME NEW s \in Skus
        PROVE  sku'[s].active >= 0 /\ sku'[s].reserved >= 0
    <3>1. /\ invoice[i].items[s] \in Nat
          /\ sku'[s].active = sku[s].active + invoice[i].items[s]
          /\ sku'[s].reserved = sku[s].reserved
      BY <1>3, AcceptedRows
    <3>2. sku[s].active \in Int /\ sku[s].active >= 0 /\ sku[s].reserved >= 0
      BY DEF TInv, TypeOK, SkuRow
    <3> QED
      BY <3>1, <3>2
  <2> QED
    BY <2>1, <2>2
<1>4. CASE \/ \E i \in Invoices, items \in InvoiceItems : CreateInvoice(i, items)
           \/ \E status \in {"MODERATED", "BLOCKED", "HARD_BLOCKED"} : Moderate(status)
           \/ UNCHANGED stockVars
  <2>1. UNCHANGED <<sku, seller>>
    BY <1>4 DEF CreateInvoice, Moderate, stockVars
  <2> QED
    BY <2>1
<1> QED
  BY <1>1, <1>2, <1>3, <1>4 DEF Next

(* When no item list names a SKU twice, no interleaving of calls, edits,   *)
(* deletions, invoices and decisions takes active_quantity or              *)
(* reserved_quantity below zero.                                           *)
THEOREM StockNonNegative ==
    ASSUME DistinctRows
    PROVE  Spec => []NonNegative
<1>1. TInv /\ NInv /\ [Next]_stockVars => TInv' /\ NInv'
  BY NextTyped, NextNonNegative
<1>2. Init => TInv /\ NInv
  BY InitInv
<1>3. NInv => NonNegative
  BY DEF NInv
<1> QED
  BY <1>1, <1>2, <1>3, PTL DEF Spec

-----------------------------------------------------------------------------
(* The books.                                                              *)
Collected(book, kind, s) == [o \in Orders |-> book[<<kind, o>>][s].sum]
AcceptedIn(papers) == {i \in Invoices : papers[i].status = "ACCEPTED"}
Delivered(papers, s) == [i \in AcceptedIn(papers) |-> papers[i].items[s]]

LEMMA MovedSum ==
    ASSUME NEW kind, NEW s
    PROVE  Moved(kind, s) = Sum(Collected(ops, kind, s), Orders)
<1>1. Moved(kind, s) = (CHOOSE sum : sum = [T \in SUBSET Orders |->
                IF T = {} THEN 0 ELSE ops[<<kind, Pick(T)>>][s].sum + sum[T \ {Pick(T)}]])[Orders]
  BY DEF Moved, MapThenSumSet, MapThenFoldSet, Pick
<1>2. ASSUME NEW T \in SUBSET Orders, T # {}
      PROVE  Collected(ops, kind, s)[Pick(T)] = ops[<<kind, Pick(T)>>][s].sum
  BY <1>2 DEF Collected, Pick
<1>3. ASSUME NEW sum
      PROVE  [T \in SUBSET Orders |->
                IF T = {} THEN 0 ELSE ops[<<kind, Pick(T)>>][s].sum + sum[T \ {Pick(T)}]]
             = [T \in SUBSET Orders |->
                IF T = {} THEN 0 ELSE Collected(ops, kind, s)[Pick(T)] + sum[T \ {Pick(T)}]]
  BY <1>2
<1>4. (CHOOSE sum : sum = [T \in SUBSET Orders |->
                IF T = {} THEN 0 ELSE ops[<<kind, Pick(T)>>][s].sum + sum[T \ {Pick(T)}]])
      = (CHOOSE sum : sum = [T \in SUBSET Orders |->
                IF T = {} THEN 0 ELSE Collected(ops, kind, s)[Pick(T)] + sum[T \ {Pick(T)}]])
  BY <1>3, Zenon
<1>5. Sum(Collected(ops, kind, s), Orders) = (CHOOSE sum : sum = [T \in SUBSET Orders |->
                IF T = {} THEN 0 ELSE Collected(ops, kind, s)[Pick(T)] + sum[T \ {Pick(T)}]])[Orders]
  BY DEF Sum, Sums
<1> QED
  BY <1>1, <1>4, <1>5, Zenon

LEMMA MovedSumNext ==
    ASSUME NEW kind, NEW s
    PROVE  Moved(kind, s)' = Sum(Collected(ops', kind, s), Orders)
<1>1. Moved(kind, s)' = (CHOOSE sum : sum = [T \in SUBSET Orders |->
                IF T = {} THEN 0 ELSE ops'[<<kind, Pick(T)>>][s].sum + sum[T \ {Pick(T)}]])[Orders]
  BY DEF Moved, MapThenSumSet, MapThenFoldSet, Pick
<1>2. ASSUME NEW T \in SUBSET Orders, T # {}
      PROVE  Collected(ops', kind, s)[Pick(T)] = ops'[<<kind, Pick(T)>>][s].sum
  BY <1>2 DEF Collected, Pick
<1>3. ASSUME NEW sum
      PROVE  [T \in SUBSET Orders |->
                IF T = {} THEN 0 ELSE ops'[<<kind, Pick(T)>>][s].sum + sum[T \ {Pick(T)}]]
             = [T \in SUBSET Orders |->
                IF T = {} THEN 0 ELSE Collected(ops', kind, s)[Pick(T)] + sum[T \ {Pick(T)}]]
  BY <1>2
<1>4. (CHOOSE sum : sum = [T \in SUBSET Orders |->
                IF T = {} THEN 0 ELSE ops'[<<kind, Pick(T)>>][s].sum + sum[T \ {Pick(T)}]])
      = (CHOOSE sum : sum = [T \in SUBSET Orders |->
                IF T = {} THEN 0 ELSE Collected(ops', kind, s)[Pick(T)] + sum[T \ {Pick(T)}]])
  BY <1>3, Zenon
<1>5. Sum(Collected(ops', kind, s), Orders) = (CHOOSE sum : sum = [T \in SUBSET Orders |->
                IF T = {} THEN 0 ELSE Collected(ops', kind, s)[Pick(T)] + sum[T \ {Pick(T)}]])[Orders]
  BY DEF Sum, Sums
<1> QED
  BY <1>1, <1>4, <1>5, Zenon

LEMMA BroughtSum ==
    ASSUME NEW s
    PROVE  Brought(s) = Sum(Delivered(invoice, s), AcceptedIn(invoice))
<1>1. PICK A : A = {i \in Invoices : invoice[i].status = "ACCEPTED"}
  OBVIOUS
<1>2. Brought(s) = (CHOOSE sum : sum = [T \in SUBSET A |->
                IF T = {} THEN 0 ELSE invoice[Pick(T)].items[s] + sum[T \ {Pick(T)}]])[A]
  BY <1>1 DEF Brought, MapThenSumSet, MapThenFoldSet, Pick
<1>3. (CHOOSE sum : sum = [T \in SUBSET A |->
         IF T = {} THEN 0 ELSE invoice[Pick(T)].items[s] + sum[T \ {Pick(T)}]])[A]
        = Sum([i \in A |-> invoice[i].items[s]], A)
  BY ZenonT(30) DEF Sum, Sums, Pick
<1> QED
  BY <1>1, <1>2, <1>3 DEF Delivered, AcceptedIn

LEMMA BroughtSumNext ==
    ASSUME NEW s
    PROVE  Brought(s)' = Sum(Delivered(invoice', s), AcceptedIn(invoice'))
<1>1. PICK A : A = {i \in Invoices : invoice'[i].status = "ACCEPTED"}
  OBVIOUS
<1>2. Brought(s)' = (CHOOSE sum : sum = [T \in SUBSET A |->
                IF T = {} THEN 0 ELSE invoice'[Pick(T)].items[s] + sum[T \ {Pick(T)}]])[A]
  BY <1>1 DEF Brought, MapThenSumSet, MapThenFoldSet, Pick
<1>3. (CHOOSE sum : sum = [T \in SUBSET A |->
         IF T = {} THEN 0 ELSE invoice'[Pick(T)].items[s] + sum[T \ {Pick(T)}]])[A]
        = Sum([i \in A |-> invoice'[i].items[s]], A)
  BY ZenonT(30) DEF Sum, Sums, Pick
<1> QED
  BY <1>1, <1>2, <1>3 DEF Delivered, AcceptedIn

LEMMA BooksTyped ==
    ASSUME IsFiniteSet(Orders), IsFiniteSet(Invoices), TInv, NEW s \in Skus
    PROVE  /\ \A kind \in Kinds : Moved(kind, s) \in Int
           /\ Brought(s) \in Int
           /\ \A kind \in Kinds : Collected(ops, kind, s) \in [Orders -> Int]
           /\ Delivered(invoice, s) \in [AcceptedIn(invoice) -> Int]
           /\ IsFiniteSet(AcceptedIn(invoice))
<1>1. ASSUME NEW kind \in Kinds
      PROVE  Collected(ops, kind, s) \in [Orders -> Int]
  <2>1. \A o \in Orders : ops[<<kind, o>>] \in [Skus -> Rows]
    BY DEF TInv, TypeOK, Keys
  <2>2. \A o \in Orders : ops[<<kind, o>>][s].sum \in Int
    BY <2>1 DEF Rows
  <2> QED
    BY <2>2 DEF Collected
<1>2. AcceptedIn(invoice) \subseteq Invoices
  BY DEF AcceptedIn
<1>3. Delivered(invoice, s) \in [AcceptedIn(invoice) -> Int]
  BY <1>2 DEF Delivered, TInv, TypeOK
<1>4. IsFiniteSet(AcceptedIn(invoice))
  BY <1>2, FS_Subset
<1>5. \A kind \in Kinds : Sum(Collected(ops, kind, s), Orders) \in Int
  BY <1>1, SumInt
<1>6. Sum(Delivered(invoice, s), AcceptedIn(invoice)) \in Int
  BY <1>3, <1>4, SumInt
<1> QED
  BY <1>1, <1>3, <1>4, <1>5, <1>6, MovedSum, BroughtSum

LEMMA BooksTypedNext ==
    ASSUME IsFiniteSet(Orders), IsFiniteSet(Invoices), TInv', NEW s \in Skus
    PROVE  /\ \A kind \in Kinds : Collected(ops', kind, s) \in [Orders -> Int]
           /\ Delivered(invoice', s) \in [AcceptedIn(invoice') -> Int]
           /\ IsFiniteSet(AcceptedIn(invoice'))
<1>1. ASSUME NEW kind \in Kinds
      PROVE  Collected(ops', kind, s) \in [Orders -> Int]
  <2>1. \A o \in Orders : ops'[<<kind, o>>] \in [Skus -> Rows]
    BY DEF TInv, TypeOK, Keys
  <2>2. \A o \in Orders : ops'[<<kind, o>>][s].sum \in Int
    BY <2>1 DEF Rows
  <2> QED
    BY <2>2 DEF Collected
<1>2. AcceptedIn(invoice') \subseteq Invoices
  BY DEF AcceptedIn
<1>3. Delivered(invoice', s) \in [AcceptedIn(invoice') -> Int]
  BY <1>2 DEF Delivered, TInv, TypeOK
<1> QED
  BY <1>1, <1>2, <1>3, FS_Subset

LEMMA BooksSame ==
    ASSUME NEW s \in Skus
    PROVE  /\ UNCHANGED ops => \A kind \in Kinds : Moved(kind, s)' = Moved(kind, s)
           /\ UNCHANGED invoice => Brought(s)' = Brought(s)
<1>1. UNCHANGED ops => \A kind \in Kinds : Collected(ops', kind, s) = Collected(ops, kind, s)
  BY DEF Collected
<1>2. UNCHANGED invoice => /\ Delivered(invoice', s) = Delivered(invoice, s)
                           /\ AcceptedIn(invoice') = AcceptedIn(invoice)
  BY DEF Delivered, AcceptedIn
<1> QED
  BY <1>1, <1>2, MovedSum, MovedSumNext, BroughtSum, BroughtSumNext

(* A call books what it carries, under its own kind.                       *)
LEMMA ApplyBooks ==
    ASSUME IsFiniteSet(Orders), IsFiniteSet(Invoices), TInv,
           NEW c \in Clients, NEW kind \in Kinds, NEW valid,
           NEW a \in {-1, 0, 1}, NEW r \in {-1, 1}, Apply(c, kind, valid, a, r),
           NEW s \in Skus, NEW k \in Kinds
    PROVE  Moved(k, s)' = Moved(k, s) + (IF k = kind THEN client[c].items[s].sum ELSE 0)
<1>1. PICK o \in Orders : o = client[c].order
  BY DEF TInv, TypeOK, ClientState
<1>2. Key(c) = <<kind, o>> /\ Key(c) \in Keys
  BY <1>1 DEF Apply, Key, Keys
<1>3. ops[<<kind, o>>] = NoItems /\ ops' = [ops EXCEPT ![<<kind, o>>] = client[c].items]
  BY <1>2 DEF Apply, Recorded
<1>4. /\ \A b \in Orders \ {o} : ops'[<<k, b>>] = ops[<<k, b>>]
      /\ k # kind => ops'[<<k, o>>] = ops[<<k, o>>]
      /\ k = kind => /\ ops[<<k, o>>][s].sum = 0
                     /\ ops'[<<k, o>>][s].sum = client[c].items[s].sum
  <2>1. \A b \in Orders : <<k, b>> \in Keys
    BY DEF Keys
  <2>2. ASSUME NEW b \in Orders, b # o \/ k # kind
        PROVE  ops'[<<k, b>>] = ops[<<k, b>>]
    <3>1. <<k, b>> # <<kind, o>>
      BY <2>2
    <3> QED
      BY <1>3, <2>1, <3>1 DEF TInv, TypeOK
  <2>3. ASSUME k = kind
        PROVE  ops[<<k, o>>][s].sum = 0 /\ ops'[<<k, o>>][s].sum = client[c].items[s].sum
    BY <1>3, <2>1, <2>3 DEF TInv, TypeOK, NoItems
  <2> QED
    BY <2>2, <2>3
<1>5. PICK f : f = Collected(ops, k, s)
  OBVIOUS
<1>6. PICK g : g = Collected(ops', k, s)
  OBVIOUS
<1>7. /\ \A b \in Orders \ {o} : f[b] = g[b]
      /\ k # kind => g[o] = f[o]
      /\ k = kind => f[o] = 0 /\ g[o] = client[c].items[s].sum
  BY <1>4, <1>5, <1>6 DEF Collected
<1>8. f \in [Orders -> Int] /\ g \in [Orders -> Int]
  BY <1>5, <1>6, BooksTyped, BooksTypedNext, ApplyTyped
<1>9. Sum(g, Orders) - Sum(f, Orders) = g[o] - f[o]
  BY <1>7, <1>8, SumChanges
<1>10. Sum(g, Orders) \in Int /\ Sum(f, Orders) \in Int /\ g[o] \in Int /\ f[o] \in Int
  BY <1>8, SumInt
<1>11. Moved(k, s) = Sum(f, Orders) /\ Moved(k, s)' = Sum(g, Orders)
  BY <1>5, <1>6, MovedSum, MovedSumNext
<1> QED
  BY <1>7, <1>9, <1>10, <1>11

LEMMA InvoiceBooks ==
    ASSUME IsFiniteSet(Orders), IsFiniteSet(Invoices), TInv, NEW s \in Skus, NEW i \in Invoices
    PROVE  /\ (\E items \in InvoiceItems : CreateInvoice(i, items)) => Brought(s)' = Brought(s)
           /\ AcceptInvoice(i) => Brought(s)' = Brought(s) + invoice[i].items[s]
<1> USE DEF TInv, TypeOK
<1>1. ASSUME NEW items \in InvoiceItems, CreateInvoice(i, items)
      PROVE  Brought(s)' = Brought(s)
  <2>1. /\ invoice[i].status = "NONE"
        /\ invoice' = [invoice EXCEPT ![i] = [status |-> "PENDING", items |-> items]]
    BY <1>1 DEF CreateInvoice
  <2>2. AcceptedIn(invoice') = AcceptedIn(invoice)
    BY <2>1 DEF AcceptedIn
  <2>3. \A j \in AcceptedIn(invoice) : invoice'[j] = invoice[j]
    BY <2>1 DEF AcceptedIn
  <2>4. Delivered(invoice', s) = Delivered(invoice, s)
    BY <2>2, <2>3 DEF Delivered
  <2> QED
    BY <2>2, <2>4, BroughtSum, BroughtSumNext
<1>2. ASSUME AcceptInvoice(i)
      PROVE  Brought(s)' = Brought(s) + invoice[i].items[s]
  <2>1. /\ invoice[i].status = "PENDING"
        /\ invoice' = [invoice EXCEPT ![i].status = "ACCEPTED"]
    BY <1>2 DEF AcceptInvoice
  <2>2. PICK A : A = AcceptedIn(invoice)
    OBVIOUS
  <2>3. i \notin A /\ AcceptedIn(invoice') = A \union {i}
    BY <2>1, <2>2 DEF AcceptedIn
  <2>4. \A j \in A \union {i} : invoice'[j].items = invoice[j].items
    BY <2>1, <2>2 DEF AcceptedIn
  <2>5. PICK f : f = Delivered(invoice, s)
    OBVIOUS
  <2>6. PICK g : g = Delivered(invoice', s)
    OBVIOUS
  <2>7. g[i] = invoice[i].items[s] /\ \A j \in A : f[j] = g[j]
    BY <2>2, <2>3, <2>4, <2>5, <2>6 DEF Delivered
  <2>8. TInv'
    BY <1>2, NextTyped DEF Next
  <2>9. /\ IsFiniteSet(A) /\ IsFiniteSet(A \union {i})
        /\ f \in [A -> Int] /\ g \in [A \union {i} -> Int]
    BY <2>2, <2>3, <2>5, <2>6, <2>8, BooksTyped, BooksTypedNext
  <2>10. Sum(g, A \union {i}) = g[i] + Sum(g, A)
    <3>1. PICK B : B = A \union {i}
      OBVIOUS
    <3>2. IsFiniteSet(B) /\ g \in [B -> Int] /\ i \in B /\ B \in SUBSET B /\ B \ {i} = A
      BY <2>3, <2>9, <3>1
    <3>3. Sum(g, B) = g[i] + Sum(g, B \ {i})
      BY <3>2, SumTake
    <3> QED
      BY <3>1, <3>2, <3>3
  <2>11. Sum(g, A) = Sum(f, A)
    BY <2>7, <2>9, SumSame
  <2>12. Sum(f, A) \in Int /\ g[i] \in Int
    BY <2>9, SumInt
  <2>13. Brought(s) = Sum(f, A) /\ Brought(s)' = Sum(g, A \union {i})
    BY <2>2, <2>3, <2>5, <2>6, BroughtSum, BroughtSumNext
  <2> QED
    BY <2>7, <2>10, <2>11, <2>12, <2>13
<1> QED
  BY <1>1, <1>2

(* What a step leaves alone, it does not book.                             *)
Booked(s) ==
    /\ sku'[s].reserved - sku[s].reserved = BookedReserved(s)' - BookedReserved(s)
    /\ sku'[s].active - sku[s].active = BookedActive(s)' - BookedActive(s)

LEMMA IdleBooked ==
    ASSUME IsFiniteSet(Orders), IsFiniteSet(Invoices), TInv, NEW s \in Skus,
           UNCHANGED <<sku, ops>>, Brought(s)' = Brought(s)
    PROVE  Booked(s)
<1>1. /\ Moved("RESERVE", s)' = Moved("RESERVE", s)
      /\ Moved("UNRESERVE", s)' = Moved("UNRESERVE", s)
      /\ Moved("FULFILL", s)' = Moved("FULFILL", s)
  BY BooksSame DEF Kinds
<1>2. /\ Moved("RESERVE", s) \in Int /\ Moved("UNRESERVE", s) \in Int
      /\ Moved("FULFILL", s) \in Int /\ Brought(s) \in Int
  BY BooksTyped DEF Kinds
<1>3. sku[s].active \in Int /\ sku[s].reserved \in Int
  BY DEF TInv, TypeOK, SkuRow
<1> QED
  BY <1>1, <1>2, <1>3 DEF Booked, BookedReserved, BookedActive

LEMMA ApplyBooked ==
    ASSUME IsFiniteSet(Orders), IsFiniteSet(Invoices), TInv, NEW s \in Skus,
           NEW c \in Clients, Reserve(c) \/ Unreserve(c) \/ Fulfill(c)
    PROVE  Booked(s)
<1>1. PICK n : n = client[c].items[s].sum
  OBVIOUS
<1>2. /\ Moved("RESERVE", s) \in Int /\ Moved("UNRESERVE", s) \in Int
      /\ Moved("FULFILL", s) \in Int /\ Brought(s) \in Int
  BY BooksTyped DEF Kinds
<1>3. sku[s].active \in Int /\ sku[s].reserved \in Int
  BY DEF TInv, TypeOK, SkuRow
<1>4. Brought(s)' = Brought(s)
  BY BooksSame DEF Reserve, Unreserve, Fulfill, Apply
<1>5. CASE Reserve(c)
  <2>1. /\ Moved("RESERVE", s)' = Moved("RESERVE", s) + n
        /\ Moved("UNRESERVE", s)' = Moved("UNRESERVE", s) + 0
        /\ Moved("FULFILL", s)' = Moved("FULFILL", s) + 0
    BY <1>1, <1>5, ApplyBooks DEF Reserve, Kinds
  <2>2. /\ n \in Nat
        /\ sku'[s].active = sku[s].active + (-1) * n
        /\ sku'[s].reserved = sku[s].reserved + 1 * n
    BY <1>1, <1>5, AppliedRows DEF Reserve, Kinds
  <2> QED
    BY <1>2, <1>3, <1>4, <2>1, <2>2 DEF Booked, BookedReserved, BookedActive
<1>6. CASE Unreserve(c)
  <2>1. /\ Moved("RESERVE", s)' = Moved("RESERVE", s) + 0
        /\ Moved("UNRESERVE", s)' = Moved("UNRESERVE", s) + n
        /\ Moved("FULFILL", s)' = Moved("FULFILL", s) + 0
    BY <1>1, <1>6, ApplyBooks DEF Unreserve, Kinds
  <2>2. /\ n \in Nat
        /\ sku'[s].active = sku[s].active + 1 * n
        /\ sku'[s].reserved = sku[s].reserved + (-1) * n
    BY <1>1, <1>6, AppliedRows DEF Unreserve, Kinds
  <2> QED
    BY <1>2, <1>3, <1>4, <2>1, <2>2 DEF Booked, BookedReserved, BookedActive
<1>7. CASE Fulfill(c)
  <2>1. /\ Moved("RESERVE", s)' = Moved("RESERVE", s) + 0
        /\ Moved("UNRESERVE", s)' = Moved("UNRESERVE", s) + 0
        /\ Moved("FULFILL", s)' = Moved("FULFILL", s) + n
    BY <1>1, <1>7, ApplyBooks DEF Fulfill, Kinds
  <2>2. /\ n \in Nat
        /\ sku'[s].active = sku[s].active + 0 * n
        /\ sku'[s].reserved = sku[s].reserved + (-1) * n
    BY <1>1, <1>7, AppliedRows DEF Fulfill, Kinds
  <2> QED
    BY <1>2, <1>3, <1>4, <2>1, <2>2 DEF Booked, BookedReserved, BookedActive
<1> QED
  BY <1>5, <1>6, <1>7

LEMMA AcceptBooked ==
    ASSUME IsFiniteSet(Orders), IsFiniteSet(Invoices), TInv, NEW s \in Skus,
           NEW i \in Invoices, AcceptInvoice(i)
    PROVE  Booked(s)
<1>1. PICK n : n = invoice[i].items[s]
  OBVIOUS
<1>2. /\ Moved("RESERVE", s) \in Int /\ Moved("UNRESERVE", s) \in Int
      /\ Moved("FULFILL", s) \in Int /\ Brought(s) \in Int
  BY BooksTyped DEF Kinds
<1>3. sku[s].active \in Int /\ sku[s].reserved \in Int
  BY DEF TInv, TypeOK, SkuRow
<1>4. /\ Moved("RESERVE", s)' = Moved("RESERVE", s)
      /\ Moved("UNRESERVE", s)' = Moved("UNRESERVE", s)
      /\ Moved("FULFILL", s)' = Moved("FULFILL", s)
  BY BooksSame DEF AcceptInvoice, Kinds
<1>5. Brought(s)' = Brought(s) + n
  BY <1>1, InvoiceBooks
<1>6. n \in Nat /\ sku'[s].active = sku[s].active + n /\ sku'[s].reserved = sku[s].reserved
  BY <1>1, AcceptedRows
<1> QED
  BY <1>2, <1>3, <1>4, <1>5, <1>6 DEF Booked, BookedReserved, BookedActive

(* Every step of a seller's request is one of that request.                *)
LEMMA SellerMoves ==
    ASSUME TInv, NEW x \in Sellers, SellerStep(x)
    PROVE  seller' # seller
<1>1. ASSUME NEW s \in Skus, NEW op \in SellerOps, Remember(x, op, s)
      PROVE  seller' # seller
  BY <1>1, RememberTyped
<1>2. ASSUME NEW s \in Skus, EditRead(x, s) \/ DeleteRead(x, s)
      PROVE  seller' # seller
  BY <1>1, <1>2 DEF EditRead, DeleteRead, SellerOps
<1>3. CASE ReviseRead(x) \/ DropRead(x)
  <2>1. ASku \in Skus
    BY DEF ASku
  <2> QED
    BY <1>1, <1>3, <2>1 DEF ReviseRead, DropRead, SellerOps
<1>4. ASSUME seller' = [seller EXCEPT ![x] = IdleSeller], seller[x].pc # "idle"
      PROVE  seller' # seller
  BY <1>4 DEF IdleSeller, TInv, TypeOK
<1>5. CASE \/ \E quantity \in Quantities \union {seller[x].seen.active} : EditWrite(x, quantity)
           \/ DeleteWrite(x) \/ ReviseWrite(x) \/ DropWrite(x)
  BY <1>4, <1>5 DEF EditWrite, DeleteWrite, ReviseWrite, DropWrite
<1> QED
  BY <1>2, <1>3, <1>5 DEF SellerStep

LEMMA StepBooked ==
    ASSUME IsFiniteSet(Orders), IsFiniteSet(Invoices), TInv, [Next]_stockVars,
           seller' = seller, NEW s \in Skus
    PROVE  Booked(s)
<1>1. ASSUME NEW c \in Clients, ClientStep(c)
      PROVE  Booked(s)
  <2>1. CASE Reserve(c) \/ Unreserve(c) \/ Fulfill(c)
    BY <2>1, ApplyBooked
  <2>2. CASE ~(Reserve(c) \/ Unreserve(c) \/ Fulfill(c))
    <3>1. UNCHANGED <<sku, ops, invoice>>
      BY <1>1, <2>2 DEF ClientStep, Lookup, GiveUp
    <3> QED
      BY <3>1, BooksSame, IdleBooked
  <2> QED
    BY <2>1, <2>2
<1>2. ASSUME NEW i \in Invoices, NEW items \in InvoiceItems, CreateInvoice(i, items)
      PROVE  Booked(s)
  BY <1>2, InvoiceBooks, IdleBooked DEF CreateInvoice
<1>3. ASSUME NEW i \in Invoices, AcceptInvoice(i)
      PROVE  Booked(s)
  BY <1>3, AcceptBooked
<1>4. CASE \/ \E status \in {"MODERATED", "BLOCKED", "HARD_BLOCKED"} : Moderate(status)
           \/ UNCHANGED stockVars
  <2>1. UNCHANGED <<sku, ops, invoice>>
    BY <1>4 DEF Moderate, stockVars
  <2> QED
    BY <2>1, BooksSame, IdleBooked
<1> QED
  BY <1>1, <1>2, <1>3, <1>4, SellerMoves DEF Next

(* However calls are repeated, raced and rolled back, and whatever rows an *)
(* order repeats, the quantities of a SKU move exactly as the recorded     *)
(* operations and the accepted invoices add up, except where a request of  *)
(* the seller sets them.  Orders and invoices are finitely many.           *)
THEOREM StockAccounted ==
    ASSUME IsFiniteSet(Orders), IsFiniteSet(Invoices)
    PROVE  Spec => Accounted
<1>1. TInv /\ [Next]_stockVars => TInv'
  BY NextTyped
<1>2. Init => TInv
  BY InitInv
<1>3. TInv /\ [Next]_stockVars
        => [seller' = seller =>
              \A s \in Skus :
                /\ sku'[s].reserved - sku[s].reserved = BookedReserved(s)' - BookedReserved(s)
                /\ sku'[s].active - sku[s].active = BookedActive(s)' - BookedActive(s)]_stockVars
  BY StepBooked DEF Booked
<1> QED
  BY <1>1, <1>2, <1>3, PTL DEF Spec, Accounted
=============================================================================
