------------------------------ MODULE Cart_proofs ------------------------------
(* What holds of a customer's carts for any number of SKUs, requests and   *)
(* quantities.                                                             *)
EXTENDS Cart, TLAPS, WellFoundedInduction

USE CartAssumption

WritesFunction == writes = [r \in Requests |-> writes[r]]

(* A row is written or locked by one open transaction at most.             *)
Locks ==
    \A r, o \in Requests : r # o => DOMAIN writes[r] \intersect DOMAIN writes[o] = {}

(* Row i is one that r has created and not committed ...                   *)
Fresh(r, i) ==
    i \in DOMAIN writes[r] /\ writes[r][i].cart # NoCart /\ item[i].cart = NoCart

(* ... which nobody else is about to raise.                                *)
Unseen ==
    \A r, o \in Requests, i \in ItemIds :
        r # o /\ Fresh(o, i) /\ request[r].pc = "save" => request[r].row # i

(* What a transaction has written keeps its SKU and has a chosen quantity, *)
(* unless it is the item just added.                                       *)
WritesSound(r) ==
    /\ DOMAIN writes[r] # {} => Transaction(r)
    /\ \A i \in DOMAIN writes[r] : writes[r][i].cart # NoCart =>
         /\ \/ writes[r][i].quantity \in chosen[writes[r][i].sku]
            \/ request[r].op = "add" /\ request[r].pc = "write" /\ request[r].row = i
         /\ item[i].cart # NoCart => writes[r][i].sku = item[i].sku

(* So have the listed items and the one about to be raised.                *)
MergeSound(r) ==
    /\ \A g \in request[r].todo : g.quantity \in chosen[g.sku]
    /\ request[r].pc \in {"save", "move", "write"} => request[r].row \in ItemIds
    /\ request[r].pc = "save" /\ Seen(r)[request[r].row].cart # NoCart
         => request[r].new \in chosen[Seen(r)[request[r].row].sku]

(* An add counts on a row it has locked.                                   *)
AddSound(r) ==
    /\ request[r].who # "both" => request[r].pc \in {"idle", "work", "write"}
    /\ request[r].pc = "idle" => DOMAIN writes[r] = {}
    /\ request[r].who # "both" /\ request[r].pc = "work" => DOMAIN writes[r] = {}
    /\ request[r].op = "add" /\ request[r].pc = "write" =>
         /\ request[r].row \in DOMAIN writes[r]
         /\ writes[r][request[r].row].sku = request[r].sku
         /\ writes[r][request[r].row].cart # NoCart
         /\ request[r].who # "both" /\ item[request[r].row].cart # NoCart
              => request[r].new = item[request[r].row].quantity + request[r].asked

Sound(r) == WritesSound(r) /\ MergeSound(r) /\ AddSound(r)

(* QuantityChosen is kept by a commit because of WritesSound and by the    *)
(* save of a merge because of MergeSound, whose last conjunct survives the *)
(* commits of others by Unseen.                                            *)
IInv ==
    /\ TypeOK
    /\ WritesFunction
    /\ QuantityChosen
    /\ Locks
    /\ Unseen
    /\ \A r \in Requests : Sound(r)

-----------------------------------------------------------------------------
LEMMA NoItemTyped == NoItem \in CartItem /\ NoItem.cart = NoCart /\ AnySku \in Skus
  BY DEF NoItem, CartItem, AnySku, Quantities

LEMMA IdleTyped == Idle \in RequestState
  BY NoItemTyped DEF Idle, RequestState, Carts, Quantities, UserCart, NoRow

LEMMA NoWritesTyped ==
    DOMAIN NoWrites = {} /\ NoWrites \in [DOMAIN NoWrites -> CartItem]
  BY DEF NoWrites

LEMMA InitInv == Init => IInv
<1> SUFFICES ASSUME Init PROVE IInv
  OBVIOUS
<1>1. \A r \in Requests : request[r] = Idle /\ writes[r] = NoWrites
  BY DEF Init
<1>2. TypeOK
  <2>1. item \in [ItemIds -> CartItem]
    BY NoItemTyped DEF Init
  <2>2. session \in Carts \ {UserCart} /\ arrivals \in 0..MaxArrivals
    BY DEF Init, Carts, UserCart
  <2>7. touched \in BOOLEAN
    BY DEF Init
  <2>3. request \in [Requests -> RequestState]
    BY IdleTyped DEF Init
  <2>4. DOMAIN writes = Requests
    BY DEF Init
  <2>5. ASSUME NEW r \in Requests
        PROVE  DOMAIN writes[r] \subseteq ItemIds /\ writes[r] \in [DOMAIN writes[r] -> CartItem]
    <3>1. writes[r] = NoWrites
      BY <1>1
    <3>2. DOMAIN writes[r] \subseteq ItemIds
      BY <3>1, NoWritesTyped
    <3>3. writes[r] \in [DOMAIN writes[r] -> CartItem]
      BY <3>1, NoWritesTyped
    <3> QED
      BY <3>2, <3>3
  <2>6. chosen \in [Skus -> SUBSET Quantities]
    BY DEF Init
  <2> QED
    BY <2>1, <2>2, <2>3, <2>4, <2>5, <2>6, <2>7 DEF TypeOK
<1>3. WritesFunction /\ Locks /\ Unseen
  BY <1>1, NoWritesTyped DEF Init, WritesFunction, Locks, Unseen, Fresh
<1>4. QuantityChosen
  BY NoItemTyped DEF Init, QuantityChosen
<1>5. ASSUME NEW r \in Requests PROVE Sound(r)
  BY <1>1, NoWritesTyped DEF Sound, WritesSound, MergeSound, AddSound, Idle
<1> QED
  BY <1>2, <1>3, <1>4, <1>5 DEF IInv

-----------------------------------------------------------------------------
(* What a step of r may do to a row without disturbing anybody else.       *)
Fits(r, i) ==
    /\ RowFree(r, i)
    /\ item'[i].cart # NoCart =>
         /\ item'[i].quantity \in chosen'[item'[i].sku]
         /\ item[i].cart # NoCart => item'[i].sku = item[i].sku
         /\ item[i].cart = NoCart =>
              \A o \in Others(r) : request[o].pc = "save" => request[o].row # i

LEMMA OthersSound ==
    ASSUME IInv, NEW r \in Requests, NEW o \in Requests, o # r,
           request'[o] = request[o], writes'[o] = writes[o],
           \A i \in ItemIds : item'[i] # item[i] => Fits(r, i),
           \A s \in Skus : chosen[s] \subseteq chosen'[s],
           item' \in [ItemIds -> CartItem]
    PROVE  Sound(o)'
<1>1. Sound(o) /\ request[o] \in RequestState
  BY DEF IInv, TypeOK
<1>2. \A i \in DOMAIN writes[o] : item'[i] = item[i] /\ i \in ItemIds /\ writes[o][i] \in CartItem
  BY DEF Fits, RowFree, Others, IInv, TypeOK
<1>3. WritesSound(o)'
  BY <1>1, <1>2 DEF Sound, WritesSound, Transaction, CartItem
<1>4. MergeSound(o)'
  <2>1. \A g \in request[o].todo : g.quantity \in chosen[g.sku] /\ g.sku \in Skus
    BY <1>1 DEF Sound, MergeSound, RequestState, GuestItem
  <2>2. ASSUME request[o].pc = "save", Seen(o)'[request[o].row].cart # NoCart
        PROVE  request[o].new \in chosen'[Seen(o)'[request[o].row].sku]
    <3> DEFINE i == request[o].row
    <3>1. i \in ItemIds
      BY <1>1, <2>2 DEF Sound, MergeSound
    <3>2. Seen(o)[i] = IF i \in DOMAIN writes[o] THEN writes[o][i] ELSE item[i]
      BY <3>1 DEF Seen, Overlay
    <3>3. Seen(o)'[i] = IF i \in DOMAIN writes[o] THEN writes[o][i] ELSE item'[i]
      BY <3>1 DEF Seen, Overlay
    <3>4. Seen(o)[i] \in CartItem
      BY <1>2, <3>1, <3>2 DEF IInv, TypeOK
    <3>5. Seen(o)[i].cart # NoCart /\ Seen(o)'[i].sku = Seen(o)[i].sku
      <4>1. CASE Seen(o)'[i] = Seen(o)[i]
        BY <4>1, <2>2
      <4>2. CASE Seen(o)'[i] # Seen(o)[i]
        <5>1. Seen(o)[i] = item[i] /\ Seen(o)'[i] = item'[i] /\ item'[i] # item[i]
          BY <4>2, <3>2, <3>3
        <5>2. Fits(r, i) /\ o \in Others(r)
          BY <5>1, <3>1 DEF Others
        <5> QED
          BY <5>1, <5>2, <2>2 DEF Fits
      <4> QED
        BY <4>1, <4>2
    <3>6. request[o].new \in chosen[Seen(o)[i].sku]
      BY <1>1, <3>5, <2>2 DEF Sound, MergeSound
    <3> QED
      BY <3>4, <3>5, <3>6 DEF CartItem
  <2> QED
    BY <1>1, <2>1, <2>2 DEF Sound, MergeSound
<1>5. AddSound(o)'
  BY <1>1, <1>2 DEF Sound, AddSound
<1> QED
  BY <1>3, <1>4, <1>5 DEF Sound

(* A step of r keeps the invariant when it leaves r sound and does not     *)
(* disturb the others.                                                     *)
LEMMA StepInv ==
    ASSUME IInv, NEW r \in Requests, NEW next \in RequestState, NEW rows,
           request' = [request EXCEPT ![r] = next],
           writes' = [writes EXCEPT ![r] = rows],
           DOMAIN rows \subseteq ItemIds, rows \in [DOMAIN rows -> CartItem],
           \A i \in DOMAIN rows : RowFree(r, i),
           item' \in [ItemIds -> CartItem],
           \A i \in ItemIds : item'[i] # item[i] => Fits(r, i),
           session' \in Carts \ {UserCart}, touched' \in BOOLEAN,
           arrivals' \in 0..MaxArrivals, chosen' \in [Skus -> SUBSET Quantities],
           \A s \in Skus : chosen[s] \subseteq chosen'[s],
           Sound(r)',
           next.pc = "save" => \A o \in Others(r) : ~Fresh(o, next.row),
           \A i \in ItemIds : Fresh(r, i)' /\ ~Fresh(r, i) =>
              \A o \in Others(r) : request[o].row # i
    PROVE  IInv'
<1>1. /\ request'[r] = next /\ writes'[r] = rows
      /\ \A o \in Requests : o # r => request'[o] = request[o] /\ writes'[o] = writes[o]
  BY DEF IInv, TypeOK, WritesFunction
<1>2. WritesFunction'
  BY DEF IInv, WritesFunction
<1>3. TypeOK'
  <2>1. request' \in [Requests -> RequestState]
    BY DEF IInv, TypeOK
  <2>2. DOMAIN writes' = Requests
    BY DEF IInv, TypeOK
  <2>3. \A o \in Requests : DOMAIN writes'[o] \subseteq ItemIds
                            /\ writes'[o] \in [DOMAIN writes'[o] -> CartItem]
    BY <1>1 DEF IInv, TypeOK
  <2> QED
    BY <2>1, <2>2, <2>3 DEF TypeOK
<1>4. \A o \in Requests : Sound(o)'
  BY <1>1, OthersSound
<1>5. Locks'
  <2> SUFFICES ASSUME NEW p \in Requests, NEW o \in Requests, p # o
               PROVE  DOMAIN writes'[p] \intersect DOMAIN writes'[o] = {}
    BY DEF Locks
  <2>1. CASE p # r /\ o # r
    BY <2>1, <1>1 DEF IInv, Locks
  <2>2. CASE p = r
    BY <2>2, <1>1 DEF RowFree, Others
  <2>3. CASE o = r
    BY <2>3, <1>1 DEF RowFree, Others
  <2> QED
    BY <2>1, <2>2, <2>3
<1>6. QuantityChosen'
  <2> SUFFICES ASSUME NEW i \in ItemIds, item'[i].cart # NoCart
               PROVE  item'[i].quantity \in chosen'[item'[i].sku]
    BY DEF QuantityChosen
  <2>1. CASE item'[i] # item[i]
    BY <2>1 DEF Fits
  <2>2. CASE item'[i] = item[i]
    BY <2>2 DEF IInv, QuantityChosen, CartItem
  <2> QED
    BY <2>1, <2>2
<1>7. Unseen'
  <2> SUFFICES ASSUME NEW p \in Requests, NEW o \in Requests, NEW i \in ItemIds, p # o,
                      Fresh(o, i)', request'[p].pc = "save"
               PROVE  request'[p].row # i
    BY DEF Unseen
  <2>1. CASE o = r
    <3>1. CASE Fresh(r, i)
      BY <3>1, <2>1, <1>1 DEF IInv, Unseen
    <3>2. CASE ~Fresh(r, i)
      BY <3>2, <2>1, <1>1 DEF Others
    <3> QED
      BY <3>1, <3>2
  <2>2. CASE o # r
    <3>1. item'[i] = item[i]
      BY <2>2, <1>1 DEF Fits, RowFree, Others, Fresh
    <3>2. Fresh(o, i)
      BY <3>1, <2>2, <1>1 DEF Fresh
    <3> QED
      BY <3>2, <2>2, <1>1 DEF IInv, Unseen, Others
  <2> QED
    BY <2>1, <2>2
<1> QED
  BY <1>2, <1>3, <1>4, <1>5, <1>6, <1>7 DEF IInv

(* What r sees of a row.                                                   *)
LEMMA SeenRow ==
    ASSUME IInv, NEW r \in Requests, NEW i \in ItemIds
    PROVE  /\ Seen(r)[i] = IF i \in DOMAIN writes[r] THEN writes[r][i] ELSE item[i]
           /\ Seen(r)[i] \in CartItem
  BY DEF Seen, Overlay, IInv, TypeOK

LEMMA SeenSound ==
    ASSUME IInv, NEW r \in Requests, NEW i \in ItemIds, Seen(r)[i].cart # NoCart
    PROVE  /\ \/ Seen(r)[i].quantity \in chosen[Seen(r)[i].sku]
              \/ request[r].op = "add" /\ request[r].pc = "write" /\ request[r].row = i
           /\ item[i].cart # NoCart => Seen(r)[i].sku = item[i].sku
           /\ item[i].cart = NoCart =>
                Fresh(r, i) /\ \A o \in Others(r) : request[o].pc = "save" => request[o].row # i
           /\ \A o \in Others(r) : ~Fresh(o, i)
<1>1. Sound(r)
  BY DEF IInv
<1>2. CASE i \in DOMAIN writes[r]
  <2>1. Seen(r)[i] = writes[r][i]
    BY <1>2, SeenRow
  <2>2. \A o \in Others(r) : ~Fresh(o, i)
    BY <1>2 DEF IInv, Locks, Others, Fresh
  <2>3. item[i].cart = NoCart =>
          Fresh(r, i) /\ \A o \in Others(r) : request[o].pc = "save" => request[o].row # i
    BY <1>2, <2>1 DEF IInv, Unseen, Others, Fresh
  <2> QED
    BY <1>1, <1>2, <2>1, <2>2, <2>3 DEF Sound, WritesSound
<1>3. CASE i \notin DOMAIN writes[r]
  <2>1. Seen(r)[i] = item[i]
    BY <1>3, SeenRow
  <2> QED
    BY <2>1 DEF IInv, QuantityChosen, Fresh
<1> QED
  BY <1>2, <1>3

-----------------------------------------------------------------------------
(* A step that writes no row.                                              *)
LEMMA LocalStep ==
    ASSUME IInv, NEW r \in Requests, NEW next \in RequestState,
           request' = [request EXCEPT ![r] = next],
           UNCHANGED <<item, session, writes, chosen>>,
           touched' \in BOOLEAN, arrivals' \in 0..MaxArrivals,
           Sound(r)',
           next.pc = "save" => \A o \in Others(r) : ~Fresh(o, next.row)
    PROVE  IInv'
<1>1. writes' = [writes EXCEPT ![r] = writes[r]]
  BY DEF IInv, WritesFunction
<1>2. \A i \in DOMAIN writes[r] : RowFree(r, i)
  BY DEF IInv, Locks, RowFree, Others
<1>3. \A i \in ItemIds : ~(Fresh(r, i)' /\ ~Fresh(r, i))
  BY DEF Fresh
<1>4. /\ DOMAIN writes[r] \subseteq ItemIds /\ writes[r] \in [DOMAIN writes[r] -> CartItem]
      /\ item' \in [ItemIds -> CartItem] /\ \A i \in ItemIds : item'[i] = item[i]
      /\ session' \in Carts \ {UserCart} /\ chosen' \in [Skus -> SUBSET Quantities]
      /\ \A s \in Skus : chosen[s] \subseteq chosen'[s]
  BY DEF IInv, TypeOK
<1> HIDE DEF IInv, Sound, Fresh
<1> QED
  BY <1>1, <1>2, <1>3, <1>4, StepInv

LEMMA ReplacedTyped ==
    ASSUME IInv, NEW c, Replaced(c)
    PROVE  session' \in Carts \ {UserCart}
  BY DEF Replaced, NewCart, UnusedCart, IInv, TypeOK

LEMMA QuietTyped ==
    ASSUME IInv, Quiet
    PROVE  touched' \in BOOLEAN /\ arrivals' \in 0..MaxArrivals /\ UNCHANGED chosen
<1>1. touched' \in BOOLEAN
  BY Zenon DEF Quiet, IInv, TypeOK
<1>2. arrivals' \in 0..MaxArrivals /\ UNCHANGED chosen
  BY DEF Quiet, IInv, TypeOK
<1> QED
  BY <1>1, <1>2

(* The end of a request, whatever its transaction has written.             *)
LEMMA CommitStep ==
    ASSUME IInv, NEW r \in Requests, NEW rows, Commit(r, rows),
           DOMAIN rows \subseteq ItemIds, rows \in [DOMAIN rows -> CartItem],
           chosen' \in [Skus -> SUBSET Quantities],
           \A s \in Skus : chosen[s] \subseteq chosen'[s],
           touched' \in BOOLEAN, arrivals' \in 0..MaxArrivals,
           \A i \in DOMAIN rows :
             /\ RowFree(r, i)
             /\ rows[i].cart # NoCart =>
                  /\ rows[i].quantity \in chosen'[rows[i].sku]
                  /\ item[i].cart # NoCart => rows[i].sku = item[i].sku
                  /\ item[i].cart = NoCart =>
                       \A o \in Others(r) : request[o].pc = "save" => request[o].row # i
    PROVE  IInv'
<1>1. item' \in [ItemIds -> CartItem]
      /\ \A i \in ItemIds : item'[i] = IF i \in DOMAIN rows THEN rows[i] ELSE item[i]
  BY DEF Commit, Overlay, IInv, TypeOK
<1>2. \A i \in ItemIds : item'[i] # item[i] => Fits(r, i)
  BY <1>1 DEF Fits
<1>3. session' \in Carts \ {UserCart}
  BY ReplacedTyped DEF Commit, IInv, TypeOK
<1>4. request' = [request EXCEPT ![r] = Idle] /\ writes' = [writes EXCEPT ![r] = NoWrites]
  BY DEF Commit
<1>5. request'[r] = Idle /\ writes'[r] = NoWrites
  BY <1>4 DEF IInv, TypeOK
<1>6. Sound(r)'
  BY <1>5, NoWritesTyped DEF Sound, WritesSound, MergeSound, AddSound, Idle
<1>7. \A i \in ItemIds : ~Fresh(r, i)'
  BY <1>5, NoWritesTyped DEF Fresh
<1>8. Idle.pc # "save" /\ Idle \in RequestState
  BY IdleTyped DEF Idle
<1>9. DOMAIN NoWrites \subseteq ItemIds /\ NoWrites \in [DOMAIN NoWrites -> CartItem]
      /\ \A i \in DOMAIN NoWrites : RowFree(r, i)
  <2>1. DOMAIN NoWrites \subseteq ItemIds /\ \A i \in DOMAIN NoWrites : RowFree(r, i)
    BY NoWritesTyped
  <2> QED
    BY <2>1, NoWritesTyped
<1> HIDE DEF IInv, Sound, Fresh
<1> QED
  BY <1>1, <1>2, <1>3, <1>4, <1>6, <1>7, <1>8, <1>9, StepInv

(* A statement that changes rows r sees, or deletes them, and creates none. *)
LEMMA WriteStep ==
    ASSUME IInv, NEW r \in Requests, NEW rows, NEW next \in RequestState,
           Write(r, rows, next),
           DOMAIN rows \subseteq ItemIds, rows \in [DOMAIN rows -> CartItem],
           \A i \in DOMAIN rows : rows[i].cart # NoCart =>
              /\ Seen(r)[i].cart # NoCart
              /\ rows[i].sku = Seen(r)[i].sku
              /\ rows[i].quantity \in chosen[rows[i].sku],
           session' \in Carts \ {UserCart}, UNCHANGED chosen,
           touched' \in BOOLEAN, arrivals' \in 0..MaxArrivals,
           ~(request[r].op = "add" /\ request[r].pc = "write"),
           \/ next = Idle /\ ~Transaction(r)
           \/ /\ next.pc \in {"find", "list", "work"} /\ next.who = "both"
              /\ next.op = request[r].op
              /\ \A g \in next.todo : g.quantity \in chosen[g.sku]
    PROVE  IInv'
<1>1. /\ request'[r] = next /\ request' = [request EXCEPT ![r] = next]
      /\ \A i \in DOMAIN rows : RowFree(r, i)
  BY DEF Write, IInv, TypeOK
<1>2. \A i \in DOMAIN writes[r] : RowFree(r, i)
  BY DEF IInv, Locks, RowFree, Others
<1>3. Sound(r)
  BY DEF IInv
<1>4. /\ DOMAIN writes[r] \subseteq ItemIds /\ writes[r] \in [DOMAIN writes[r] -> CartItem]
      /\ item \in [ItemIds -> CartItem] /\ chosen' \in [Skus -> SUBSET Quantities]
      /\ \A s \in Skus : chosen[s] \subseteq chosen'[s]
  BY DEF IInv, TypeOK
<1>5. MergeSound(r)' /\ (next # Idle => AddSound(r)') /\ next.pc # "save"
  BY <1>1 DEF MergeSound, AddSound, Idle
<1>6. CASE Transaction(r)
  <2> DEFINE mine == Merged(rows, writes[r])
  <2>1. writes' = [writes EXCEPT ![r] = mine] /\ item' = item /\ writes'[r] = mine
    BY <1>6 DEF Write, IInv, TypeOK
  <2>2. DOMAIN mine = DOMAIN rows \union DOMAIN writes[r]
        /\ \A i \in DOMAIN mine : mine[i] = IF i \in DOMAIN rows THEN rows[i] ELSE writes[r][i]
    BY DEF Merged
  <2>3. mine \in [DOMAIN mine -> CartItem]
    <3>1. \A i \in DOMAIN mine : mine[i] \in CartItem
      BY <2>2, <1>4
    <3> QED
      BY <3>1 DEF Merged
  <2> HIDE DEF mine
  <2>4. ASSUME NEW i \in DOMAIN mine, mine[i].cart # NoCart
        PROVE  /\ mine[i].quantity \in chosen[mine[i].sku]
               /\ item[i].cart # NoCart => mine[i].sku = item[i].sku
               /\ item[i].cart = NoCart => Fresh(r, i)
    <3>1. CASE i \in DOMAIN rows
      BY <3>1, <2>2, <2>4, SeenSound
    <3>2. CASE i \notin DOMAIN rows
      BY <3>2, <2>2, <2>4, <1>3 DEF Sound, WritesSound, Fresh
    <3> QED
      BY <3>1, <3>2
  <2>5. WritesSound(r)'
    BY <2>1, <2>4, <1>1, <1>6 DEF WritesSound, Transaction
  <2>6. AddSound(r)'
    BY <1>5, <1>6 DEF Idle
  <2>7. \A i \in ItemIds : ~(Fresh(r, i)' /\ ~Fresh(r, i))
    BY <2>1, <2>4 DEF Fresh
  <2>8. DOMAIN mine \subseteq ItemIds /\ \A i \in DOMAIN mine : RowFree(r, i)
    BY <2>2, <1>1, <1>2, <1>4
  <2>9. Sound(r)'
    BY <1>5, <2>5, <2>6 DEF Sound
  <2> HIDE DEF IInv, Sound, Fresh
  <2> QED
    BY <2>1, <2>3, <2>7, <2>8, <2>9, <1>1, <1>4, <1>5, StepInv
<1>7. CASE ~Transaction(r)
  <2>1. /\ writes' = writes /\ DOMAIN writes[r] = {} /\ item' \in [ItemIds -> CartItem]
        /\ \A i \in ItemIds : item'[i] = IF i \in DOMAIN rows THEN rows[i] ELSE item[i]
    BY <1>7, <1>3, <1>4 DEF Write, Overlay, Sound, WritesSound
  <2>2. writes' = [writes EXCEPT ![r] = writes[r]]
    BY <2>1 DEF IInv, WritesFunction
  <2>3. ASSUME NEW i \in ItemIds, item'[i] # item[i] PROVE Fits(r, i)
    <3>1. i \in DOMAIN rows /\ item'[i] = rows[i] /\ Seen(r)[i] = item[i]
      BY <2>1, <2>3, SeenRow
    <3> QED
      BY <3>1, <1>1 DEF Fits
  <2>4. Sound(r)'
    BY <2>1, <1>1, <1>5 DEF Sound, WritesSound, AddSound, Idle
  <2>5. \A i \in ItemIds : ~Fresh(r, i)'
    BY <2>1 DEF Fresh
  <2> HIDE DEF IInv, Sound, Fresh
  <2> QED
    BY <2>1, <2>2, <2>3, <2>4, <2>5, <1>1, <1>2, <1>4, <1>5, StepInv
<1> QED
  BY <1>6, <1>7

-----------------------------------------------------------------------------
(* One step per action.                                                    *)

LEMMA BeginInv ==
    ASSUME IInv, NEW r \in Requests, NEW who \in {"guest", "user", "both"},
           NEW op \in {"look", "clear", "add", "change", "remove"},
           NEW s \in Skus, NEW q \in Quantities, Begin(r, who, op, s, q)
    PROVE  IInv'
<1> DEFINE next ==
      [Idle EXCEPT !.pc = IF who = "both" THEN "list" ELSE "work",
                   !.who = who, !.op = op, !.sku = s, !.asked = q,
                   !.merges = IF op \in {"change", "remove"} THEN 2 ELSE 1]
<1>1. /\ next \in RequestState /\ next.pc \in {"list", "work"} /\ next.todo = {}
      /\ next.who = "both" \/ next.pc = "work"
  <2> DEFINE pc == IF who = "both" THEN "list" ELSE "work"
             merges == IF op \in {"change", "remove"} THEN 2 ELSE 1
  <2>1. pc \in {"list", "work"} /\ merges \in 1..2 /\ (who = "both" \/ pc = "work")
    OBVIOUS
  <2>2. next = [Idle EXCEPT !.pc = pc, !.who = who, !.op = op, !.sku = s, !.asked = q,
                            !.merges = merges]
    OBVIOUS
  <2>3. Idle.todo = {}
    BY DEF Idle
  <2> HIDE DEF pc, merges, next
  <2>4. next \in RequestState
    BY <2>1, <2>2, IdleTyped DEF RequestState
  <2>5. next.pc = pc /\ next.who = who /\ next.todo = {}
    BY <2>2, <2>3, IdleTyped DEF RequestState
  <2> QED
    BY <2>1, <2>4, <2>5
<1> HIDE DEF next
<1>2. request' = [request EXCEPT ![r] = next] /\ request'[r] = next /\ writes' = writes
  BY DEF Begin, next, IInv, TypeOK
<1>3. DOMAIN writes[r] = {}
  BY DEF Begin, IInv, Sound, AddSound
<1>4. Sound(r)'
  BY <1>1, <1>2, <1>3 DEF Sound, WritesSound, MergeSound, AddSound
<1>5. arrivals' \in 0..MaxArrivals /\ UNCHANGED <<item, session, writes, chosen>>
  BY DEF Begin, IInv, TypeOK
<1>6. touched' \in BOOLEAN
  <2>1. touched' = (touched /\ Merging)
    BY DEF Begin
  <2> QED
    BY <2>1, Zenon DEF IInv, TypeOK
<1>7. next.pc # "save"
  BY <1>1
<1> HIDE DEF IInv, Sound
<1> QED
  BY <1>1, <1>2, <1>4, <1>5, <1>6, <1>7, LocalStep

LEMMA AfterMergeTyped ==
    ASSUME NEW req \in RequestState
    PROVE  /\ AfterMerge(req) \in RequestState /\ AfterMerge(req).pc \in {"list", "work"}
           /\ AfterMerge(req).who = req.who /\ AfterMerge(req).op = req.op
           /\ AfterMerge(req).todo = req.todo
<1>1. CASE req.merges = 2
  <2>1. AfterMerge(req) = [req EXCEPT !.pc = "list", !.merges = 1] /\ 1 \in 1..2
    BY <1>1 DEF AfterMerge
  <2>2. AfterMerge(req) \in RequestState
    BY <2>1 DEF RequestState
  <2> QED
    BY <2>1, <2>2 DEF RequestState
<1>2. CASE req.merges # 2
  <2>1. AfterMerge(req) = [req EXCEPT !.pc = "work"]
    BY <1>2 DEF AfterMerge
  <2> QED
    BY <2>1 DEF RequestState
<1> QED
  BY <1>1, <1>2

(* A request that merges has both identities.                              *)
LEMMA MergesBoth ==
    ASSUME IInv, NEW r \in Requests, request[r].pc \in {"list", "find", "save", "move"}
    PROVE  request[r].who = "both" /\ request[r] \in RequestState /\ Sound(r)
  BY DEF IInv, TypeOK, Sound, AddSound

(* What a step within the merge that writes nothing has to establish.      *)
LEMMA MergeReads ==
    ASSUME IInv, NEW r \in Requests, NEW next \in RequestState,
           request[r].pc \in {"list", "find"},
           request' = [request EXCEPT ![r] = next],
           UNCHANGED <<item, session, writes>>, Quiet,
           next.pc \in {"list", "find", "save", "move", "work"},
           next.who = "both", next.op = request[r].op,
           \A g \in next.todo : g.quantity \in chosen[g.sku],
           next.pc \in {"save", "move"} => next.row \in ItemIds,
           next.pc = "save" => /\ Seen(r)[next.row].cart # NoCart
                               /\ next.new \in chosen[Seen(r)[next.row].sku]
    PROVE  IInv'
<1>1. request'[r] = next /\ Sound(r)
  BY MergesBoth DEF IInv, TypeOK
<1>2. Seen(r)' = Seen(r) /\ UNCHANGED <<item, session, writes, chosen>>
  BY QuietTyped DEF Seen
<1>3. WritesSound(r)'
  BY <1>1, <1>2 DEF Sound, WritesSound, Transaction
<1>4. MergeSound(r)'
  BY <1>1, <1>2 DEF MergeSound
<1>5. AddSound(r)'
  BY <1>1 DEF AddSound
<1>6. next.pc = "save" => \A o \in Others(r) : ~Fresh(o, next.row)
  BY SeenSound
<1>7. Sound(r)'
  BY <1>3, <1>4, <1>5 DEF Sound
<1>8. touched' \in BOOLEAN /\ arrivals' \in 0..MaxArrivals
  BY QuietTyped
<1> HIDE DEF IInv, Sound, Fresh
<1> QED
  BY <1>2, <1>6, <1>7, <1>8, LocalStep

LEMMA NoSessionCartInv ==
    ASSUME IInv, NEW r \in Requests, NoSessionCart(r) PROVE IInv'
<1> DEFINE next == AfterMerge(request[r])
<1>1. request[r].pc = "list" /\ Quiet /\ UNCHANGED <<item, session, writes>>
      /\ request' = [request EXCEPT ![r] = next]
  BY DEF NoSessionCart, IInv, TypeOK
<1>2. /\ next \in RequestState /\ next.pc \in {"list", "work"}
      /\ next.who = "both" /\ next.op = request[r].op
      /\ next.todo = request[r].todo /\ Sound(r)
  BY <1>1, AfterMergeTyped, MergesBoth
<1>3. \A g \in next.todo : g.quantity \in chosen[g.sku]
  BY <1>2 DEF Sound, MergeSound
<1> HIDE DEF next, IInv
<1> QED
  BY <1>1, <1>2, <1>3, MergeReads

LEMMA ListGuestItemsInv ==
    ASSUME IInv, NEW r \in Requests, ListGuestItems(r) PROVE IInv'
<1> DEFINE listed == {[id |-> i, sku |-> Seen(r)[i].sku, quantity |-> Seen(r)[i].quantity] :
                        i \in ItemsOf(r, session)}
           next == [request[r] EXCEPT !.pc = "find", !.cart = session, !.todo = listed]
<1>1. /\ request[r].pc = "list" /\ Quiet /\ UNCHANGED <<item, session, writes>>
      /\ request' = [request EXCEPT ![r] = next] /\ session \in Carts
  BY DEF ListGuestItems, IInv, TypeOK
<1>2. request[r].who = "both" /\ request[r] \in RequestState
  BY <1>1, MergesBoth
<1>3. ASSUME NEW i \in ItemsOf(r, session)
      PROVE  /\ i \in ItemIds /\ Seen(r)[i] \in CartItem
             /\ Seen(r)[i].quantity \in chosen[Seen(r)[i].sku]
  <2>1. i \in ItemIds /\ Seen(r)[i].cart # NoCart
    BY <1>1 DEF ItemsOf, Carts, NoCart
  <2> QED
    BY <2>1, <1>1, SeenRow, SeenSound
<1>4. listed \in SUBSET GuestItem /\ \A g \in listed : g.quantity \in chosen[g.sku]
  BY <1>3 DEF GuestItem, CartItem
<1> HIDE DEF listed
<1>5. /\ next \in RequestState /\ next.pc = "find" /\ next.who = "both"
      /\ next.op = request[r].op /\ next.todo = listed
  BY <1>1, <1>2, <1>4 DEF RequestState
<1> HIDE DEF next, IInv
<1> QED
  BY <1>1, <1>4, <1>5, MergeReads

LEMMA FindTargetInv ==
    ASSUME IInv, NEW r \in Requests, FindTarget(r) PROVE IInv'
<1>1. request[r].pc = "find" /\ Quiet /\ UNCHANGED <<item, session, writes>>
  BY DEF FindTarget
<1>2. request[r].who = "both" /\ request[r] \in RequestState /\ Sound(r)
  BY <1>1, MergesBoth
<1>3. PICK g \in request[r].todo :
         LET next == [request[r] EXCEPT !.todo = @ \ {g}]
             targets == Holding(r, UserCart, g.sku)
         IN  \/ /\ targets = {}
                /\ request' = [request EXCEPT ![r] = [next EXCEPT !.pc = "move", !.row = g.id]]
             \/ \E t \in targets :
                  LET old == Seen(r)[t].quantity
                      new == MergedQuantity(old, g.quantity)
                  IN  request' = [request EXCEPT ![r] =
                        IF new = old THEN next
                        ELSE [next EXCEPT !.pc = "save", !.row = t, !.new = new]]
  BY DEF FindTarget
<1>4. g \in GuestItem /\ \A h \in request[r].todo : h.quantity \in chosen[h.sku]
  BY <1>2 DEF Sound, MergeSound, RequestState
<1> DEFINE next == [request[r] EXCEPT !.todo = @ \ {g}]
           moved == [next EXCEPT !.pc = "move", !.row = g.id]
<1>5. /\ next \in RequestState /\ next.who = "both" /\ next.op = request[r].op
      /\ next.pc = "find" /\ next.todo \subseteq request[r].todo
  BY <1>1, <1>2 DEF RequestState
<1> HIDE DEF next
<1>6. CASE request' = [request EXCEPT ![r] = moved]
  <2>1. /\ moved \in RequestState /\ moved.who = "both" /\ moved.op = request[r].op
        /\ moved.pc = "move" /\ moved.todo \subseteq request[r].todo /\ moved.row \in ItemIds
    BY <1>4, <1>5 DEF RequestState, GuestItem
  <2> HIDE DEF moved, IInv
  <2> QED
    BY <2>1, <1>1, <1>4, <1>6, MergeReads
<1>7. ASSUME NEW t \in Holding(r, UserCart, g.sku), NEW new,
             new = MergedQuantity(Seen(r)[t].quantity, g.quantity),
             request' = [request EXCEPT ![r] =
                           IF new = Seen(r)[t].quantity THEN next
                           ELSE [next EXCEPT !.pc = "save", !.row = t, !.new = new]]
      PROVE  IInv'
  <2> DEFINE save == [next EXCEPT !.pc = "save", !.row = t, !.new = new]
  <2>1. CASE new = Seen(r)[t].quantity
    <3> HIDE DEF IInv
    <3> QED
      BY <2>1, <1>1, <1>4, <1>5, <1>7, MergeReads
  <2>2. CASE new # Seen(r)[t].quantity
    <3>1. /\ t \in ItemIds /\ Seen(r)[t].cart # NoCart /\ Seen(r)[t].sku = g.sku
          /\ new = g.quantity
      BY <2>2, <1>7 DEF Holding, ItemsOf, UserCart, NoCart, MergedQuantity
    <3>2. new \in 1..(2 * MaxQty)
      BY <3>1, <1>4 DEF GuestItem, Quantities
    <3>3. /\ save \in RequestState /\ save.who = "both" /\ save.op = request[r].op
          /\ save.pc = "save" /\ save.todo \subseteq request[r].todo
          /\ save.row = t /\ save.new = new
      BY <3>1, <3>2, <1>5 DEF RequestState
    <3>4. request' = [request EXCEPT ![r] = save]
      BY <2>2, <1>7
    <3> HIDE DEF save, IInv
    <3> QED
      BY <3>1, <3>3, <3>4, <1>1, <1>4, MergeReads
  <2> QED
    BY <2>1, <2>2
<1> QED
  BY <1>3, <1>6, <1>7 DEF next

(* What r goes on as after a write of the merge.                           *)
LEMMA BackToFind ==
    ASSUME IInv, NEW r \in Requests, request[r].pc \in {"save", "move"},
           NEW next, next = [request[r] EXCEPT !.pc = "find", !.row = NoRow, !.new = 1]
    PROVE  /\ next \in RequestState /\ next.pc = "find" /\ next.who = "both"
           /\ next.op = request[r].op /\ \A g \in next.todo : g.quantity \in chosen[g.sku]
<1>1. request[r].who = "both" /\ request[r] \in RequestState /\ Sound(r)
  BY MergesBoth
<1>2. 1 \in 1..(2 * MaxQty)
  OBVIOUS
<1>3. next \in RequestState /\ next.todo = request[r].todo
  BY <1>1, <1>2 DEF RequestState
<1>4. next.pc = "find" /\ next.who = "both" /\ next.op = request[r].op
  BY <1>1 DEF RequestState
<1> QED
  BY <1>1, <1>3, <1>4 DEF Sound, MergeSound

(* The one row a merge's write changes.                                    *)
LEMMA MergeWrites ==
    ASSUME IInv, NEW r \in Requests, request[r].pc \in {"save", "move"},
           NEW i, i = request[r].row, Seen(r)[i].cart # NoCart,
           NEW new \in CartItem, new.sku = Seen(r)[i].sku, new.quantity \in chosen[new.sku],
           Write(r, [j \in {i} |-> new],
                 [request[r] EXCEPT !.pc = "find", !.row = NoRow, !.new = 1]),
           Quiet, UNCHANGED session
    PROVE  IInv'
<1> DEFINE next == [request[r] EXCEPT !.pc = "find", !.row = NoRow, !.new = 1]
           rows == [j \in {i} |-> new]
<1>1. /\ next \in RequestState /\ next.pc = "find" /\ next.who = "both"
      /\ next.op = request[r].op /\ \A g \in next.todo : g.quantity \in chosen[g.sku]
  BY BackToFind
<1>2. i \in ItemIds
  BY DEF IInv, Sound, MergeSound
<1>3. /\ DOMAIN rows \subseteq ItemIds /\ rows \in [DOMAIN rows -> CartItem]
      /\ \A j \in DOMAIN rows : j = i /\ rows[j] = new
  BY <1>2
<1>4. /\ session' \in Carts \ {UserCart} /\ UNCHANGED chosen
      /\ touched' \in BOOLEAN /\ arrivals' \in 0..MaxArrivals
  BY QuietTyped DEF IInv, TypeOK
<1>5. Write(r, rows, next)
  OBVIOUS
<1> HIDE DEF next, rows, IInv
<1> QED
  BY <1>1, <1>3, <1>4, <1>5, WriteStep

LEMMA SaveTargetInv ==
    ASSUME IInv, NEW r \in Requests, SaveTarget(r) PROVE IInv'
<1> DEFINE i == request[r].row
           new == [Seen(r)[i] EXCEPT !.quantity = request[r].new]
<1>1. /\ request[r].pc = "save" /\ Seen(r)[i].cart # NoCart /\ Quiet /\ UNCHANGED session
      /\ Write(r, [j \in {i} |-> new],
               [request[r] EXCEPT !.pc = "find", !.row = NoRow, !.new = 1])
  BY DEF SaveTarget
<1>2. i \in ItemIds /\ request[r].new \in chosen[Seen(r)[i].sku]
  BY <1>1 DEF IInv, Sound, MergeSound
<1>3. Seen(r)[i] \in CartItem
  BY <1>2, SeenRow
<1>4. request[r].new \in Quantities
  BY <1>2, <1>3 DEF IInv, TypeOK, CartItem
<1>5. new \in CartItem /\ new.sku = Seen(r)[i].sku /\ new.quantity = request[r].new
  BY <1>3, <1>4 DEF CartItem
<1> HIDE DEF i, new, IInv
<1> QED
  BY <1>1, <1>2, <1>5, MergeWrites DEF i

LEMMA MoveGuestItemInv ==
    ASSUME IInv, NEW r \in Requests, MoveGuestItem(r) PROVE IInv'
<1> DEFINE i == request[r].row
           new == [Seen(r)[i] EXCEPT !.cart = UserCart]
<1>1. /\ request[r].pc = "move" /\ Seen(r)[i].cart # NoCart /\ Quiet /\ UNCHANGED session
      /\ Write(r, [j \in {i} |-> new],
               [request[r] EXCEPT !.pc = "find", !.row = NoRow, !.new = 1])
  BY DEF MoveGuestItem
<1>2. i \in ItemIds
  BY <1>1 DEF IInv, Sound, MergeSound
<1>3. Seen(r)[i] \in CartItem /\ Seen(r)[i].quantity \in chosen[Seen(r)[i].sku]
  BY <1>1, <1>2, SeenRow, SeenSound
<1>4. UserCart \in Carts
  BY DEF UserCart, Carts
<1>5. new \in CartItem /\ new.sku = Seen(r)[i].sku /\ new.quantity = Seen(r)[i].quantity
  BY <1>3, <1>4 DEF CartItem
<1> HIDE DEF i, new, IInv
<1> QED
  BY <1>1, <1>3, <1>5, MergeWrites DEF i

(* Rows that are deleted.                                                  *)
LEMMA NoItems ==
    ASSUME NEW ids \in SUBSET ItemIds, NEW rows, rows = [i \in ids |-> NoItem]
    PROVE  /\ DOMAIN rows \subseteq ItemIds /\ rows \in [DOMAIN rows -> CartItem]
           /\ \A i \in DOMAIN rows : rows[i].cart = NoCart
  BY NoItemTyped

LEMMA DropSessionCartInv ==
    ASSUME IInv, NEW r \in Requests, DropSessionCart(r) PROVE IInv'
<1> DEFINE c == request[r].cart
           after == AfterMerge(request[r])
           next == IF Transaction(r) /\ session = c THEN [after EXCEPT !.dropped = TRUE]
                                                    ELSE [after EXCEPT !.cart = UserCart]
           rows == [i \in ItemsOf(r, c) |-> NoItem]
<1>1. /\ request[r].pc = "find" /\ request[r].todo = {} /\ Quiet /\ Write(r, rows, next)
      /\ IF Transaction(r) THEN UNCHANGED session ELSE Replaced(c)
  BY DEF DropSessionCart
<1>2. request[r].who = "both" /\ request[r] \in RequestState
  BY <1>1, MergesBoth
<1>3. /\ after \in RequestState /\ after.pc \in {"list", "work"} /\ after.who = "both"
      /\ after.op = request[r].op /\ after.todo = {}
  BY <1>1, <1>2, AfterMergeTyped
<1>4. UserCart \in Carts
  BY DEF UserCart, Carts
<1> HIDE DEF after
<1>5. /\ next \in RequestState /\ next.pc \in {"list", "work"} /\ next.who = "both"
      /\ next.op = request[r].op /\ next.todo = {}
  <2>1. CASE next = [after EXCEPT !.dropped = TRUE]
    BY <1>3, <2>1 DEF RequestState
  <2>2. CASE next = [after EXCEPT !.cart = UserCart]
    BY <1>3, <1>4, <2>2 DEF RequestState
  <2> QED
    BY <2>1, <2>2
<1>6. ItemsOf(r, c) \subseteq ItemIds
  BY DEF ItemsOf
<1>7. /\ session' \in Carts \ {UserCart} /\ UNCHANGED chosen
      /\ touched' \in BOOLEAN /\ arrivals' \in 0..MaxArrivals
  BY <1>1, QuietTyped, ReplacedTyped DEF IInv, TypeOK
<1>8. /\ DOMAIN rows \subseteq ItemIds /\ rows \in [DOMAIN rows -> CartItem]
      /\ \A i \in DOMAIN rows : rows[i].cart = NoCart
  BY <1>6, NoItems
<1> HIDE DEF rows, next, IInv
<1> QED
  BY <1>1, <1>5, <1>7, <1>8, WriteStep

(* A request that is not a transaction deletes rows and ends.              *)
LEMMA DeleteStep ==
    ASSUME IInv, NEW r \in Requests, NEW ids \in SUBSET ItemIds,
           request[r].op \in {"clear", "remove"},
           Write(r, [i \in ids |-> NoItem], Idle), Touch, UNCHANGED <<session, chosen>>
    PROVE  IInv'
<1> DEFINE rows == [i \in ids |-> NoItem]
<1>1. /\ DOMAIN rows \subseteq ItemIds /\ rows \in [DOMAIN rows -> CartItem]
      /\ \A i \in DOMAIN rows : rows[i].cart = NoCart
  BY NoItems
<1>2. /\ session' \in Carts \ {UserCart} /\ arrivals' \in 0..MaxArrivals
      /\ touched' \in BOOLEAN /\ ~Transaction(r) /\ request[r].op # "add"
  BY DEF Touch, Transaction, IInv, TypeOK
<1>3. Write(r, rows, Idle) /\ UNCHANGED chosen
  OBVIOUS
<1> HIDE DEF rows, IInv
<1> QED
  BY <1>1, <1>2, <1>3, IdleTyped, WriteStep

LEMMA ClearCartInv ==
    ASSUME IInv, NEW r \in Requests, ClearCart(r) PROVE IInv'
  BY DeleteStep DEF ClearCart, ItemsOf

LEMMA RemoveItemInv ==
    ASSUME IInv, NEW r \in Requests, RemoveItem(r) PROVE IInv'
<1>1. request[r].row \in ItemIds
  BY DEF RemoveItem, IInv, Sound, MergeSound
<1> QED
  BY <1>1, DeleteStep DEF RemoveItem

(* What r has written when it is not about to commit an add.               *)
LEMMA WrittenSound ==
    ASSUME IInv, NEW r \in Requests, NEW i \in DOMAIN writes[r]
    PROVE  /\ RowFree(r, i) /\ i \in ItemIds /\ writes[r][i] \in CartItem
           /\ writes[r][i].cart # NoCart =>
                /\ ~(request[r].op = "add" /\ request[r].pc = "write" /\ request[r].row = i)
                     => writes[r][i].quantity \in chosen[writes[r][i].sku]
                /\ item[i].cart # NoCart => writes[r][i].sku = item[i].sku
                /\ item[i].cart = NoCart =>
                     \A o \in Others(r) : request[o].pc = "save" => request[o].row # i
<1>1. i \in ItemIds /\ writes[r][i] \in CartItem
  BY DEF IInv, TypeOK
<1>2. RowFree(r, i)
  BY DEF IInv, Locks, RowFree, Others
<1>3. Seen(r)[i] = writes[r][i]
  BY <1>1, SeenRow
<1> QED
  BY <1>1, <1>2, <1>3, SeenSound

LEMMA AnswerInv ==
    ASSUME IInv, NEW r \in Requests, Answer(r) PROVE IInv'
<1>1. /\ Commit(r, writes[r]) /\ Quiet /\ ~(request[r].op = "add" /\ request[r].pc = "write")
  BY DEF Answer
<1>2. /\ DOMAIN writes[r] \subseteq ItemIds /\ writes[r] \in [DOMAIN writes[r] -> CartItem]
      /\ chosen' = chosen /\ chosen' \in [Skus -> SUBSET Quantities]
  BY <1>1, QuietTyped DEF IInv, TypeOK
<1>3. touched' \in BOOLEAN /\ arrivals' \in 0..MaxArrivals
  BY <1>1, QuietTyped
<1> HIDE DEF IInv
<1> QED
  BY <1>1, <1>2, <1>3, WrittenSound, CommitStep

LEMMA ChooseTyped ==
    ASSUME IInv, NEW s \in Skus, NEW q \in Quantities, Choose(s, q), Touch
    PROVE  /\ chosen' \in [Skus -> SUBSET Quantities] /\ q \in chosen'[s]
           /\ \A p \in Skus : chosen[p] \subseteq chosen'[p]
           /\ touched' \in BOOLEAN /\ arrivals' \in 0..MaxArrivals
  BY DEF Choose, Touch, IInv, TypeOK

LEMMA AddItemInv ==
    ASSUME IInv, NEW r \in Requests, AddItem(r) PROVE IInv'
<1> DEFINE i == request[r].row
           mine == writes[r]
           s == request[r].sku
<1>1. request[r].pc = "write" /\ request[r].op = "add" /\ Touch
  BY DEF AddItem
<1>2. PICK q \in Quantities : Commit(r, [mine EXCEPT ![i].quantity = q]) /\ Choose(s, q)
  BY DEF AddItem
<1>3. i \in DOMAIN mine /\ mine[i].sku = s /\ s \in Skus
  BY <1>1 DEF IInv, Sound, AddSound, TypeOK, RequestState
<1>4. /\ chosen' \in [Skus -> SUBSET Quantities] /\ q \in chosen'[s]
      /\ \A p \in Skus : chosen[p] \subseteq chosen'[p]
      /\ touched' \in BOOLEAN /\ arrivals' \in 0..MaxArrivals
  BY <1>1, <1>2, <1>3, ChooseTyped
<1> DEFINE rows == [mine EXCEPT ![i].quantity = q]
<1>5. /\ DOMAIN mine \subseteq ItemIds /\ mine \in [DOMAIN mine -> CartItem]
  BY DEF IInv, TypeOK
<1>6. /\ DOMAIN rows = DOMAIN mine
      /\ rows[i] = [mine[i] EXCEPT !.quantity = q]
      /\ \A j \in DOMAIN mine : j # i => rows[j] = mine[j]
  BY <1>3, <1>5
<1>7. /\ rows[i] \in CartItem /\ rows[i].quantity = q /\ rows[i].sku = s
      /\ rows[i].cart = mine[i].cart
  BY <1>3, <1>5, <1>6 DEF CartItem
<1>8. rows \in [DOMAIN rows -> CartItem]
  BY <1>5, <1>6, <1>7
<1>9. Commit(r, rows)
  BY <1>2
<1> HIDE DEF rows
<1>10. ASSUME NEW j \in DOMAIN rows
       PROVE  /\ RowFree(r, j)
              /\ rows[j].cart # NoCart =>
                   /\ rows[j].quantity \in chosen'[rows[j].sku]
                   /\ item[j].cart # NoCart => rows[j].sku = item[j].sku
                   /\ item[j].cart = NoCart =>
                        \A o \in Others(r) : request[o].pc = "save" => request[o].row # j
  <2>1. CASE j = i
    BY <2>1, <1>3, <1>4, <1>7, WrittenSound
  <2>2. CASE j # i
    <3>1. rows[j] = mine[j] /\ j \in DOMAIN mine /\ mine[j].sku \in Skus
      BY <2>2, <1>5, <1>6 DEF CartItem
    <3> QED
      BY <3>1, <2>2, <1>4, WrittenSound
  <2> QED
    BY <2>1, <2>2
<1> HIDE DEF mine, i, s, IInv
<1> QED
  BY <1>4, <1>5, <1>6, <1>8, <1>9, <1>10, CommitStep

LEMMA ChangeItemInv ==
    ASSUME IInv, NEW r \in Requests, ChangeItem(r) PROVE IInv'
<1> DEFINE i == request[r].row
           q == request[r].asked
           one == [j \in {i} |-> [Seen(r)[i] EXCEPT !.quantity = q]]
           s == Seen(r)[i].sku
           rows == Merged(one, writes[r])
<1>1. /\ request[r].pc = "write" /\ request[r].op = "change" /\ Seen(r)[i].cart # NoCart
      /\ RowFree(r, i) /\ Touch /\ Choose(s, q) /\ Commit(r, rows)
  BY DEF ChangeItem
<1>2. i \in ItemIds /\ q \in Quantities
  BY <1>1 DEF IInv, Sound, MergeSound, TypeOK, RequestState
<1>3. Seen(r)[i] \in CartItem /\ s \in Skus
  BY <1>2, SeenRow DEF CartItem
<1>4. /\ chosen' \in [Skus -> SUBSET Quantities] /\ q \in chosen'[s]
      /\ \A p \in Skus : chosen[p] \subseteq chosen'[p]
      /\ touched' \in BOOLEAN /\ arrivals' \in 0..MaxArrivals
  BY <1>1, <1>2, <1>3, ChooseTyped
<1>5. one[i] \in CartItem /\ one[i].quantity = q /\ one[i].sku = s
  BY <1>2, <1>3 DEF CartItem
<1>6. /\ DOMAIN rows = {i} \union DOMAIN writes[r] /\ rows[i] = one[i]
      /\ \A j \in DOMAIN rows : j # i => rows[j] = writes[r][j]
  BY DEF Merged
<1>7. DOMAIN writes[r] \subseteq ItemIds /\ \A j \in DOMAIN writes[r] : writes[r][j] \in CartItem
  BY DEF IInv, TypeOK
<1>8. DOMAIN rows \subseteq ItemIds /\ rows \in [DOMAIN rows -> CartItem]
  <2>1. \A j \in DOMAIN rows : rows[j] \in CartItem
    BY <1>5, <1>6, <1>7
  <2>2. rows = [j \in DOMAIN rows |-> rows[j]]
    BY DEF Merged
  <2> HIDE DEF rows
  <2> QED
    BY <2>1, <2>2, <1>2, <1>6, <1>7
<1> HIDE DEF rows, one
<1>9. ASSUME NEW j \in DOMAIN rows
      PROVE  /\ RowFree(r, j)
             /\ rows[j].cart # NoCart =>
                  /\ rows[j].quantity \in chosen'[rows[j].sku]
                  /\ item[j].cart # NoCart => rows[j].sku = item[j].sku
                  /\ item[j].cart = NoCart =>
                       \A o \in Others(r) : request[o].pc = "save" => request[o].row # j
  <2>1. CASE j = i
    BY <2>1, <1>1, <1>2, <1>4, <1>5, <1>6, SeenSound
  <2>2. CASE j # i
    <3>1. rows[j] = writes[r][j] /\ j \in DOMAIN writes[r] /\ writes[r][j].sku \in Skus
      BY <2>2, <1>6, <1>7 DEF CartItem
    <3> QED
      BY <3>1, <2>2, <1>1, <1>4, WrittenSound
  <2> QED
    BY <2>1, <2>2
<1> HIDE DEF i, s, q, IInv
<1> QED
  BY <1>1, <1>4, <1>8, <1>9, CommitStep

LEMMA FindItemInv ==
    ASSUME IInv, NEW r \in Requests, FindItem(r) PROVE IInv'
<1>1. /\ request[r].pc = "work" /\ request[r].op \in {"change", "remove"}
      /\ Quiet /\ UNCHANGED <<item, session, writes>>
  BY DEF FindItem
<1>2. PICK i \in ItemIds : request' = [request EXCEPT ![r].pc = "write", ![r].row = i]
  BY DEF FindItem, Holding, ItemsOf
<1> DEFINE next == [request[r] EXCEPT !.pc = "write", !.row = i]
<1>3. request[r] \in RequestState /\ Sound(r)
  BY DEF IInv, TypeOK
<1>4. /\ next \in RequestState /\ next.pc = "write" /\ next.row = i /\ next.op = request[r].op
      /\ next.todo = request[r].todo
  BY <1>3 DEF RequestState
<1>5. request' = [request EXCEPT ![r] = next]
  BY <1>2 DEF IInv, TypeOK
<1> HIDE DEF next
<1>6. request'[r] = next
  BY <1>5 DEF IInv, TypeOK
<1>7. UNCHANGED <<item, session, writes, chosen>>
  BY <1>1, QuietTyped
<1>8. WritesSound(r)' /\ MergeSound(r)' /\ AddSound(r)'
  BY <1>1, <1>3, <1>4, <1>6, <1>7 DEF Sound, WritesSound, MergeSound, AddSound, Transaction
<1>9. Sound(r)' /\ next.pc # "save"
  BY <1>4, <1>8 DEF Sound
<1>10. touched' \in BOOLEAN /\ arrivals' \in 0..MaxArrivals
  BY <1>1, QuietTyped
<1> HIDE DEF IInv, Sound
<1> QED
  BY <1>4, <1>5, <1>7, <1>9, <1>10, LocalStep

LEMMA FailInv ==
    ASSUME IInv, NEW r \in Requests, Fail(r) PROVE IInv'
<1>1. /\ request' = [request EXCEPT ![r] = Idle] /\ writes' = [writes EXCEPT ![r] = NoWrites]
      /\ Quiet /\ UNCHANGED <<item, session>>
  BY DEF Fail
<1>2. request'[r] = Idle /\ writes'[r] = NoWrites
  BY <1>1 DEF IInv, TypeOK
<1>3. Sound(r)' /\ Idle.pc # "save" /\ \A i \in ItemIds : ~Fresh(r, i)'
  BY <1>2, NoWritesTyped DEF Sound, WritesSound, MergeSound, AddSound, Idle, Fresh
<1>4. /\ item' \in [ItemIds -> CartItem] /\ \A i \in ItemIds : item'[i] = item[i]
      /\ session' \in Carts \ {UserCart} /\ chosen' \in [Skus -> SUBSET Quantities]
      /\ \A s \in Skus : chosen[s] \subseteq chosen'[s]
  BY <1>1, QuietTyped DEF IInv, TypeOK
<1>5. DOMAIN NoWrites \subseteq ItemIds /\ \A i \in DOMAIN NoWrites : RowFree(r, i)
  BY NoWritesTyped
<1>6. touched' \in BOOLEAN /\ arrivals' \in 0..MaxArrivals
  BY <1>1, QuietTyped
<1> HIDE DEF IInv, Sound, Fresh
<1> QED
  BY <1>1, <1>3, <1>4, <1>5, <1>6, IdleTyped, NoWritesTyped, StepInv

(* An add writes row i, which it found or creates, and counts on it.       *)
LEMMA LockStep ==
    ASSUME IInv, NEW r \in Requests, request[r].pc = "work", request[r].op = "add",
           NEW i \in ItemIds, NEW row \in CartItem, NEW new \in 1..(2 * MaxQty),
           row.cart # NoCart, row.sku = request[r].sku,
           Write(r, [j \in {i} |-> row],
                 [request[r] EXCEPT !.pc = "write", !.row = i, !.new = new]),
           Quiet, UNCHANGED session,
           item[i].cart # NoCart =>
              /\ row.sku = item[i].sku
              /\ request[r].who # "both" => new = item[i].quantity + request[r].asked,
           Fresh(r, i) \/ item[i].cart # NoCart \/ \A o \in Others(r) : request[o].row # i
    PROVE  IInv'
<1> DEFINE next == [request[r] EXCEPT !.pc = "write", !.row = i, !.new = new]
           one == [j \in {i} |-> row]
           rows == Merged(one, writes[r])
<1>1. request[r] \in RequestState /\ Sound(r) /\ Transaction(r)
  BY DEF IInv, TypeOK, Transaction
<1>2. /\ next \in RequestState /\ next.pc = "write" /\ next.row = i /\ next.new = new
      /\ next.op = "add" /\ next.todo = request[r].todo /\ next.who = request[r].who
      /\ next.asked = request[r].asked /\ next.sku = request[r].sku
  BY <1>1 DEF RequestState
<1> HIDE DEF next
<1>3. /\ request' = [request EXCEPT ![r] = next] /\ request'[r] = next
      /\ writes' = [writes EXCEPT ![r] = rows] /\ writes'[r] = rows
      /\ UNCHANGED <<item, session, chosen>> /\ RowFree(r, i)
  BY <1>1, QuietTyped DEF Write, next, IInv, TypeOK
<1>4. /\ DOMAIN rows = {i} \union DOMAIN writes[r] /\ rows[i] = row
      /\ \A j \in DOMAIN rows : j # i => rows[j] = writes[r][j]
      /\ rows = [j \in DOMAIN rows |-> rows[j]]
  BY DEF Merged
<1> HIDE DEF rows
<1>5. ASSUME NEW j \in DOMAIN rows
      PROVE  /\ j \in ItemIds /\ rows[j] \in CartItem /\ RowFree(r, j)
             /\ j # i /\ rows[j].cart # NoCart => rows[j].quantity \in chosen[rows[j].sku]
             /\ rows[j].cart # NoCart /\ item[j].cart # NoCart => rows[j].sku = item[j].sku
             /\ j # i => j \in DOMAIN writes[r] /\ rows[j] = writes[r][j]
  <2>1. CASE j = i
    BY <2>1, <1>3, <1>4
  <2>2. CASE j # i
    BY <2>2, <1>4, WrittenSound
  <2> QED
    BY <2>1, <2>2
<1>6. DOMAIN rows \subseteq ItemIds /\ rows \in [DOMAIN rows -> CartItem]
  BY <1>4, <1>5
<1>7. WritesSound(r)'
  BY <1>2, <1>3, <1>5 DEF WritesSound, Transaction
<1>8. MergeSound(r)'
  BY <1>1, <1>2, <1>3 DEF Sound, MergeSound
<1>9. AddSound(r)'
  BY <1>2, <1>3, <1>4 DEF AddSound
<1>10. ASSUME NEW j \in ItemIds, Fresh(r, j)', ~Fresh(r, j)
       PROVE  \A o \in Others(r) : request[o].row # j
  BY <1>3, <1>5, <1>10 DEF Fresh
<1>11. Sound(r)' /\ next.pc # "save"
  BY <1>2, <1>7, <1>8, <1>9 DEF Sound
<1>12. /\ item' \in [ItemIds -> CartItem] /\ \A j \in ItemIds : item'[j] = item[j]
       /\ session' \in Carts \ {UserCart} /\ chosen' \in [Skus -> SUBSET Quantities]
       /\ \A s \in Skus : chosen[s] \subseteq chosen'[s]
  BY <1>3 DEF IInv, TypeOK
<1>13. touched' \in BOOLEAN /\ arrivals' \in 0..MaxArrivals
  BY QuietTyped
<1> HIDE DEF IInv, Sound, Fresh
<1> QED
  BY <1>2, <1>3, <1>5, <1>6, <1>10, <1>11, <1>12, <1>13, StepInv

LEMMA LockItemInv ==
    ASSUME IInv, NEW r \in Requests, LockItem(r) PROVE IInv'
<1> DEFINE c == OwnCart(r)
           s == request[r].sku
           n == request[r].asked
<1>1. request[r].pc = "work" /\ request[r].op = "add" /\ Quiet /\ UNCHANGED session
  BY DEF LockItem
<1>2. /\ c \in Carts /\ c # NoCart /\ s \in Skus /\ n \in Quantities
      /\ request[r].who # "both" => DOMAIN writes[r] = {}
  BY <1>1 DEF OwnCart, IInv, TypeOK, RequestState, Sound, AddSound, Carts, UserCart, NoCart
<1>3. CASE \E i \in Holding(r, c, s) :
              Write(r, [j \in {i} |-> Seen(r)[i]],
                    [request[r] EXCEPT !.pc = "write", !.row = i,
                                       !.new = Seen(r)[i].quantity + n])
  <2>1. PICK i \in Holding(r, c, s) :
              Write(r, [j \in {i} |-> Seen(r)[i]],
                    [request[r] EXCEPT !.pc = "write", !.row = i,
                                       !.new = Seen(r)[i].quantity + n])
    BY <1>3
  <2>2. i \in ItemIds /\ Seen(r)[i].cart = c /\ Seen(r)[i].sku = s
    BY DEF Holding, ItemsOf
  <2>3. Seen(r)[i] \in CartItem /\ Seen(r)[i].quantity + n \in 1..(2 * MaxQty)
    BY <1>2, <2>2, SeenRow DEF CartItem, Quantities
  <2>4. /\ item[i].cart # NoCart => Seen(r)[i].sku = item[i].sku
        /\ item[i].cart = NoCart => Fresh(r, i)
    BY <1>2, <2>2, SeenSound
  <2>5. request[r].who # "both" => Seen(r)[i] = item[i]
    BY <1>2, <2>2, SeenRow
  <2> HIDE DEF c, s, IInv
  <2> QED
    BY <1>1, <1>2, <2>1, <2>2, <2>3, <2>4, <2>5, LockStep DEF s
<1>4. CASE \E i \in NewItem :
              Write(r, [j \in {i} |-> [cart |-> c, sku |-> s, quantity |-> n]],
                    [request[r] EXCEPT !.pc = "write", !.row = i, !.new = n])
  <2>1. PICK i \in NewItem :
              Write(r, [j \in {i} |-> [cart |-> c, sku |-> s, quantity |-> n]],
                    [request[r] EXCEPT !.pc = "write", !.row = i, !.new = n])
    BY <1>4
  <2>2. /\ i \in ItemIds /\ item[i].cart = NoCart
        /\ \A o \in Others(r) : request[o].row # i
    BY DEF NewItem, UnusedItem, Others
  <2> DEFINE row == [cart |-> c, sku |-> s, quantity |-> n]
  <2>3. row \in CartItem /\ row.cart # NoCart /\ row.sku = s /\ n \in 1..(2 * MaxQty)
    BY <1>2 DEF CartItem, Quantities
  <2>4. Write(r, [j \in {i} |-> row],
              [request[r] EXCEPT !.pc = "write", !.row = i, !.new = n])
    BY <2>1
  <2> HIDE DEF row, c, n, IInv
  <2> QED
    BY <1>1, <2>2, <2>3, <2>4, LockStep DEF s
<1> QED
  BY <1>3, <1>4 DEF LockItem

-----------------------------------------------------------------------------
(* Every step keeps the invariant.                                         *)
LEMMA NextInv == IInv /\ [Next]_cartVars => IInv'
<1> SUFFICES ASSUME IInv, [Next]_cartVars PROVE IInv'
  OBVIOUS
<1>1. CASE UNCHANGED cartVars
  BY <1>1 DEF cartVars, IInv, TypeOK, WritesFunction, QuantityChosen, Locks, Unseen, Fresh,
              Sound, WritesSound, MergeSound, AddSound, Seen, Transaction
<1>2. ASSUME NEW r \in Requests, MergeStep(r) PROVE IInv'
  BY <1>2, NoSessionCartInv, ListGuestItemsInv, FindTargetInv, SaveTargetInv,
     MoveGuestItemInv, DropSessionCartInv DEF MergeStep
<1>3. ASSUME NEW r \in Requests, WorkStep(r) PROVE IInv'
  BY <1>3, AnswerInv, ClearCartInv, LockItemInv, AddItemInv, FindItemInv, ChangeItemInv,
     RemoveItemInv DEF WorkStep
<1> QED
  BY <1>1, <1>2, <1>3, BeginInv, FailInv DEF Next

(* The invariant holds at every step of the cart service.                  *)
THEOREM CartInvariant == Spec => []IInv
  BY InitInv, NextInv, PTL DEF Spec

(* Every row, request and transaction of the model is well typed: carts    *)
(* and quantities stay in range, whatever the requests and their order.    *)
THEOREM CartTyped == Spec => []TypeOK
<1>1. IInv => TypeOK
  BY DEF IInv
<1> QED
  BY <1>1, CartInvariant, PTL

(* No merge makes up a quantity: every committed item has one that an add  *)
(* or a change wrote for its SKU, for any number of overlapping requests.  *)
THEOREM QuantitiesChosen == Spec => []QuantityChosen
<1>1. IInv => QuantityChosen
  BY DEF IInv
<1> QED
  BY <1>1, CartInvariant, PTL

(* The row lock of add_item makes adds add up: what an add that does not   *)
(* merge is about to commit is what the item holds and what was asked for. *)
THEOREM AddsAddUp == Spec => []AddsCount
<1>1. IInv => AddsCount
  BY DEF IInv, Sound, AddSound, AddsCount
<1> QED
  BY <1>1, CartInvariant, PTL

(* Two rows that the unique constraint on (cart, sku) does not allow.      *)
SamePlace(a, b) == a.cart # NoCart /\ a.cart = b.cart /\ a.sku = b.sku
Unique(rows) == \A i, j \in ItemIds : i # j => ~SamePlace(rows[i], rows[j])

(* The constraint holds of what is committed and of what each open         *)
(* transaction sees ...                                                    *)
UniqueRows == Unique(item) /\ \A r \in Requests : Unique(Seen(r))

(* ... because nobody takes a place that another open transaction has      *)
(* taken or left.                                                          *)
Apart ==
    \A r, o \in Requests : r # o =>
        \A i \in DOMAIN writes[r], j \in DOMAIN writes[o] :
            ~SamePlace(writes[r][i], writes[o][j]) /\ ~SamePlace(writes[r][i], item[j])

(* Row i of those r has written may be written as new.                     *)
FitsPlace(r, i, new) ==
    /\ RowFree(r, i)
    /\ \/ new.cart = NoCart
       \/ SamePlace(Seen(r)[i], new)
       \/ /\ PlaceFree(r, new.cart, new.sku)
          /\ \A j \in ItemIds : j # i => ~SamePlace(new, Seen(r)[j])

(* A step of r after which r sees the rows new.                            *)
Sees(r, new) ==
    /\ \A o \in Others(r) : writes'[o] = writes[o]
    /\ DOMAIN writes'[r] \subseteq ItemIds
    /\ \A i \in ItemIds :
         new[i] = IF i \in DOMAIN writes'[r] THEN writes'[r][i] ELSE item'[i]
    /\ \/ item' = item
       \/ item' = new /\ DOMAIN writes'[r] = {}

LEMMA PlacesKept ==
    ASSUME IInv, UniqueRows, Apart, NEW r \in Requests, NEW new, Sees(r, new), Unique(new),
           \A i \in ItemIds : i \in DOMAIN writes'[r] \/ new[i] # item[i] =>
             /\ RowFree(r, i)
             /\ \A o \in Others(r) : \A j \in DOMAIN writes[o] :
                  ~SamePlace(new[i], writes[o][j]) /\ ~SamePlace(new[i], item[j])
    PROVE  UniqueRows' /\ Apart'
<1>1. \A o \in Others(r) : \A j \in DOMAIN writes[o] : j \in ItemIds /\ item'[j] = item[j]
  BY DEF Sees, RowFree, Others, IInv, TypeOK
<1>2. \A o \in Requests, i \in ItemIds :
         Seen(o)'[i] = IF i \in DOMAIN writes'[o] THEN writes'[o][i] ELSE item'[i]
  BY DEF Seen, Overlay
<1>3. Unique(item)' /\ \A i \in ItemIds : Seen(r)'[i] = new[i]
  BY <1>2 DEF Sees, UniqueRows, Unique
<1>4. Unique(Seen(r)')
  BY <1>3 DEF Unique
<1>5. ASSUME NEW o \in Others(r)
      PROVE  Unique(Seen(o)')
  <2> SUFFICES ASSUME NEW i \in ItemIds, NEW j \in ItemIds, i # j
               PROVE  ~SamePlace(Seen(o)'[i], Seen(o)'[j])
    BY DEF Unique
  <2>1. o \in Requests /\ writes'[o] = writes[o] /\ Unique(Seen(o))
    BY DEF Sees, Others, UniqueRows
  <2>2. /\ Seen(o)[i] = IF i \in DOMAIN writes[o] THEN writes[o][i] ELSE item[i]
        /\ Seen(o)[j] = IF j \in DOMAIN writes[o] THEN writes[o][j] ELSE item[j]
    BY DEF Seen, Overlay
  <2>3. /\ Seen(o)'[i] = IF i \in DOMAIN writes[o] THEN writes[o][i] ELSE item'[i]
        /\ Seen(o)'[j] = IF j \in DOMAIN writes[o] THEN writes[o][j] ELSE item'[j]
    BY <1>2, <2>1
  <2>4. ~SamePlace(Seen(o)[i], Seen(o)[j])
    BY <2>1 DEF Unique
  <2>5. /\ item'[i] # item[i] => item'[i] = new[i] /\ new[i] # item[i]
        /\ item'[j] # item[j] => item'[j] = new[j] /\ new[j] # item[j]
    BY DEF Sees
  <2>6. ~SamePlace(item'[i], item'[j])
    BY <1>3 DEF Unique
  <2> QED
    BY <2>2, <2>3, <2>4, <2>5, <2>6 DEF SamePlace
<1>6. UniqueRows'
  BY <1>3, <1>4, <1>5 DEF UniqueRows, Others
<1>7. ASSUME NEW p \in Requests, NEW o \in Requests, p # o,
             NEW i \in DOMAIN writes'[p], NEW j \in DOMAIN writes'[o]
      PROVE  ~SamePlace(writes'[p][i], writes'[o][j]) /\ ~SamePlace(writes'[p][i], item'[j])
  <2>1. CASE p # r /\ o # r
    <3>1. writes'[p] = writes[p] /\ writes'[o] = writes[o] /\ item'[j] = item[j]
      BY <2>1, <1>1 DEF Sees, Others
    <3> QED
      BY <3>1, <1>7 DEF Apart
  <2>2. CASE p = r
    <3>1. writes'[o] = writes[o] /\ item'[j] = item[j] /\ o \in Others(r)
      BY <2>2, <1>1, <1>7 DEF Sees, Others
    <3>2. i \in ItemIds /\ new[i] = writes'[r][i]
      BY <2>2 DEF Sees
    <3> QED
      BY <2>2, <3>1, <3>2
  <2>3. CASE o = r
    <3>1. writes'[p] = writes[p] /\ item'[j] = item[j] /\ p \in Others(r) /\ j \in ItemIds
      BY <2>3, <1>7 DEF Sees, Others
    <3>2. new[j] = writes'[r][j] /\ RowFree(r, j) /\ i \in DOMAIN writes[p] /\ i \in ItemIds
      BY <2>3, <3>1 DEF Sees, IInv, TypeOK
    <3>3. j \notin DOMAIN writes[p] /\ i # j
      BY <3>1, <3>2 DEF RowFree
    <3>4. Seen(p)[i] = writes[p][i] /\ Seen(p)[j] = item[j]
      BY <3>2, <3>3, <3>1 DEF Seen, Overlay
    <3>5. ~SamePlace(writes[p][i], item[j])
      BY <3>1, <3>2, <3>3, <3>4 DEF UniqueRows, Unique
    <3>6. ~SamePlace(new[j], writes[p][i])
      BY <2>3, <3>1, <3>2
    <3> QED
      BY <2>3, <3>1, <3>2, <3>5, <3>6 DEF SamePlace
  <2> QED
    BY <2>1, <2>2, <2>3
<1> QED
  BY <1>6, <1>7 DEF Apart

(* A statement writes rows that fit, each on its own or none of them to a  *)
(* place of its own.                                                       *)
LEMMA WrittenApart ==
    ASSUME IInv, UniqueRows, Apart, NEW r \in Requests, NEW i \in ItemIds, NEW new,
           \/ FitsPlace(r, i, new)
           \/ i \in DOMAIN writes[r] /\ new = writes[r][i]
    PROVE  /\ RowFree(r, i)
           /\ \A o \in Others(r) : \A j \in DOMAIN writes[o] :
                 ~SamePlace(new, writes[o][j]) /\ ~SamePlace(new, item[j])
<1> SUFFICES ASSUME NEW o \in Others(r), NEW j \in DOMAIN writes[o]
             PROVE  /\ i \notin DOMAIN writes[o]
                    /\ ~SamePlace(new, writes[o][j]) /\ ~SamePlace(new, item[j])
  BY DEF FitsPlace, RowFree, IInv, Locks, Others
<1>1. o \in Requests /\ o # r /\ j \in ItemIds
  BY DEF Others, IInv, TypeOK
<1>2. i \notin DOMAIN writes[o] /\ i # j
  BY <1>1 DEF FitsPlace, RowFree, IInv, Locks
<1>3. CASE i \in DOMAIN writes[r]
  <2>1. ~SamePlace(writes[r][i], writes[o][j]) /\ ~SamePlace(writes[r][i], item[j])
    BY <1>1, <1>3 DEF Apart
  <2>2. Seen(r)[i] = writes[r][i]
    BY <1>3, SeenRow
  <2> QED
    BY <1>2, <2>1, <2>2 DEF FitsPlace, SamePlace, PlaceFree
<1>4. CASE i \notin DOMAIN writes[r]
  <2>1. Seen(r)[i] = item[i] /\ Seen(o)[i] = item[i] /\ Seen(o)[j] = writes[o][j]
    BY <1>1, <1>2, <1>4, SeenRow
  <2>2. ~SamePlace(item[i], writes[o][j]) /\ ~SamePlace(item[i], item[j])
    BY <1>1, <1>2, <2>1 DEF UniqueRows, Unique
  <2> QED
    BY <1>2, <1>4, <2>1, <2>2 DEF FitsPlace, SamePlace, PlaceFree
<1> QED
  BY <1>3, <1>4

LEMMA StatementPlaces ==
    ASSUME IInv, UniqueRows, Apart, NEW r \in Requests, NEW rows,
           DOMAIN rows \subseteq ItemIds,
           Sees(r, Overlay(rows, Seen(r))),
           DOMAIN writes'[r] \subseteq DOMAIN rows \union DOMAIN writes[r],
           \A i \in DOMAIN rows : FitsPlace(r, i, rows[i]),
           \A i, j \in DOMAIN rows :
              i = j \/ rows[i].cart = NoCart \/ SamePlace(Seen(r)[i], rows[i])
    PROVE  UniqueRows' /\ Apart'
<1>1. PICK new : new = Overlay(rows, Seen(r))
  OBVIOUS
<1>2. \A i \in ItemIds : new[i] = IF i \in DOMAIN rows THEN rows[i] ELSE Seen(r)[i]
  BY <1>1 DEF Overlay
<1>3. ASSUME NEW i \in ItemIds, NEW j \in ItemIds, i # j
      PROVE  ~SamePlace(new[i], new[j])
  <2>1. ~SamePlace(Seen(r)[i], Seen(r)[j])
    BY <1>3 DEF UniqueRows, Unique
  <2> QED
    BY <1>2, <1>3, <2>1 DEF FitsPlace, SamePlace
<1>4. ASSUME NEW i \in ItemIds, i \in DOMAIN writes'[r] \/ new[i] # item[i]
      PROVE  \/ FitsPlace(r, i, new[i])
             \/ i \in DOMAIN writes[r] /\ new[i] = writes[r][i]
  BY <1>2, <1>4, SeenRow
<1>5. Unique(new)
  BY <1>3 DEF Unique
<1> QED
  BY <1>1, <1>4, <1>5, WrittenApart, PlacesKept

(* What the three kinds of statements leave of what r sees.                *)
LEMMA ReadSees ==
    ASSUME IInv, NEW r \in Requests, UNCHANGED <<item, writes>>
    PROVE  Sees(r, Seen(r))
<1>1. \A i \in ItemIds : Seen(r)[i] = IF i \in DOMAIN writes[r] THEN writes[r][i] ELSE item[i]
  BY SeenRow
<1>2. DOMAIN writes[r] \subseteq ItemIds
  BY DEF IInv, TypeOK
<1> QED
  BY <1>1, <1>2 DEF Sees

LEMMA WriteSees ==
    ASSUME IInv, NEW r \in Requests, NEW rows, NEW next, Write(r, rows, next),
           DOMAIN rows \subseteq ItemIds
    PROVE  /\ Sees(r, Overlay(rows, Seen(r)))
           /\ DOMAIN writes'[r] \subseteq DOMAIN rows \union DOMAIN writes[r]
           /\ \A i \in DOMAIN rows : RowFree(r, i)
           /\ Transaction(r) => item' = item
           /\ ~Transaction(r) => item' = Overlay(rows, Seen(r))
           /\ request'[r] = next
           /\ \A o \in Others(r) : request'[o] = request[o]
<1>1. PICK new : new = Overlay(rows, Seen(r))
  OBVIOUS
<1>2. \A i \in ItemIds : new[i] = IF i \in DOMAIN rows THEN rows[i]
                                  ELSE IF i \in DOMAIN writes[r] THEN writes[r][i] ELSE item[i]
  BY <1>1, SeenRow DEF Overlay
<1>3. DOMAIN writes[r] \subseteq ItemIds /\ \A o \in Others(r) : o \in Requests /\ o # r
  BY DEF IInv, TypeOK, Others
<1>4. CASE Transaction(r)
  <2>1. /\ item' = item
        /\ \A o \in Others(r) : writes'[o] = writes[o]
        /\ writes'[r] = Merged(rows, writes[r])
    BY <1>3, <1>4 DEF Write, IInv, TypeOK
  <2>2. /\ DOMAIN writes'[r] = DOMAIN rows \union DOMAIN writes[r]
        /\ \A i \in DOMAIN writes'[r] :
              writes'[r][i] = IF i \in DOMAIN rows THEN rows[i] ELSE writes[r][i]
    BY <2>1 DEF Merged
  <2>3. Sees(r, new)
    BY <1>2, <1>3, <2>1, <2>2 DEF Sees
  <2> QED
    BY <1>1, <1>3, <1>4, <2>1, <2>2, <2>3 DEF Write, IInv, TypeOK
<1>5. CASE ~Transaction(r)
  <2>1. DOMAIN writes[r] = {}
    BY <1>5 DEF IInv, Sound, WritesSound
  <2>2. writes' = writes /\ item' = [i \in ItemIds |-> IF i \in DOMAIN rows THEN rows[i] ELSE item[i]]
    BY <1>5 DEF Write, Overlay
  <2>3. item' = new
    BY <1>1, <2>1, <2>2, SeenRow DEF Overlay
  <2>4. Sees(r, new)
    BY <1>2, <2>1, <2>2, <2>3 DEF Sees
  <2> QED
    BY <1>1, <1>3, <1>5, <2>1, <2>2, <2>3, <2>4 DEF Write, IInv, TypeOK
<1> QED
  BY <1>4, <1>5

LEMMA CommitSees ==
    ASSUME IInv, NEW r \in Requests, NEW rows, NEW all, Commit(r, all),
           \A i \in ItemIds : Overlay(all, item)[i] = Overlay(rows, Seen(r))[i]
    PROVE  /\ Sees(r, Overlay(rows, Seen(r)))
           /\ item' = Overlay(rows, Seen(r))
           /\ DOMAIN writes'[r] = {}
           /\ request'[r] = Idle
           /\ \A o \in Others(r) : request'[o] = request[o]
<1>1. PICK new : new = Overlay(rows, Seen(r))
  OBVIOUS
<1>2. \A o \in Others(r) : o \in Requests /\ o # r
  BY DEF Others
<1>3. item' = new
  BY <1>1 DEF Commit, Overlay
<1>4. /\ DOMAIN writes'[r] = {}
      /\ \A o \in Others(r) : writes'[o] = writes[o] /\ request'[o] = request[o]
      /\ request'[r] = Idle
  BY <1>2, NoWritesTyped DEF Commit, IInv, TypeOK
<1> QED
  BY <1>1, <1>3, <1>4 DEF Sees

-----------------------------------------------------------------------------
(* The carts there are.                                                    *)

InMerge(req) == req.pc \in {"find", "save", "move"}
NoRowIn(c, rows) == \A i \in ItemIds : rows[i].cart # c

(* r has emptied the session's cart, to which nobody else adds a row.      *)
Vacated(r, rows) ==
    CartKept(r, session) /\ CartUnused(r, session) /\ NoRowIn(session, rows)

(* Rows are in the user's cart or the session's.                           *)
InCarts ==
    /\ \A i \in ItemIds : item[i].cart \in {NoCart, UserCart, session}
    /\ \A r \in Requests, i \in ItemIds :
          i \in DOMAIN writes[r] => writes[r][i].cart \in {NoCart, UserCart, session}

DroppedEmpty(r) ==
    request[r].dropped => request[r].cart = session /\ Vacated(r, Seen(r))

(* Only a merge deletes a cart, and never the user's.                      *)
MergeShape(r) ==
    /\ InMerge(request[r]) => request[r].cart # UserCart /\ ~request[r].dropped
    /\ request[r].who # "both" => ~request[r].dropped
    /\ request[r].who # "both" /\ request[r].op = "change" /\ request[r].pc = "write"
         => DOMAIN writes[r] = {}

PInv ==
    /\ UniqueRows /\ Apart /\ InCarts
    /\ \A r \in Requests : DroppedEmpty(r) /\ MergeShape(r)

LEMMA CartsKept ==
    ASSUME IInv, InCarts, \A o \in Requests : DroppedEmpty(o),
           NEW r \in Requests, NEW new, Sees(r, new),
           \A o \in Others(r) : request'[o] = request[o],
           \A i \in ItemIds : i \in DOMAIN writes'[r] \/ new[i] # item[i] => RowFree(r, i),
           \A i \in ItemIds :
              \/ new[i].cart \in {NoCart, UserCart, item[i].cart, Seen(r)[i].cart}
              \/ new[i].cart = session /\ CartKept(r, session),
           session' = session \/ (item' = new /\ Vacated(r, new)),
           request'[r].dropped =>
              session' = session /\ request'[r].cart = session /\ Vacated(r, new)
    PROVE  InCarts' /\ \A o \in Requests : DroppedEmpty(o)'
<1>1. /\ session # NoCart /\ session # UserCart
      /\ \A o \in Requests : DOMAIN writes[o] \subseteq ItemIds
      /\ \A o \in Requests : o = r \/ o \in Others(r)
      /\ \A o \in Others(r) : o \in Requests /\ o # r
  BY DEF IInv, TypeOK, Carts, NoCart, UserCart, Others
<1>2. \A i \in ItemIds : Seen(r)[i] = IF i \in DOMAIN writes[r] THEN writes[r][i] ELSE item[i]
  BY SeenRow
<1>3. ASSUME NEW i \in ItemIds
      PROVE  new[i].cart \in {NoCart, UserCart, session}
  BY <1>2 DEF InCarts
<1>4. InCarts'
  <2>1. CASE session' = session
    BY <2>1, <1>1, <1>3 DEF InCarts, Sees
  <2>2. CASE item' = new /\ Vacated(r, new)
    BY <2>2, <1>1, <1>3 DEF InCarts, Sees, Vacated, NoRowIn, CartUnused
  <2> QED
    BY <2>1, <2>2
<1>5. ASSUME request'[r].dropped
      PROVE  DroppedEmpty(r)'
  <2>1. NoRowIn(session, Seen(r))'
    BY <1>5 DEF Vacated, NoRowIn, Seen, Overlay, Sees
  <2>2. CartKept(r, session)'
    BY <1>5 DEF Vacated, CartKept, Others
  <2>3. CartUnused(r, session)'
    BY <1>5 DEF Vacated, CartUnused, Others, Sees
  <2> QED
    BY <1>5, <2>1, <2>2, <2>3 DEF DroppedEmpty, Vacated
<1>6. ASSUME NEW o \in Others(r), request[o].dropped
      PROVE  DroppedEmpty(o)'
  <2>1. /\ request[o].cart = session /\ CartKept(o, session) /\ CartUnused(o, session)
        /\ NoRowIn(session, Seen(o)) /\ r \in Others(o)
    BY <1>1, <1>6 DEF DroppedEmpty, Vacated, Others
  <2>2. ~CartKept(r, session)
    BY <1>6, <2>1 DEF CartKept
  <2>3. session' = session /\ ~request'[r].dropped
    BY <2>2 DEF Vacated
  <2>4. ASSUME NEW i \in ItemIds, RowFree(r, i)
        PROVE  new[i].cart # session
    <3>1. Seen(o)[i] = item[i] /\ item[i].cart # session
      BY <2>1, <2>4, <1>1, SeenRow DEF RowFree, NoRowIn
    <3>2. Seen(r)[i].cart # session
      BY <1>2, <2>1, <3>1 DEF CartUnused
    <3> QED
      BY <1>1, <2>2, <3>1, <3>2
  <2>5. NoRowIn(session, Seen(o)')
    <3> SUFFICES ASSUME NEW i \in ItemIds
                 PROVE  Seen(o)'[i].cart # session
      BY DEF NoRowIn
    <3>1. /\ Seen(o)[i] = IF i \in DOMAIN writes[o] THEN writes[o][i] ELSE item[i]
          /\ Seen(o)'[i] = IF i \in DOMAIN writes[o] THEN writes[o][i] ELSE item'[i]
      BY <1>6 DEF Seen, Overlay, Sees
    <3>2. item'[i] # item[i] => item'[i].cart # session
      BY <2>4 DEF Sees
    <3> QED
      BY <2>1, <3>1, <3>2 DEF NoRowIn
  <2>6. CartKept(o, session)'
    BY <1>1, <2>1, <2>3 DEF CartKept, Others
  <2>7. CartUnused(o, session)'
    <3> SUFFICES ASSUME NEW p \in Others(o), NEW i \in DOMAIN writes'[p]
                 PROVE  writes'[p][i].cart # session
      BY <2>3 DEF CartUnused, Others
    <3>1. CASE p = r
      BY <3>1, <2>4 DEF Sees
    <3>2. CASE p # r
      <4>1. p \in Others(r)
        BY <3>2 DEF Others
      <4> QED
        BY <4>1, <2>1 DEF Sees, CartUnused
    <3> QED
      BY <3>1, <3>2
  <2> QED
    BY <1>6, <2>1, <2>3, <2>5, <2>6, <2>7 DEF DroppedEmpty, Vacated, NoRowIn
<1>7. ASSUME NEW o \in Requests
      PROVE  DroppedEmpty(o)'
  BY <1>1, <1>5, <1>6 DEF DroppedEmpty
<1> QED
  BY <1>4, <1>7

(* A statement of r that writes rows keeps what is known of rows and carts. *)
LEMMA StatementKeeps ==
    ASSUME IInv, PInv, NEW r \in Requests, NEW rows,
           DOMAIN rows \subseteq ItemIds,
           Sees(r, Overlay(rows, Seen(r))),
           DOMAIN writes'[r] \subseteq DOMAIN rows \union DOMAIN writes[r],
           \A o \in Others(r) : request'[o] = request[o],
           \A i \in DOMAIN rows :
              /\ FitsPlace(r, i, rows[i])
              /\ \/ rows[i].cart \in {NoCart, UserCart, Seen(r)[i].cart}
                 \/ rows[i].cart = session /\ CartKept(r, session),
           \A i, j \in DOMAIN rows :
              i = j \/ rows[i].cart = NoCart \/ SamePlace(Seen(r)[i], rows[i]),
           \/ session' = session
           \/ item' = Overlay(rows, Seen(r)) /\ Vacated(r, Overlay(rows, Seen(r))),
           request'[r].dropped =>
              /\ session' = session /\ request'[r].cart = session
              /\ Vacated(r, Overlay(rows, Seen(r))),
           MergeShape(r)'
    PROVE  PInv'
<1>1. PICK new : new = Overlay(rows, Seen(r))
  OBVIOUS
<1>2. \A i \in ItemIds : new[i] = IF i \in DOMAIN rows THEN rows[i] ELSE Seen(r)[i]
  BY <1>1 DEF Overlay
<1>3. UniqueRows' /\ Apart'
  BY StatementPlaces DEF PInv
<1>4. ASSUME NEW i \in ItemIds, i \in DOMAIN writes'[r] \/ new[i] # item[i]
      PROVE  RowFree(r, i)
  <2>1. i \in DOMAIN rows \/ i \in DOMAIN writes[r]
    BY <1>2, <1>4, SeenRow
  <2> QED
    BY <2>1 DEF FitsPlace, IInv, Locks, RowFree, Others
<1>5. \A i \in ItemIds :
        \/ new[i].cart \in {NoCart, UserCart, item[i].cart, Seen(r)[i].cart}
        \/ new[i].cart = session /\ CartKept(r, session)
  BY <1>2
<1>6. InCarts' /\ \A o \in Requests : DroppedEmpty(o)'
  BY <1>1, <1>4, <1>5, CartsKept DEF PInv
<1>7. ASSUME NEW o \in Others(r)
      PROVE  MergeShape(o)'
  <2>1. MergeShape(o) /\ writes'[o] = writes[o] /\ request'[o] = request[o]
    BY <1>7 DEF PInv, Sees, Others
  <2> QED
    BY <2>1 DEF MergeShape
<1> QED
  BY <1>3, <1>6, <1>7 DEF PInv, Others

(* A step of r that writes no row.                                         *)
LEMMA ReadKeeps ==
    ASSUME IInv, PInv, NEW r \in Requests, UNCHANGED <<item, session, writes>>,
           \A o \in Others(r) : request'[o] = request[o],
           request'[r].dropped => request[r].dropped /\ request'[r].cart = request[r].cart,
           MergeShape(r)'
    PROVE  PInv'
<1>1. UniqueRows' /\ Apart' /\ InCarts'
  BY DEF PInv, UniqueRows, Apart, InCarts, Seen
<1>2. ASSUME NEW o \in Requests
      PROVE  DroppedEmpty(o)'
  <2>1. /\ request'[o].dropped => request[o].dropped /\ request'[o].cart = request[o].cart
        /\ \A p \in Others(o) : request'[p].dropped => request[p].dropped /\ request'[p].cart = request[p].cart
    BY DEF Others
  <2> QED
    BY <2>1 DEF PInv, DroppedEmpty, Vacated, CartKept, CartUnused, NoRowIn, Seen
<1>3. ASSUME NEW o \in Others(r)
      PROVE  MergeShape(o)'
  BY <1>3 DEF PInv, MergeShape, Others
<1> QED
  BY <1>1, <1>2, <1>3 DEF PInv, Others

-----------------------------------------------------------------------------
(* Each action keeps what is known of rows and carts.                      *)

LEMMA AfterMergeSame ==
    ASSUME NEW req \in RequestState
    PROVE  /\ AfterMerge(req).cart = req.cart /\ AfterMerge(req).dropped = req.dropped
           /\ AfterMerge(req).pc \in {"list", "work"} /\ AfterMerge(req).who = req.who
           /\ AfterMerge(req).op = req.op /\ AfterMerge(req) \in RequestState
<1>1. CASE req.merges = 2
  <2>1. AfterMerge(req) = [req EXCEPT !.pc = "list", !.merges = 1]
    BY <1>1 DEF AfterMerge
  <2> QED
    BY <2>1, AfterMergeTyped DEF RequestState
<1>2. CASE req.merges # 2
  <2>1. AfterMerge(req) = [req EXCEPT !.pc = "work"]
    BY <1>2 DEF AfterMerge
  <2> QED
    BY <2>1, AfterMergeTyped DEF RequestState
<1> QED
  BY <1>1, <1>2

LEMMA BeginKeeps ==
    ASSUME IInv, PInv, NEW r \in Requests, NEW who \in {"guest", "user", "both"},
           NEW op \in {"look", "clear", "add", "change", "remove"},
           NEW s \in Skus, NEW q \in Quantities, Begin(r, who, op, s, q)
    PROVE  /\ PInv' /\ UNCHANGED <<item, writes>> /\ DOMAIN writes[r] = {}
           /\ \A o \in Others(r) : request'[o] = request[o]
           /\ request'[r].pc \in {"list", "work"} /\ request'[r].who = who
<1>1. PICK next : /\ next = [Idle EXCEPT !.pc = IF who = "both" THEN "list" ELSE "work",
                                         !.who = who, !.op = op, !.sku = s, !.asked = q,
                                         !.merges = IF op \in {"change", "remove"} THEN 2 ELSE 1]
                  /\ request' = [request EXCEPT ![r] = next]
  BY DEF Begin
<1>2. next.pc \in {"list", "work"} /\ next.who = who /\ ~next.dropped
  BY <1>1 DEF Idle
<1>3. request'[r] = next /\ \A o \in Others(r) : request'[o] = request[o]
  BY <1>1 DEF IInv, TypeOK, Others
<1>4. DOMAIN writes[r] = {} /\ UNCHANGED <<item, session, writes>>
  BY DEF Begin, IInv, Sound, AddSound
<1>5. MergeShape(r)'
  BY <1>2, <1>3, <1>4 DEF MergeShape, InMerge
<1> HIDE DEF IInv, PInv, MergeShape
<1> QED
  BY <1>2, <1>3, <1>4, <1>5, ReadKeeps

LEMMA NoSessionCartKeeps ==
    ASSUME IInv, PInv, NEW r \in Requests, NoSessionCart(r)
    PROVE  /\ PInv' /\ UNCHANGED <<item, writes>>
           /\ \A o \in Others(r) : request'[o] = request[o]
           /\ request'[r].pc \in {"list", "work"}
<1>1. request[r].who = "both" /\ request[r] \in RequestState
  BY MergesBoth DEF NoSessionCart
<1>2. PICK next : next = AfterMerge(request[r]) /\ request' = [request EXCEPT ![r] = next]
  BY DEF NoSessionCart, IInv, TypeOK
<1>3. /\ next.pc \in {"list", "work"} /\ next.who = "both"
      /\ next.dropped = request[r].dropped /\ next.cart = request[r].cart
  BY <1>1, <1>2, AfterMergeSame
<1>4. request'[r] = next /\ \A o \in Others(r) : request'[o] = request[o]
  BY <1>2 DEF IInv, TypeOK, Others
<1>5. UNCHANGED <<item, session, writes>> /\ MergeShape(r)'
  BY <1>3, <1>4 DEF NoSessionCart, MergeShape, InMerge
<1> HIDE DEF IInv, PInv, MergeShape
<1> QED
  BY <1>3, <1>4, <1>5, ReadKeeps

LEMMA ListGuestItemsKeeps ==
    ASSUME IInv, PInv, NEW r \in Requests, ListGuestItems(r)
    PROVE  /\ PInv' /\ UNCHANGED <<item, writes>>
           /\ \A o \in Others(r) : request'[o] = request[o]
           /\ request'[r].pc = "find" /\ request'[r].cart = session
           /\ request'[r].todo = {[id |-> i, sku |-> Seen(r)[i].sku,
                                   quantity |-> Seen(r)[i].quantity] : i \in ItemsOf(r, session)}
<1>1. request[r].who = "both" /\ request[r] \in RequestState /\ session # UserCart
  BY MergesBoth DEF ListGuestItems, IInv, TypeOK
<1>2. PICK listed : listed = {[id |-> i, sku |-> Seen(r)[i].sku,
                               quantity |-> Seen(r)[i].quantity] : i \in ItemsOf(r, session)}
  OBVIOUS
<1>3. PICK next : /\ next = [request[r] EXCEPT !.pc = "find", !.cart = session, !.todo = listed]
                  /\ request' = [request EXCEPT ![r] = next]
  BY <1>2 DEF ListGuestItems, IInv, TypeOK
<1>4. /\ next.pc = "find" /\ next.who = "both" /\ next.cart = session
      /\ next.dropped = request[r].dropped /\ next.todo = listed
  BY <1>1, <1>3 DEF RequestState
<1>5. request'[r] = next /\ \A o \in Others(r) : request'[o] = request[o]
  BY <1>3 DEF IInv, TypeOK, Others
<1>6. ~request[r].dropped /\ UNCHANGED <<item, session, writes>>
  BY DEF ListGuestItems
<1>7. MergeShape(r)'
  BY <1>1, <1>4, <1>5, <1>6 DEF MergeShape
<1> HIDE DEF IInv, PInv, MergeShape
<1> QED
  BY <1>2, <1>4, <1>5, <1>6, <1>7, ReadKeeps

(* What the merge reads of the user's cart for a listed item, and what it  *)
(* goes on to do.                                                          *)
FoundFor(r, g, next) ==
    /\ next.todo = request[r].todo \ {g} /\ next.cart = request[r].cart
    /\ \/ /\ Holding(r, UserCart, g.sku) = {}
          /\ next.pc = "move" /\ next.row = g.id
       \/ \E t \in Holding(r, UserCart, g.sku) :
            \/ g.quantity <= Seen(r)[t].quantity /\ next.pc = "find"
            \/ /\ g.quantity > Seen(r)[t].quantity
               /\ next.pc = "save" /\ next.row = t /\ next.new = g.quantity

LEMMA FindTargetKeeps ==
    ASSUME IInv, PInv, NEW r \in Requests, FindTarget(r)
    PROVE  /\ PInv' /\ UNCHANGED <<item, writes>>
           /\ \A o \in Others(r) : request'[o] = request[o]
           /\ \E g \in request[r].todo : FoundFor(r, g, request'[r])
<1>1. /\ request[r].pc = "find" /\ request[r].who = "both" /\ request[r] \in RequestState
      /\ UNCHANGED <<item, session, writes>>
  BY MergesBoth DEF FindTarget
<1>2. PICK g \in request[r].todo :
         LET next == [request[r] EXCEPT !.todo = @ \ {g}]
             targets == Holding(r, UserCart, g.sku)
         IN  \/ /\ targets = {}
                /\ request' = [request EXCEPT ![r] = [next EXCEPT !.pc = "move", !.row = g.id]]
             \/ \E t \in targets :
                  LET old == Seen(r)[t].quantity
                      new == MergedQuantity(old, g.quantity)
                  IN  request' = [request EXCEPT ![r] =
                        IF new = old THEN next
                        ELSE [next EXCEPT !.pc = "save", !.row = t, !.new = new]]
  BY DEF FindTarget
<1>3. PICK base : base = [request[r] EXCEPT !.todo = @ \ {g}]
  OBVIOUS
<1>4. /\ base.pc = "find" /\ base.who = "both" /\ base.cart = request[r].cart
      /\ base.dropped = request[r].dropped /\ base.todo = request[r].todo \ {g}
      /\ base.op = request[r].op
      /\ base \in RequestState
  BY <1>1, <1>3 DEF RequestState
<1>5. g.quantity \in Quantities
  BY <1>1 DEF RequestState, GuestItem
<1>6. ASSUME NEW next, request' = [request EXCEPT ![r] = next],
             next.pc \in {"find", "save", "move"}, next.who = "both",
             next.dropped = request[r].dropped, FoundFor(r, g, next)
      PROVE  /\ PInv' /\ FoundFor(r, g, request'[r])
             /\ \A o \in Others(r) : request'[o] = request[o]
  <2>1. request'[r] = next /\ \A o \in Others(r) : request'[o] = request[o]
    BY <1>6 DEF IInv, TypeOK, Others
  <2>2. InMerge(request[r]) /\ InMerge(next) /\ next.cart = request[r].cart
    BY <1>1, <1>6 DEF InMerge, FoundFor
  <2>3. MergeShape(r)'
    BY <1>6, <2>1, <2>2 DEF PInv, MergeShape
  <2> HIDE DEF IInv, PInv, MergeShape
  <2> QED
    BY <1>1, <1>6, <2>1, <2>2, <2>3, ReadKeeps
<1>7. CASE /\ Holding(r, UserCart, g.sku) = {}
           /\ request' = [request EXCEPT ![r] = [base EXCEPT !.pc = "move", !.row = g.id]]
  <2>1. PICK next : next = [base EXCEPT !.pc = "move", !.row = g.id]
    OBVIOUS
  <2>2. /\ next.pc = "move" /\ next.row = g.id /\ next.who = "both"
        /\ next.dropped = request[r].dropped /\ next.cart = request[r].cart
        /\ next.todo = request[r].todo \ {g}
    BY <1>4, <2>1 DEF RequestState
  <2>3. FoundFor(r, g, next)
    BY <1>7, <2>2 DEF FoundFor
  <2> QED
    BY <1>1, <1>6, <1>7, <2>1, <2>2, <2>3
<1>8. ASSUME NEW t \in Holding(r, UserCart, g.sku), NEW new,
             new = MergedQuantity(Seen(r)[t].quantity, g.quantity),
             request' = [request EXCEPT ![r] =
                           IF new = Seen(r)[t].quantity THEN base
                           ELSE [base EXCEPT !.pc = "save", !.row = t, !.new = new]]
      PROVE  /\ PInv' /\ \A o \in Others(r) : request'[o] = request[o]
             /\ FoundFor(r, g, request'[r])
  <2>1. Seen(r)[t].quantity \in Quantities
    BY SeenRow DEF Holding, ItemsOf, CartItem
  <2>2. CASE new = Seen(r)[t].quantity
    <3>1. g.quantity <= Seen(r)[t].quantity
      BY <1>5, <1>8, <2>1, <2>2 DEF MergedQuantity, Quantities
    <3>2. FoundFor(r, g, base)
      BY <1>4, <1>8, <3>1 DEF FoundFor
    <3> QED
      BY <1>4, <1>6, <1>8, <2>2, <3>2
  <2>3. CASE new # Seen(r)[t].quantity
    <3>1. g.quantity > Seen(r)[t].quantity /\ new = g.quantity
      BY <1>8, <2>3 DEF MergedQuantity
    <3>2. PICK next : next = [base EXCEPT !.pc = "save", !.row = t, !.new = new]
      OBVIOUS
    <3>3. /\ next.pc = "save" /\ next.row = t /\ next.new = g.quantity /\ next.who = "both"
          /\ next.dropped = request[r].dropped /\ next.cart = request[r].cart
          /\ next.todo = request[r].todo \ {g}
      BY <1>4, <3>1, <3>2 DEF RequestState
    <3>4. FoundFor(r, g, next)
      BY <1>8, <3>1, <3>3 DEF FoundFor
    <3> QED
      BY <1>6, <1>8, <2>3, <3>2, <3>3, <3>4
  <2> QED
    BY <2>2, <2>3
<1> QED
  BY <1>1, <1>2, <1>3, <1>7, <1>8

LEMMA FindItemKeeps ==
    ASSUME IInv, PInv, NEW r \in Requests, FindItem(r)
    PROVE  /\ PInv' /\ UNCHANGED <<item, writes>>
           /\ \A o \in Others(r) : request'[o] = request[o]
           /\ request'[r].pc = "write" /\ request'[r].op # "add"
<1>1. /\ request[r].pc = "work" /\ request[r].op \in {"change", "remove"}
      /\ UNCHANGED <<item, session, writes>> /\ request[r] \in RequestState
  BY DEF FindItem, IInv, TypeOK
<1>2. PICK i \in ItemIds : request' = [request EXCEPT ![r].pc = "write", ![r].row = i]
  BY DEF FindItem, Holding, ItemsOf
<1>3. PICK next : next = [request[r] EXCEPT !.pc = "write", !.row = i]
  OBVIOUS
<1>4. /\ next.pc = "write" /\ next.op = request[r].op /\ next.who = request[r].who
      /\ next.dropped = request[r].dropped /\ next.cart = request[r].cart
  BY <1>1, <1>3 DEF RequestState
<1>5. request'[r] = next /\ \A o \in Others(r) : request'[o] = request[o]
  BY <1>2, <1>3 DEF IInv, TypeOK, Others
<1>6. request[r].who # "both" => DOMAIN writes[r] = {} /\ ~request[r].dropped
  BY <1>1 DEF IInv, Sound, AddSound, PInv, MergeShape
<1>7. MergeShape(r)'
  BY <1>1, <1>4, <1>5, <1>6 DEF MergeShape, InMerge
<1> HIDE DEF IInv, PInv, MergeShape
<1> QED
  BY <1>1, <1>4, <1>5, <1>7, ReadKeeps

(* The one row that a merge raises or moves.                               *)
LEMMA MergeWriteKeeps ==
    ASSUME IInv, PInv, NEW r \in Requests, request[r].pc \in {"save", "move"},
           NEW i, i = request[r].row, NEW new,
           Write(r, [j \in {i} |-> new],
                 [request[r] EXCEPT !.pc = "find", !.row = NoRow, !.new = 1]),
           UNCHANGED session, RowFree(r, i) => FitsPlace(r, i, new),
           new.cart \in {UserCart, Seen(r)[i].cart}
    PROVE  /\ PInv' /\ i \in ItemIds
           /\ Sees(r, [Seen(r) EXCEPT ![i] = new])
           /\ \A o \in Others(r) : request'[o] = request[o]
           /\ request'[r].pc = "find" /\ request'[r].todo = request[r].todo
           /\ request'[r].cart = request[r].cart
<1>1. /\ request[r].who = "both" /\ request[r] \in RequestState /\ InMerge(request[r])
      /\ i \in ItemIds
  BY MergesBoth DEF InMerge, Sound, MergeSound
<1>2. PICK next : next = [request[r] EXCEPT !.pc = "find", !.row = NoRow, !.new = 1]
  OBVIOUS
<1>3. /\ next.pc = "find" /\ next.who = "both" /\ next.dropped = request[r].dropped
      /\ next.cart = request[r].cart /\ next.todo = request[r].todo
  BY <1>1, <1>2 DEF RequestState
<1>4. PICK rows : rows = [j \in {i} |-> new]
  OBVIOUS
<1>5. DOMAIN rows \subseteq ItemIds /\ Write(r, rows, next)
  BY <1>1, <1>2, <1>4
<1>6. /\ Sees(r, Overlay(rows, Seen(r)))
      /\ DOMAIN writes'[r] \subseteq DOMAIN rows \union DOMAIN writes[r]
      /\ \A j \in DOMAIN rows : RowFree(r, j)
      /\ request'[r] = next
      /\ \A o \in Others(r) : request'[o] = request[o]
  BY <1>5, WriteSees
<1>7. \A j \in DOMAIN rows : j = i /\ FitsPlace(r, j, rows[j]) /\ rows[j] = new
  BY <1>4, <1>6
<1>8. MergeShape(r) /\ MergeShape(r)'
  BY <1>1, <1>3, <1>6 DEF PInv, MergeShape, InMerge
<1>9. ~request'[r].dropped
  BY <1>1, <1>3, <1>6, <1>8 DEF MergeShape
<1>10. Overlay(rows, Seen(r)) = [Seen(r) EXCEPT ![i] = new]
  BY <1>1, <1>4 DEF Overlay, Seen
<1>11. PInv'
  <2> HIDE DEF IInv, PInv, MergeShape
  <2> QED
    BY <1>5, <1>6, <1>7, <1>8, <1>9, StatementKeeps
<1> QED
  BY <1>1, <1>3, <1>6, <1>10, <1>11

LEMMA SaveTargetKeeps ==
    ASSUME IInv, PInv, NEW r \in Requests, SaveTarget(r),
           NEW i, i = request[r].row, NEW new, new = [Seen(r)[i] EXCEPT !.quantity = request[r].new]
    PROVE  /\ PInv' /\ i \in ItemIds
           /\ Sees(r, [Seen(r) EXCEPT ![i] = new])
           /\ \A o \in Others(r) : request'[o] = request[o]
           /\ request'[r].pc = "find" /\ request'[r].todo = request[r].todo
           /\ request'[r].cart = request[r].cart
<1>1. /\ request[r].pc = "save" /\ Seen(r)[i].cart # NoCart /\ UNCHANGED session
      /\ Write(r, [j \in {i} |-> new],
               [request[r] EXCEPT !.pc = "find", !.row = NoRow, !.new = 1])
  BY DEF SaveTarget
<1>2. Seen(r)[i] \in CartItem
  BY <1>1, SeenRow DEF IInv, Sound, MergeSound
<1>3. new.cart = Seen(r)[i].cart /\ SamePlace(Seen(r)[i], new)
  BY <1>1, <1>2 DEF SamePlace, CartItem
<1>4. RowFree(r, i) => FitsPlace(r, i, new)
  BY <1>3 DEF FitsPlace
<1>5. request[r].pc \in {"save", "move"} /\ new.cart \in {UserCart, Seen(r)[i].cart}
  BY <1>1, <1>3
<1> HIDE DEF IInv, PInv
<1> QED
  BY <1>1, <1>4, <1>5, MergeWriteKeeps

LEMMA MoveGuestItemKeeps ==
    ASSUME IInv, PInv, NEW r \in Requests, MoveGuestItem(r),
           NEW i, i = request[r].row, NEW new, new = [Seen(r)[i] EXCEPT !.cart = UserCart]
    PROVE  /\ PInv' /\ i \in ItemIds
           /\ Sees(r, [Seen(r) EXCEPT ![i] = new])
           /\ \A o \in Others(r) : request'[o] = request[o]
           /\ request'[r].pc = "find" /\ request'[r].todo = request[r].todo
           /\ request'[r].cart = request[r].cart
<1>1. /\ request[r].pc = "move" /\ Seen(r)[i].cart # NoCart /\ UNCHANGED session
      /\ PlaceFree(r, UserCart, Seen(r)[i].sku)
      /\ Holding(r, UserCart, Seen(r)[i].sku) \subseteq {i}
      /\ Write(r, [j \in {i} |-> new],
               [request[r] EXCEPT !.pc = "find", !.row = NoRow, !.new = 1])
  BY DEF MoveGuestItem
<1>2. Seen(r)[i] \in CartItem
  BY <1>1, SeenRow DEF IInv, Sound, MergeSound
<1>3. new.cart = UserCart /\ new.sku = Seen(r)[i].sku
  BY <1>2 DEF CartItem
<1>4. \A j \in ItemIds : j # i => ~SamePlace(new, Seen(r)[j])
  BY <1>1, <1>3 DEF SamePlace, Holding, ItemsOf
<1>5. RowFree(r, i) => FitsPlace(r, i, new)
  BY <1>1, <1>3, <1>4 DEF FitsPlace
<1>6. request[r].pc \in {"save", "move"} /\ new.cart \in {UserCart, Seen(r)[i].cart}
  BY <1>1, <1>3
<1> HIDE DEF IInv, PInv
<1> QED
  BY <1>1, <1>5, <1>6, MergeWriteKeeps

(* A statement of r that deletes rows.                                     *)
LEMMA DeleteKeeps ==
    ASSUME IInv, PInv, NEW r \in Requests, NEW ids \in SUBSET ItemIds,
           NEW gone, gone = [i \in ids |-> NoItem], NEW next, Write(r, gone, next),
           \/ session' = session
           \/ ~Transaction(r) /\ Vacated(r, Overlay(gone, Seen(r))),
           next.dropped => /\ session' = session /\ next.cart = session
                           /\ Vacated(r, Overlay(gone, Seen(r))),
           InMerge(next) => next.cart # UserCart /\ ~next.dropped,
           next.who # "both" => ~next.dropped /\ next.pc = "idle"
    PROVE  /\ PInv' /\ Sees(r, Overlay(gone, Seen(r)))
           /\ request'[r] = next
           /\ \A o \in Others(r) : request'[o] = request[o]
<1>1. /\ DOMAIN gone \subseteq ItemIds /\ \A i \in DOMAIN gone : gone[i].cart = NoCart
  BY NoItems
<1>2. /\ Sees(r, Overlay(gone, Seen(r)))
      /\ DOMAIN writes'[r] \subseteq DOMAIN gone \union DOMAIN writes[r]
      /\ \A j \in DOMAIN gone : RowFree(r, j)
      /\ ~Transaction(r) => item' = Overlay(gone, Seen(r))
      /\ request'[r] = next
      /\ \A o \in Others(r) : request'[o] = request[o]
  BY <1>1, WriteSees
<1>3. \A i \in DOMAIN gone : FitsPlace(r, i, gone[i])
  BY <1>1, <1>2 DEF FitsPlace
<1>4. MergeShape(r)'
  BY <1>2 DEF MergeShape
<1> HIDE DEF IInv, PInv, MergeShape, FitsPlace
<1> QED
  BY <1>1, <1>2, <1>3, <1>4, StatementKeeps

LEMMA DropSessionCartKeeps ==
    ASSUME IInv, PInv, NEW r \in Requests, DropSessionCart(r),
           NEW gone, gone = [i \in ItemsOf(r, request[r].cart) |-> NoItem]
    PROVE  /\ PInv' /\ Sees(r, Overlay(gone, Seen(r)))
           /\ \A o \in Others(r) : request'[o] = request[o]
           /\ request'[r].pc \in {"list", "work"}
<1>1. PICK c : c = request[r].cart
  OBVIOUS
<1>2. PICK after : after = AfterMerge(request[r])
  OBVIOUS
<1>3. PICK next : next = IF Transaction(r) /\ session = c THEN [after EXCEPT !.dropped = TRUE]
                                                          ELSE [after EXCEPT !.cart = UserCart]
  OBVIOUS
<1>4. /\ request[r].pc = "find" /\ CartKept(r, c) /\ CartUnused(r, c) /\ Write(r, gone, next)
      /\ IF Transaction(r) THEN UNCHANGED session ELSE Replaced(c)
  BY <1>1, <1>2, <1>3 DEF DropSessionCart
<1>5. request[r].who = "both" /\ request[r] \in RequestState /\ ~request[r].dropped
  BY <1>4, MergesBoth DEF PInv, MergeShape, InMerge
<1>6. /\ after \in RequestState /\ after.pc \in {"list", "work"} /\ after.who = "both"
      /\ after.cart = c /\ ~after.dropped
  BY <1>1, <1>2, <1>5, AfterMergeSame
<1>7. /\ next.pc \in {"list", "work"} /\ next.who = "both"
      /\ next.dropped => Transaction(r) /\ session = c /\ next.cart = c
  <2>1. CASE Transaction(r) /\ session = c
    BY <1>3, <1>6, <2>1 DEF RequestState
  <2>2. CASE ~(Transaction(r) /\ session = c)
    <3>1. next = [after EXCEPT !.cart = UserCart]
      BY <1>3, <2>2
    <3> QED
      BY <3>1, <1>6 DEF RequestState
  <2> QED
    BY <2>1, <2>2
<1>8. ItemsOf(r, c) \in SUBSET ItemIds /\ session # NoCart
  BY DEF ItemsOf, IInv, TypeOK, Carts, NoCart
<1>9. session = c => Vacated(r, Overlay(gone, Seen(r)))
  BY <1>1, <1>4, <1>8, NoItemTyped DEF Vacated, NoRowIn, Overlay, ItemsOf
<1>10. session' = session \/ (~Transaction(r) /\ session = c)
  BY <1>4 DEF Replaced
<1>11. /\ PInv' /\ Sees(r, Overlay(gone, Seen(r)))
       /\ request'[r] = next
       /\ \A o \in Others(r) : request'[o] = request[o]
  <2>1. ~InMerge(next)
    BY <1>7 DEF InMerge
  <2>2. next.dropped => session' = session /\ next.cart = session
    BY <1>4, <1>7
  <2> HIDE DEF IInv, PInv
  <2> QED
    BY <1>1, <1>4, <1>7, <1>8, <1>9, <1>10, <2>1, <2>2, DeleteKeeps
<1> QED
  BY <1>7, <1>11

LEMMA EndDeletes ==
    ASSUME IInv, PInv, NEW r \in Requests, NEW ids \in SUBSET ItemIds,
           Write(r, [i \in ids |-> NoItem], Idle), UNCHANGED session
    PROVE  PInv'
<1>1. ~Idle.dropped /\ ~InMerge(Idle) /\ Idle.pc = "idle"
  BY DEF Idle, InMerge
<1>2. PICK gone : gone = [i \in ids |-> NoItem]
  OBVIOUS
<1> HIDE DEF IInv, PInv
<1> QED
  BY <1>1, <1>2, DeleteKeeps

LEMMA ClearCartKeeps ==
    ASSUME IInv, PInv, NEW r \in Requests, ClearCart(r) PROVE PInv'
<1>1. ItemsOf(r, OwnCart(r)) \in SUBSET ItemIds
  BY DEF ItemsOf
<1> QED
  BY <1>1, EndDeletes DEF ClearCart

LEMMA RemoveItemKeeps ==
    ASSUME IInv, PInv, NEW r \in Requests, RemoveItem(r) PROVE PInv'
<1>1. {request[r].row} \in SUBSET ItemIds
  BY DEF RemoveItem, IInv, Sound, MergeSound
<1> QED
  BY <1>1, EndDeletes DEF RemoveItem

(* A commit that changes nothing but the quantities of rows r sees.        *)
LEMMA CommitKeeps ==
    ASSUME IInv, PInv, NEW r \in Requests, NEW rows, NEW all, Commit(r, all),
           DOMAIN rows \subseteq ItemIds,
           \A i \in ItemIds : Overlay(all, item)[i] = Overlay(rows, Seen(r))[i],
           \A i \in DOMAIN rows : RowFree(r, i) /\ SamePlace(Seen(r)[i], rows[i])
    PROVE  /\ PInv' /\ item' = Overlay(rows, Seen(r)) /\ request'[r].pc = "idle"
           /\ Sees(r, Overlay(rows, Seen(r)))
           /\ \A o \in Others(r) : request'[o] = request[o]
<1>1. /\ Sees(r, Overlay(rows, Seen(r)))
      /\ item' = Overlay(rows, Seen(r))
      /\ DOMAIN writes'[r] = {}
      /\ request'[r] = Idle
      /\ \A o \in Others(r) : request'[o] = request[o]
  BY CommitSees
<1>2. \A i \in DOMAIN rows : FitsPlace(r, i, rows[i]) /\ rows[i].cart = Seen(r)[i].cart
  BY DEF FitsPlace, SamePlace
<1>3. ~Idle.dropped /\ ~InMerge(Idle) /\ Idle.pc = "idle"
  BY DEF Idle, InMerge
<1>4. session' = session \/ Vacated(r, Overlay(rows, Seen(r)))
  <2>1. session' = session \/ request[r].dropped
    BY DEF Commit
  <2>2. request[r].dropped => Vacated(r, Seen(r))
    BY DEF PInv, DroppedEmpty
  <2>3. Vacated(r, Seen(r)) => Vacated(r, Overlay(rows, Seen(r)))
    BY <1>2 DEF Vacated, NoRowIn, Overlay
  <2> QED
    BY <2>1, <2>2, <2>3
<1>5. MergeShape(r)'
  BY <1>1, <1>3 DEF MergeShape
<1>6. PInv'
  <2> HIDE DEF IInv, PInv, MergeShape
  <2> QED
    BY <1>1, <1>2, <1>3, <1>4, <1>5, StatementKeeps
<1> QED
  BY <1>1, <1>3, <1>6

LEMMA AnswerKeeps ==
    ASSUME IInv, PInv, NEW r \in Requests, Answer(r)
    PROVE  /\ PInv' /\ item' = Seen(r) /\ request'[r].pc = "idle"
           /\ Sees(r, Seen(r))
           /\ \A o \in Others(r) : request'[o] = request[o]
<1>1. Commit(r, writes[r])
  BY DEF Answer
<1>2. Overlay(NoWrites, Seen(r)) = Seen(r) /\ Overlay(writes[r], item) = Seen(r)
  BY NoWritesTyped DEF Overlay, Seen
<1>3. DOMAIN NoWrites = {}
  BY NoWritesTyped
<1> HIDE DEF IInv, PInv
<1>4. \A i \in ItemIds : Overlay(writes[r], item)[i] = Overlay(NoWrites, Seen(r))[i]
  BY <1>2
<1>5. /\ PInv' /\ item' = Overlay(NoWrites, Seen(r)) /\ request'[r].pc = "idle"
      /\ Sees(r, Overlay(NoWrites, Seen(r)))
      /\ \A o \in Others(r) : request'[o] = request[o]
  BY <1>1, <1>3, <1>4, CommitKeeps
<1> QED
  BY <1>2, <1>5

LEMMA AddItemKeeps ==
    ASSUME IInv, PInv, NEW r \in Requests, AddItem(r) PROVE PInv'
<1>1. PICK i, mine : i = request[r].row /\ mine = writes[r]
  OBVIOUS
<1>2. PICK q \in Quantities : Commit(r, [mine EXCEPT ![i].quantity = q])
  BY <1>1 DEF AddItem
<1>3. /\ i \in DOMAIN mine /\ mine[i].cart # NoCart /\ i \in ItemIds /\ mine[i] \in CartItem
      /\ RowFree(r, i) /\ mine \in [DOMAIN mine -> CartItem]
  BY <1>1 DEF AddItem, IInv, Sound, AddSound, TypeOK, Locks, RowFree, Others
<1>4. PICK new : new = [mine[i] EXCEPT !.quantity = q]
  OBVIOUS
<1>5. PICK rows : rows = [j \in {i} |-> new]
  OBVIOUS
<1>6. Seen(r)[i] = mine[i] /\ SamePlace(Seen(r)[i], new)
  BY <1>1, <1>3, <1>4, SeenRow DEF SamePlace, CartItem
<1>7. PICK all : all = [mine EXCEPT ![i].quantity = q]
  OBVIOUS
<1>8. all = [mine EXCEPT ![i] = new]
  BY <1>3, <1>4, <1>7
<1>9. \A j \in ItemIds : Overlay(all, item)[j] = Overlay(rows, Seen(r))[j]
  BY <1>1, <1>3, <1>5, <1>8, SeenRow DEF Overlay
<1>10. Commit(r, all) /\ DOMAIN rows \subseteq ItemIds
  BY <1>2, <1>3, <1>5, <1>7
<1>11. \A j \in DOMAIN rows : RowFree(r, j) /\ SamePlace(Seen(r)[j], rows[j])
  BY <1>3, <1>5, <1>6
<1> HIDE DEF IInv, PInv
<1> QED
  BY <1>9, <1>10, <1>11, CommitKeeps

LEMMA ChangeItemKeeps ==
    ASSUME IInv, PInv, NEW r \in Requests, ChangeItem(r) PROVE PInv'
<1>1. PICK i : i = request[r].row
  OBVIOUS
<1>2. PICK new : new = [Seen(r)[i] EXCEPT !.quantity = request[r].asked]
  OBVIOUS
<1>3. PICK rows : rows = [j \in {i} |-> new]
  OBVIOUS
<1>4. /\ Seen(r)[i].cart # NoCart /\ RowFree(r, i) /\ i \in ItemIds
      /\ Commit(r, Merged(rows, writes[r]))
  BY <1>1, <1>2, <1>3 DEF ChangeItem, IInv, Sound, MergeSound
<1>5. SamePlace(Seen(r)[i], new)
  BY <1>2, <1>4, SeenRow DEF SamePlace, CartItem
<1>6. \A j \in ItemIds : Overlay(Merged(rows, writes[r]), item)[j] = Overlay(rows, Seen(r))[j]
  BY SeenRow DEF Overlay, Merged
<1>7. DOMAIN rows \subseteq ItemIds
      /\ \A j \in DOMAIN rows : RowFree(r, j) /\ SamePlace(Seen(r)[j], rows[j])
  BY <1>3, <1>4, <1>5
<1> HIDE DEF IInv, PInv
<1> QED
  BY <1>4, <1>6, <1>7, CommitKeeps

LEMMA LockItemKeeps ==
    ASSUME IInv, PInv, NEW r \in Requests, LockItem(r)
    PROVE  /\ PInv' /\ UNCHANGED item
           /\ request'[r].op = "add" /\ request'[r].pc = "write"
           /\ \A o \in Others(r) : request'[o] = request[o] /\ writes'[o] = writes[o]
<1>1. PICK c, s : c = OwnCart(r) /\ s = request[r].sku
  OBVIOUS
<1>2. /\ request[r].pc = "work" /\ request[r].op = "add" /\ PlaceFree(r, c, s)
      /\ UNCHANGED session /\ Transaction(r) /\ request[r] \in RequestState
  BY <1>1 DEF LockItem, Transaction, IInv, TypeOK
<1>3. /\ c \in {UserCart, session} /\ c # NoCart
      /\ request[r].dropped => c = UserCart
  BY <1>1 DEF OwnCart, PInv, MergeShape, IInv, TypeOK, Carts, NoCart, UserCart
<1>4. ASSUME NEW i \in ItemIds, NEW row, NEW new,
             Write(r, [j \in {i} |-> row],
                   [request[r] EXCEPT !.pc = "write", !.row = i, !.new = new]),
             row.cart = c,
             RowFree(r, i) => FitsPlace(r, i, row),
             Seen(r)[i].cart = c \/ CartKept(r, c)
      PROVE  /\ PInv' /\ UNCHANGED item
             /\ request'[r].op = "add" /\ request'[r].pc = "write"
             /\ \A o \in Others(r) : request'[o] = request[o] /\ writes'[o] = writes[o]
  <2>1. PICK next : next = [request[r] EXCEPT !.pc = "write", !.row = i, !.new = new]
    OBVIOUS
  <2>2. /\ next.pc = "write" /\ next.op = "add" /\ next.who = request[r].who
        /\ next.dropped = request[r].dropped /\ next.cart = request[r].cart
    BY <1>2, <2>1 DEF RequestState
  <2>3. PICK rows : rows = [j \in {i} |-> row]
    OBVIOUS
  <2>4. DOMAIN rows \subseteq ItemIds /\ Write(r, rows, next)
    BY <1>4, <2>1, <2>3
  <2>5. /\ Sees(r, Overlay(rows, Seen(r)))
        /\ DOMAIN writes'[r] \subseteq DOMAIN rows \union DOMAIN writes[r]
        /\ \A j \in DOMAIN rows : RowFree(r, j)
        /\ item' = item
        /\ request'[r] = next
        /\ \A o \in Others(r) : request'[o] = request[o]
    BY <1>2, <2>4, WriteSees
  <2>6. \A j \in DOMAIN rows : j = i /\ FitsPlace(r, j, rows[j]) /\ rows[j] = row
    BY <1>4, <2>3, <2>5
  <2>7. MergeShape(r)'
    BY <2>2, <2>5 DEF PInv, MergeShape, InMerge
  <2>8. request[r].dropped => /\ request[r].cart = session /\ Vacated(r, Seen(r))
    BY DEF PInv, DroppedEmpty
  <2>9. request'[r].dropped => /\ session' = session /\ request'[r].cart = session
                               /\ Vacated(r, Overlay(rows, Seen(r)))
    <3>1. UserCart # session
      BY DEF IInv, TypeOK
    <3> QED
      BY <1>2, <1>3, <1>4, <2>2, <2>3, <2>5, <2>8, <3>1 DEF Vacated, NoRowIn, Overlay
  <2>10. \A j \in DOMAIN rows :
           \/ rows[j].cart \in {NoCart, UserCart, Seen(r)[j].cart}
           \/ rows[j].cart = session /\ CartKept(r, session)
    BY <1>3, <1>4, <2>6
  <2>11. PInv'
    <3> HIDE DEF IInv, PInv, MergeShape
    <3> QED
      BY <1>2, <2>4, <2>5, <2>6, <2>7, <2>9, <2>10, StatementKeeps
  <2> QED
    BY <2>2, <2>5, <2>11 DEF Sees
<1>5. CASE \E i \in Holding(r, c, s) :
              Write(r, [j \in {i} |-> Seen(r)[i]],
                    [request[r] EXCEPT !.pc = "write", !.row = i,
                                       !.new = Seen(r)[i].quantity + request[r].asked])
  <2>1. PICK i \in Holding(r, c, s) :
              Write(r, [j \in {i} |-> Seen(r)[i]],
                    [request[r] EXCEPT !.pc = "write", !.row = i,
                                       !.new = Seen(r)[i].quantity + request[r].asked])
    BY <1>5
  <2>2. i \in ItemIds /\ Seen(r)[i].cart = c
    BY DEF Holding, ItemsOf
  <2>3. RowFree(r, i) => FitsPlace(r, i, Seen(r)[i])
    BY <1>3, <2>2 DEF FitsPlace, SamePlace
  <2> QED
    BY <1>4, <2>1, <2>2, <2>3
<1>6. CASE /\ Holding(r, c, s) = {}
           /\ CartKept(r, c)
           /\ \E i \in NewItem :
                Write(r, [j \in {i} |-> [cart |-> c, sku |-> s, quantity |-> request[r].asked]],
                      [request[r] EXCEPT !.pc = "write", !.row = i, !.new = request[r].asked])
  <2>1. PICK i \in NewItem :
              Write(r, [j \in {i} |-> [cart |-> c, sku |-> s, quantity |-> request[r].asked]],
                    [request[r] EXCEPT !.pc = "write", !.row = i, !.new = request[r].asked])
    BY <1>6
  <2>2. PICK row : row = [cart |-> c, sku |-> s, quantity |-> request[r].asked]
    OBVIOUS
  <2>3. i \in ItemIds /\ row.cart = c /\ row.sku = s
    BY <2>2 DEF NewItem
  <2>4. \A j \in ItemIds : ~SamePlace(row, Seen(r)[j])
    BY <1>6, <2>3 DEF SamePlace, Holding, ItemsOf
  <2>5. RowFree(r, i) => FitsPlace(r, i, row)
    BY <1>2, <2>3, <2>4 DEF FitsPlace
  <2> QED
    BY <1>4, <1>6, <2>1, <2>2, <2>3, <2>5
<1>7. /\ PInv' /\ UNCHANGED item
      /\ request'[r].op = "add" /\ request'[r].pc = "write"
      /\ \A o \in Others(r) : request'[o] = request[o] /\ writes'[o] = writes[o]
  BY <1>1, <1>5, <1>6 DEF LockItem
<1> QED
  BY <1>7

LEMMA FailKeeps ==
    ASSUME IInv, PInv, NEW r \in Requests, Fail(r)
    PROVE  /\ PInv' /\ UNCHANGED item /\ request'[r].pc = "idle"
           /\ \A o \in Others(r) : request'[o] = request[o] /\ writes'[o] = writes[o]
<1>1. /\ request'[r] = Idle /\ writes'[r] = NoWrites /\ UNCHANGED <<item, session>>
      /\ \A o \in Others(r) : request'[o] = request[o] /\ writes'[o] = writes[o]
  BY DEF Fail, IInv, TypeOK, Others
<1>2. ~Idle.dropped /\ ~InMerge(Idle) /\ Idle.pc = "idle" /\ DOMAIN NoWrites = {}
  BY NoWritesTyped DEF Idle, InMerge
<1>3. Sees(r, item)
  BY <1>1, <1>2 DEF Sees
<1>4. UniqueRows' /\ Apart'
  BY <1>1, <1>2, <1>3, PlacesKept DEF PInv, UniqueRows
<1>5. InCarts' /\ \A o \in Requests : DroppedEmpty(o)'
  BY <1>1, <1>2, <1>3, CartsKept DEF PInv
<1>6. ASSUME NEW o \in Requests
      PROVE  MergeShape(o)'
  BY <1>1, <1>2 DEF PInv, MergeShape, Others
<1> QED
  BY <1>1, <1>2, <1>4, <1>5, <1>6 DEF PInv

(* What is known of rows and carts holds throughout.                       *)
LEMMA PlacesInit == Init => PInv
<1> SUFFICES ASSUME Init PROVE PInv
  OBVIOUS
<1>1. \A i \in ItemIds : item[i].cart = NoCart
  BY NoItemTyped DEF Init
<1>2. \A r \in Requests : request[r] = Idle /\ writes[r] = NoWrites /\ DOMAIN writes[r] = {}
  BY NoWritesTyped DEF Init
<1>3. ~Idle.dropped /\ ~InMerge(Idle) /\ Idle.pc = "idle"
  BY DEF Idle, InMerge
<1>4. \A r \in Requests, i \in ItemIds : Seen(r)[i] = item[i]
  BY <1>2 DEF Seen, Overlay
<1>5. UniqueRows /\ Apart /\ InCarts
  BY <1>1, <1>2, <1>4 DEF UniqueRows, Unique, SamePlace, Apart, InCarts
<1> QED
  BY <1>2, <1>3, <1>5 DEF PInv, DroppedEmpty, MergeShape

LEMMA PlacesNext ==
    ASSUME IInv, PInv, [Next]_cartVars
    PROVE  PInv'
<1>1. CASE UNCHANGED cartVars
  BY <1>1 DEF cartVars, PInv, UniqueRows, Apart, InCarts, DroppedEmpty, Vacated, CartKept,
              CartUnused, NoRowIn, MergeShape, Seen
<1>2. ASSUME NEW r \in Requests, MergeStep(r) PROVE PInv'
  BY <1>2, NoSessionCartKeeps, ListGuestItemsKeeps, FindTargetKeeps, SaveTargetKeeps,
     MoveGuestItemKeeps, DropSessionCartKeeps DEF MergeStep
<1>3. ASSUME NEW r \in Requests, WorkStep(r) PROVE PInv'
  BY <1>3, AnswerKeeps, ClearCartKeeps, LockItemKeeps, AddItemKeeps, FindItemKeeps,
     ChangeItemKeeps, RemoveItemKeeps DEF WorkStep
<1> QED
  BY <1>1, <1>2, <1>3, BeginKeeps, FailKeeps DEF Next

-----------------------------------------------------------------------------
(* What the customer has of a SKU.                                         *)

Counted(rows) == \A i \in ItemIds : rows[i].quantity \in Nat
Has(rows, s, q) ==
    \E i \in ItemIds : rows[i].cart # NoCart /\ rows[i].sku = s /\ rows[i].quantity >= q
UserHas(rows, s, q) ==
    \E i \in ItemIds : rows[i].cart = UserCart /\ rows[i].sku = s /\ rows[i].quantity >= q
AtMost(rows, s, q) ==
    \A i \in ItemIds : rows[i].cart # NoCart /\ rows[i].sku = s => rows[i].quantity <= q

(* From old to new a row is at most raised, to a quantity some row has, or *)
(* moved to the user's cart, or deleted when the user has as much.         *)
Keeps(old, new) ==
    \A i \in ItemIds :
        /\ new[i].cart # NoCart =>
             /\ old[i].cart # NoCart
             /\ new[i].sku = old[i].sku /\ new[i].quantity >= old[i].quantity
             /\ Has(old, new[i].sku, new[i].quantity)
             /\ new[i].cart = UserCart \/ new[i] = old[i]
        /\ old[i].cart # NoCart /\ new[i].cart = NoCart =>
             old[i].cart # UserCart /\ UserHas(new, old[i].sku, old[i].quantity)

LEMMA KeepsSame ==
    ASSUME NEW old, NEW new, Counted(old), \A i \in ItemIds : new[i] = old[i]
    PROVE  Keeps(old, new)
  BY DEF Keeps, Has, Counted

LEMMA KeepsHas ==
    ASSUME NEW old, NEW new, Counted(old), Counted(new), Keeps(old, new),
           NEW s, NEW q \in Nat
    PROVE  /\ Has(old, s, q) <=> Has(new, s, q)
           /\ UserHas(old, s, q) => UserHas(new, s, q)
           /\ AtMost(old, s, q) => AtMost(new, s, q)
<1>1. UserHas(old, s, q) => UserHas(new, s, q)
  <2> SUFFICES ASSUME NEW i \in ItemIds, old[i].cart = UserCart, old[i].sku = s,
                      old[i].quantity >= q
               PROVE  UserHas(new, s, q)
    BY DEF UserHas
  <2>1. new[i].cart # NoCart /\ old[i].cart # NoCart
    BY DEF Keeps, UserCart, NoCart
  <2>2. new[i].cart = UserCart /\ new[i].sku = s /\ new[i].quantity >= q
    BY <2>1 DEF Keeps, Counted
  <2> QED
    BY <2>2 DEF UserHas
<1>2. Has(old, s, q) => Has(new, s, q)
  <2> SUFFICES ASSUME NEW i \in ItemIds, old[i].cart # NoCart, old[i].sku = s,
                      old[i].quantity >= q
               PROVE  Has(new, s, q)
    BY DEF Has
  <2>1. CASE new[i].cart # NoCart
    <3>1. new[i].sku = s /\ new[i].quantity >= q
      BY <2>1 DEF Keeps, Counted
    <3> QED
      BY <2>1, <3>1 DEF Has
  <2>2. CASE new[i].cart = NoCart
    <3>1. UserHas(new, s, old[i].quantity)
      BY <2>2 DEF Keeps
    <3>2. PICK j \in ItemIds : /\ new[j].cart = UserCart /\ new[j].sku = s
                               /\ new[j].quantity >= old[i].quantity
      BY <3>1 DEF UserHas
    <3>3. new[j].cart # NoCart /\ new[j].quantity >= q
      BY <3>2 DEF UserCart, NoCart, Counted
    <3> QED
      BY <3>2, <3>3 DEF Has
  <2> QED
    BY <2>1, <2>2
<1>3. ASSUME NEW i \in ItemIds, new[i].cart # NoCart
      PROVE  \E j \in ItemIds : /\ old[j].cart # NoCart /\ old[j].sku = new[i].sku
                                /\ old[j].quantity >= new[i].quantity
  BY <1>3 DEF Keeps, Has
<1>4. Has(new, s, q) => Has(old, s, q)
  <2> SUFFICES ASSUME NEW i \in ItemIds, new[i].cart # NoCart, new[i].sku = s,
                      new[i].quantity >= q
               PROVE  Has(old, s, q)
    BY DEF Has
  <2>1. PICK j \in ItemIds : /\ old[j].cart # NoCart /\ old[j].sku = s
                             /\ old[j].quantity >= new[i].quantity
    BY <1>3
  <2>2. old[j].quantity >= q
    BY <2>1 DEF Counted
  <2> QED
    BY <2>1, <2>2 DEF Has
<1>5. AtMost(old, s, q) => AtMost(new, s, q)
  <2> SUFFICES ASSUME AtMost(old, s, q), NEW i \in ItemIds, new[i].cart # NoCart, new[i].sku = s
               PROVE  new[i].quantity <= q
    BY DEF AtMost
  <2>1. PICK j \in ItemIds : /\ old[j].cart # NoCart /\ old[j].sku = s
                             /\ old[j].quantity >= new[i].quantity
    BY <1>3
  <2> QED
    BY <2>1 DEF AtMost, Counted
<1> QED
  BY <1>1, <1>2, <1>4, <1>5

LEMMA KeepsOn ==
    ASSUME NEW old, NEW mid, NEW new, Counted(old), Counted(mid), Counted(new),
           Keeps(old, mid), Keeps(mid, new)
    PROVE  Keeps(old, new)
<1>1. ASSUME NEW i \in ItemIds, new[i].cart # NoCart
      PROVE  /\ old[i].cart # NoCart
             /\ new[i].sku = old[i].sku /\ new[i].quantity >= old[i].quantity
             /\ Has(old, new[i].sku, new[i].quantity)
             /\ new[i].cart = UserCart \/ new[i] = old[i]
  <2>1. /\ mid[i].cart # NoCart /\ new[i].sku = mid[i].sku /\ new[i].quantity >= mid[i].quantity
        /\ Has(mid, new[i].sku, new[i].quantity)
        /\ new[i].cart = UserCart \/ new[i] = mid[i]
    BY <1>1 DEF Keeps
  <2>2. /\ old[i].cart # NoCart /\ mid[i].sku = old[i].sku /\ mid[i].quantity >= old[i].quantity
        /\ mid[i].cart = UserCart \/ mid[i] = old[i]
    BY <2>1 DEF Keeps
  <2>3. new[i].quantity \in Nat /\ mid[i].quantity \in Nat /\ old[i].quantity \in Nat
    BY DEF Counted
  <2>4. Has(old, new[i].sku, new[i].quantity)
    BY <2>1, <2>3, KeepsHas
  <2> QED
    BY <2>1, <2>2, <2>3, <2>4
<1>2. ASSUME NEW i \in ItemIds, old[i].cart # NoCart, new[i].cart = NoCart
      PROVE  old[i].cart # UserCart /\ UserHas(new, old[i].sku, old[i].quantity)
  <2>1. old[i].quantity \in Nat
    BY DEF Counted
  <2>2. CASE mid[i].cart = NoCart
    <3>1. old[i].cart # UserCart /\ UserHas(mid, old[i].sku, old[i].quantity)
      BY <1>2, <2>2 DEF Keeps
    <3> QED
      BY <2>1, <3>1, KeepsHas
  <2>3. CASE mid[i].cart # NoCart
    <3>1. mid[i].cart # UserCart /\ UserHas(new, mid[i].sku, mid[i].quantity)
      BY <1>2, <2>3 DEF Keeps
    <3>2. mid[i] = old[i]
      BY <2>3, <3>1 DEF Keeps
    <3> QED
      BY <3>1, <3>2
  <2> QED
    BY <2>2, <2>3
<1> QED
  BY <1>1, <1>2 DEF Keeps

(* A statement of one merge keeps what another one has to rely on: the     *)
(* listed items are what the guest still has at most, the quantity to be   *)
(* saved is the most there is, and what would go with the guest's cart is  *)
(* listed or kept.                                                         *)
ListedRight(req, rows) ==
    \A g \in req.todo :
        /\ g.quantity \in Nat /\ Has(rows, g.sku, g.quantity)
        /\ \A i \in ItemIds :
              rows[i].cart \notin {NoCart, UserCart} /\ rows[i].sku = g.sku
                => rows[i].quantity <= g.quantity

RaisesMost(req, rows) ==
    req.pc = "save" =>
        /\ req.row \in ItemIds /\ req.new \in Nat
        /\ rows[req.row].cart = UserCart
        /\ Has(rows, rows[req.row].sku, req.new) /\ AtMost(rows, rows[req.row].sku, req.new)

NoneLeft(req, rows) ==
    \A i \in ItemIds : rows[i].cart = req.cart =>
        \/ \E g \in req.todo : g.id = i /\ g.sku = rows[i].sku /\ g.quantity = rows[i].quantity
        \/ req.pc = "move" /\ req.row = i
        \/ req.pc = "save" /\ rows[req.row].sku = rows[i].sku
        \/ UserHas(rows, rows[i].sku, rows[i].quantity)

MergeRight(req, rows) ==
    InMerge(req) =>
        /\ req.cart \notin {NoCart, UserCart}
        /\ ListedRight(req, rows) /\ RaisesMost(req, rows) /\ NoneLeft(req, rows)

LEMMA MergeStaysRight ==
    ASSUME NEW req, NEW old, NEW new, Counted(old), Counted(new), Keeps(old, new),
           MergeRight(req, old)
    PROVE  MergeRight(req, new)
<1> SUFFICES ASSUME InMerge(req)
             PROVE  ListedRight(req, new) /\ RaisesMost(req, new) /\ NoneLeft(req, new)
  BY DEF MergeRight
<1>1. /\ req.cart \notin {NoCart, UserCart}
      /\ ListedRight(req, old) /\ RaisesMost(req, old) /\ NoneLeft(req, old)
  BY DEF MergeRight
<1>2. \A i \in ItemIds : new[i].cart \notin {NoCart, UserCart} => new[i] = old[i]
  BY DEF Keeps
<1>3. ListedRight(req, new)
  <2> SUFFICES ASSUME NEW g \in req.todo
               PROVE  /\ g.quantity \in Nat /\ Has(new, g.sku, g.quantity)
                      /\ \A i \in ItemIds :
                            new[i].cart \notin {NoCart, UserCart} /\ new[i].sku = g.sku
                              => new[i].quantity <= g.quantity
    BY DEF ListedRight
  <2>1. g.quantity \in Nat /\ Has(old, g.sku, g.quantity)
    BY <1>1 DEF ListedRight
  <2>2. Has(new, g.sku, g.quantity)
    BY <2>1, KeepsHas
  <2> QED
    BY <1>1, <1>2, <2>1, <2>2 DEF ListedRight
<1>4. ASSUME req.pc = "save"
      PROVE  /\ req.row \in ItemIds /\ req.new \in Nat /\ new[req.row].cart = UserCart
             /\ new[req.row].sku = old[req.row].sku
  BY <1>1, <1>4 DEF RaisesMost, Keeps, UserCart, NoCart
<1>5. RaisesMost(req, new)
  BY <1>1, <1>4, KeepsHas DEF RaisesMost
<1>6. NoneLeft(req, new)
  <2> SUFFICES ASSUME NEW i \in ItemIds, new[i].cart = req.cart,
                      ~UserHas(new, new[i].sku, new[i].quantity)
               PROVE  \/ \E g \in req.todo : /\ g.id = i /\ g.sku = new[i].sku
                                              /\ g.quantity = new[i].quantity
                      \/ req.pc = "move" /\ req.row = i
                      \/ req.pc = "save" /\ new[req.row].sku = new[i].sku
    BY DEF NoneLeft
  <2>1. new[i] = old[i] /\ new[i].quantity \in Nat
    BY <1>1, <1>2 DEF Counted
  <2>2. ~UserHas(old, old[i].sku, old[i].quantity)
    BY <2>1, KeepsHas
  <2> QED
    BY <1>1, <1>4, <2>1, <2>2 DEF NoneLeft
<1> QED
  BY <1>3, <1>5, <1>6

(* The statements of a merge keep what its customer has, and the merge     *)
(* goes on rightly.                                                        *)
LEMMA SeenCounted ==
    ASSUME IInv
    PROVE  Counted(item) /\ \A r \in Requests : Counted(Seen(r))
<1>1. \A i \in ItemIds : item[i].quantity \in Nat
  BY DEF IInv, TypeOK, CartItem, Quantities
<1>2. \A r \in Requests, i \in ItemIds : Seen(r)[i].quantity \in Nat
  BY SeenRow DEF CartItem, Quantities
<1> QED
  BY <1>1, <1>2 DEF Counted

LEMMA SeenCountedNext ==
    ASSUME IInv'
    PROVE  Counted(item') /\ \A r \in Requests : Counted(Seen(r)')
<1>1. \A i \in ItemIds : item'[i].quantity \in Nat
  BY DEF IInv, TypeOK, CartItem, Quantities
<1>2. ASSUME NEW r \in Requests, NEW i \in ItemIds
      PROVE  Seen(r)'[i].quantity \in Nat
  <2>1. Seen(r)'[i] = IF i \in DOMAIN writes'[r] THEN writes'[r][i] ELSE item'[i]
    BY DEF Seen, Overlay
  <2>2. Seen(r)'[i] \in CartItem
    BY <2>1 DEF IInv, TypeOK
  <2> QED
    BY <2>2 DEF CartItem, Quantities
<1> QED
  BY <1>1, <1>2 DEF Counted

LEMMA ListRight ==
    ASSUME IInv, PInv, NEW r \in Requests, NEW next, next.pc = "find", next.cart = session,
           next.todo = {[id |-> i, sku |-> Seen(r)[i].sku,
                         quantity |-> Seen(r)[i].quantity] : i \in ItemsOf(r, session)}
    PROVE  MergeRight(next, Seen(r))
<1>1. session \notin {NoCart, UserCart}
  BY DEF IInv, TypeOK, Carts, NoCart, UserCart
<1>2. \A i \in ItemIds : /\ Seen(r)[i].cart \in {NoCart, UserCart, session}
                         /\ Seen(r)[i].quantity \in Nat
  BY SeenRow DEF PInv, InCarts, CartItem, Quantities
<1>3. ListedRight(next, Seen(r))
  <2> SUFFICES ASSUME NEW i \in ItemIds, Seen(r)[i].cart = session
               PROVE  /\ Has(Seen(r), Seen(r)[i].sku, Seen(r)[i].quantity)
                      /\ \A j \in ItemIds :
                            /\ Seen(r)[j].cart \notin {NoCart, UserCart}
                            /\ Seen(r)[j].sku = Seen(r)[i].sku
                            => Seen(r)[j].quantity <= Seen(r)[i].quantity
    BY <1>2 DEF ListedRight, ItemsOf
  <2>1. Has(Seen(r), Seen(r)[i].sku, Seen(r)[i].quantity)
    BY <1>1, <1>2 DEF Has
  <2>2. ASSUME NEW j \in ItemIds, Seen(r)[j].cart \notin {NoCart, UserCart},
               Seen(r)[j].sku = Seen(r)[i].sku
        PROVE  j = i
    BY <1>1, <1>2, <2>2 DEF PInv, UniqueRows, Unique, SamePlace
  <2> QED
    BY <1>2, <2>1, <2>2
<1>4. NoneLeft(next, Seen(r))
  <2> SUFFICES ASSUME NEW i \in ItemIds, Seen(r)[i].cart = session
               PROVE  \E g \in next.todo : /\ g.id = i /\ g.sku = Seen(r)[i].sku
                                           /\ g.quantity = Seen(r)[i].quantity
    BY DEF NoneLeft
  <2>1. PICK g : g = [id |-> i, sku |-> Seen(r)[i].sku, quantity |-> Seen(r)[i].quantity]
    OBVIOUS
  <2>2. g \in next.todo
    BY <2>1 DEF ItemsOf
  <2> QED
    BY <2>1, <2>2
<1> QED
  BY <1>1, <1>3, <1>4 DEF MergeRight, RaisesMost

LEMMA FindRight ==
    ASSUME IInv, PInv, NEW r \in Requests, request[r].pc = "find",
           MergeRight(request[r], Seen(r)),
           NEW g \in request[r].todo, NEW next, FoundFor(r, g, next)
    PROVE  MergeRight(next, Seen(r))
<1>1. PICK rows, req : rows = Seen(r) /\ req = request[r]
  OBVIOUS
<1>2. /\ req.cart \notin {NoCart, UserCart} /\ req.pc = "find"
      /\ ListedRight(req, rows) /\ NoneLeft(req, rows)
  BY <1>1 DEF MergeRight, InMerge
<1>3. /\ next.todo = req.todo \ {g} /\ next.cart = req.cart
      /\ g.quantity \in Nat /\ Has(rows, g.sku, g.quantity)
  BY <1>1, <1>2 DEF FoundFor, ListedRight
<1>4. ListedRight(next, rows)
  BY <1>2, <1>3 DEF ListedRight
<1>5. Unique(rows) /\ \A i \in ItemIds : rows[i].quantity \in Nat
  BY <1>1, SeenCounted DEF PInv, UniqueRows, Counted
<1>6. ASSUME NEW i \in ItemIds, rows[i].cart = req.cart
      PROVE  \/ \E h \in next.todo : h.id = i /\ h.sku = rows[i].sku /\ h.quantity = rows[i].quantity
             \/ g.id = i /\ g.sku = rows[i].sku /\ g.quantity = rows[i].quantity
             \/ UserHas(rows, rows[i].sku, rows[i].quantity)
  BY <1>2, <1>3, <1>6 DEF NoneLeft
<1>7. CASE next.pc = "move" /\ next.row = g.id
  BY <1>1, <1>2, <1>3, <1>4, <1>6, <1>7 DEF MergeRight, RaisesMost, NoneLeft
<1>8. ASSUME NEW t \in Holding(r, UserCart, g.sku),
             g.quantity <= Seen(r)[t].quantity, next.pc = "find"
      PROVE  MergeRight(next, rows)
  <2>1. UserHas(rows, g.sku, g.quantity)
    BY <1>1, <1>3, <1>5, <1>8 DEF Holding, ItemsOf, UserHas
  <2> QED
    BY <1>2, <1>3, <1>4, <1>6, <1>8, <2>1 DEF MergeRight, RaisesMost, NoneLeft
<1>9. ASSUME NEW t \in Holding(r, UserCart, g.sku), g.quantity > Seen(r)[t].quantity,
             next.pc = "save", next.row = t, next.new = g.quantity
      PROVE  MergeRight(next, rows)
  <2>1. t \in ItemIds /\ rows[t].cart = UserCart /\ rows[t].sku = g.sku
    BY <1>1 DEF Holding, ItemsOf
  <2>2. ASSUME NEW i \in ItemIds, rows[i].cart # NoCart, rows[i].sku = g.sku
        PROVE  rows[i].quantity <= g.quantity
    <3>1. CASE rows[i].cart = UserCart
      <4>1. i = t
        BY <1>5, <2>1, <2>2, <3>1 DEF Unique, SamePlace
      <4> QED
        BY <1>1, <1>3, <1>5, <1>9, <4>1
    <3>2. CASE rows[i].cart # UserCart
      BY <1>1, <1>2, <2>2, <3>2 DEF ListedRight
    <3> QED
      BY <3>1, <3>2
  <2>3. RaisesMost(next, rows)
    BY <1>3, <1>9, <2>1, <2>2 DEF RaisesMost, AtMost
  <2>4. NoneLeft(next, rows)
    BY <1>3, <1>6, <1>9, <2>1 DEF NoneLeft
  <2> QED
    BY <1>2, <1>3, <1>4, <2>3, <2>4 DEF MergeRight
<1> QED
  BY <1>1, <1>7, <1>8, <1>9 DEF FoundFor

LEMMA SaveRight ==
    ASSUME NEW rows \in [ItemIds -> CartItem], NEW req, NEW next, NEW new, NEW i,
           req.pc = "save", MergeRight(req, rows), i = req.row,
           \A j \in ItemIds : new[j] = IF j = i THEN [rows[i] EXCEPT !.quantity = req.new] ELSE rows[j],
           next.pc = "find", next.todo = req.todo, next.cart = req.cart
    PROVE  Keeps(rows, new) /\ MergeRight(next, new)
<1>1. InMerge(req) /\ RaisesMost(req, rows) /\ req.cart \notin {NoCart, UserCart}
  BY DEF MergeRight, InMerge
<1>2. /\ i \in ItemIds /\ req.new \in Nat /\ rows[i].cart = UserCart
      /\ Has(rows, rows[i].sku, req.new) /\ AtMost(rows, rows[i].sku, req.new)
  BY <1>1 DEF RaisesMost
<1>3. /\ new[i].cart = UserCart /\ new[i].sku = rows[i].sku /\ new[i].quantity = req.new
      /\ rows[i].quantity <= req.new
  BY <1>2 DEF CartItem, AtMost, UserCart, NoCart
<1>4. Counted(rows) /\ Counted(new)
  BY <1>2, <1>3 DEF Counted, CartItem, Quantities
<1>5. \A j \in ItemIds : rows[j].quantity \in Nat
  BY <1>4 DEF Counted
<1>6. Keeps(rows, new)
  <2> SUFFICES ASSUME NEW j \in ItemIds
               PROVE  /\ new[j].cart # NoCart =>
                           /\ rows[j].cart # NoCart
                           /\ new[j].sku = rows[j].sku /\ new[j].quantity >= rows[j].quantity
                           /\ Has(rows, new[j].sku, new[j].quantity)
                           /\ new[j].cart = UserCart \/ new[j] = rows[j]
                      /\ new[j].cart = NoCart => rows[j].cart = NoCart
    BY DEF Keeps
  <2>1. CASE j = i
    BY <1>2, <1>3, <1>5, <2>1 DEF UserCart, NoCart
  <2>2. CASE j # i
    BY <1>5, <2>2 DEF Has
  <2> QED
    BY <2>1, <2>2
<1>7. /\ ListedRight(req, new) /\ RaisesMost(req, new) /\ NoneLeft(req, new)
  BY <1>1, <1>4, <1>6, MergeStaysRight DEF MergeRight
<1>8. ListedRight(next, new)
  BY <1>7 DEF ListedRight
<1>9. NoneLeft(next, new)
  <2> SUFFICES ASSUME NEW j \in ItemIds, new[j].cart = req.cart, new[i].sku = new[j].sku
               PROVE  UserHas(new, new[j].sku, new[j].quantity)
    BY <1>7 DEF NoneLeft
  <2>1. new[j].quantity <= req.new
    BY <1>1, <1>7 DEF RaisesMost, AtMost
  <2> QED
    BY <1>2, <1>3, <2>1 DEF UserHas
<1> QED
  BY <1>1, <1>6, <1>8, <1>9 DEF MergeRight, RaisesMost

LEMMA MoveRight ==
    ASSUME NEW rows \in [ItemIds -> CartItem], NEW req, NEW next, NEW new, NEW i \in ItemIds,
           req.pc = "move", MergeRight(req, rows), i = req.row, rows[i].cart # NoCart,
           \A j \in ItemIds : new[j] = IF j = i THEN [rows[i] EXCEPT !.cart = UserCart] ELSE rows[j],
           next.pc = "find", next.todo = req.todo, next.cart = req.cart
    PROVE  Keeps(rows, new) /\ MergeRight(next, new)
<1>1. InMerge(req) /\ req.cart \notin {NoCart, UserCart}
  BY DEF MergeRight, InMerge
<1>2. new[i].cart = UserCart /\ new[i].sku = rows[i].sku /\ new[i].quantity = rows[i].quantity
  BY DEF CartItem
<1>3. Counted(rows) /\ Counted(new)
  BY <1>2 DEF Counted, CartItem, Quantities
<1>4. \A j \in ItemIds : rows[j].quantity \in Nat
  BY <1>3 DEF Counted
<1>5. Keeps(rows, new)
  BY <1>2, <1>4 DEF Keeps, Has, UserCart, NoCart
<1>6. /\ ListedRight(req, new) /\ NoneLeft(req, new)
  BY <1>1, <1>3, <1>5, MergeStaysRight DEF MergeRight
<1>7. ListedRight(next, new) /\ NoneLeft(next, new)
  BY <1>1, <1>2, <1>6 DEF ListedRight, NoneLeft
<1> QED
  BY <1>1, <1>5, <1>7 DEF MergeRight, RaisesMost

LEMMA DropRight ==
    ASSUME NEW rows \in [ItemIds -> CartItem], NEW req, NEW new,
           req.pc = "find", req.todo = {}, MergeRight(req, rows),
           \A j \in ItemIds : new[j] = IF rows[j].cart = req.cart THEN NoItem ELSE rows[j]
    PROVE  Keeps(rows, new)
<1>1. req.cart \notin {NoCart, UserCart} /\ NoneLeft(req, rows)
  BY DEF MergeRight, InMerge
<1>2. \A j \in ItemIds : rows[j].quantity \in Nat
  BY DEF CartItem, Quantities
<1>3. ASSUME NEW j \in ItemIds, rows[j].cart # NoCart, new[j].cart = NoCart
      PROVE  rows[j].cart # UserCart /\ UserHas(new, rows[j].sku, rows[j].quantity)
  <2>1. rows[j].cart = req.cart
    BY <1>3
  <2>2. UserHas(rows, rows[j].sku, rows[j].quantity)
    BY <1>1, <2>1 DEF NoneLeft
  <2> QED
    BY <1>1, <2>1, <2>2 DEF UserHas
<1>4. ASSUME NEW j \in ItemIds, new[j].cart # NoCart
      PROVE  new[j] = rows[j] /\ Has(rows, new[j].sku, new[j].quantity)
  <2>1. new[j] = rows[j]
    BY <1>4, NoItemTyped
  <2> QED
    BY <1>2, <1>4, <2>1 DEF Has
<1> QED
  BY <1>2, <1>3, <1>4 DEF Keeps

-----------------------------------------------------------------------------
(* As long as only merges write.                                           *)

MayLower(req) == req.op = "add" /\ req.pc = "write"
MergingNow(req) == req.who = "both" /\ req.pc # "idle"

(* What a request that merges sees keeps what is committed, unless it has  *)
(* locked the item an add counts on, and its merge goes on rightly.        *)
Epoch(r) ==
    MergingNow(request[r]) =>
        /\ MergeRight(request[r], Seen(r))
        /\ ~MayLower(request[r]) => Keeps(item, Seen(r))

EInv == ~touched => \A r \in Requests : Epoch(r)

RestSame(r) ==
    \A o \in Others(r) :
        /\ request'[o] = request[o] /\ writes'[o] = writes[o]
        /\ \A i \in DOMAIN writes[o] : item'[i] = item[i]

LEMMA OtherEpoch ==
    ASSUME IInv, IInv', NEW r \in Requests, NEW o \in Others(r), RestSame(r),
           Keeps(item, item'), Epoch(o)
    PROVE  Epoch(o)'
<1>1. /\ o \in Requests /\ request'[o] = request[o] /\ writes'[o] = writes[o]
      /\ \A i \in DOMAIN writes[o] : item'[i] = item[i]
  BY DEF RestSame, Others
<1> SUFFICES ASSUME MergingNow(request[o])
             PROVE  /\ MergeRight(request[o], Seen(o)')
                    /\ ~MayLower(request[o]) => Keeps(item', Seen(o)')
  BY <1>1 DEF Epoch
<1>2. /\ MergeRight(request[o], Seen(o))
      /\ ~MayLower(request[o]) => Keeps(item, Seen(o))
  BY DEF Epoch
<1>3. CASE MayLower(request[o])
  BY <1>3 DEF MayLower, MergeRight, InMerge
<1>4. CASE ~MayLower(request[o])
  <2>1. PICK old, new, was, now : /\ old = item /\ new = item'
                                  /\ was = Seen(o) /\ now = Seen(o)'
    OBVIOUS
  <2>2. /\ Counted(old) /\ Counted(was) /\ Counted(new) /\ Counted(now)
    BY <1>1, <2>1, SeenCounted, SeenCountedNext
  <2>3. Keeps(old, was) /\ Keeps(old, new)
    BY <1>2, <1>4, <2>1
  <2>4. \A i \in ItemIds :
           /\ i \in DOMAIN writes[o] => now[i] = was[i] /\ new[i] = old[i]
           /\ i \notin DOMAIN writes[o] => was[i] = old[i] /\ now[i] = new[i]
    BY <1>1, <2>1 DEF Seen, Overlay
  <2>5. \A i \in ItemIds : /\ old[i].quantity \in Nat /\ was[i].quantity \in Nat
                            /\ new[i].quantity \in Nat /\ now[i].quantity \in Nat
    BY <2>2 DEF Counted
  <2>6. Keeps(new, now)
    <3>1. ASSUME NEW i \in ItemIds, i \in DOMAIN writes[o], now[i].cart # NoCart
          PROVE  /\ new[i].cart # NoCart
                 /\ now[i].sku = new[i].sku /\ now[i].quantity >= new[i].quantity
                 /\ Has(new, now[i].sku, now[i].quantity)
                 /\ now[i].cart = UserCart \/ now[i] = new[i]
      <4>1. now[i] = was[i] /\ new[i] = old[i]
        BY <2>4, <3>1
      <4>2. /\ old[i].cart # NoCart
            /\ was[i].sku = old[i].sku /\ was[i].quantity >= old[i].quantity
            /\ Has(old, was[i].sku, was[i].quantity)
            /\ was[i].cart = UserCart \/ was[i] = old[i]
        BY <2>3, <3>1, <4>1 DEF Keeps
      <4>3. Has(new, was[i].sku, was[i].quantity)
        BY <2>2, <2>3, <2>5, <4>2, KeepsHas
      <4> QED
        BY <4>1, <4>2, <4>3
    <3>2. ASSUME NEW s, NEW q \in Nat, UserHas(was, s, q)
          PROVE  UserHas(now, s, q)
      <4>1. PICK j \in ItemIds : was[j].cart = UserCart /\ was[j].sku = s /\ was[j].quantity >= q
        BY <3>2 DEF UserHas
      <4>2. CASE j \in DOMAIN writes[o]
        <5>1. now[j] = was[j]
          BY <2>4, <4>2
        <5> QED
          BY <4>1, <5>1 DEF UserHas
      <4>3. CASE j \notin DOMAIN writes[o]
        <5>1. was[j] = old[j] /\ now[j] = new[j]
          BY <2>4, <4>3
        <5>2. new[j].cart # NoCart
          BY <2>3, <4>1, <5>1 DEF Keeps, UserCart, NoCart
        <5>3. new[j].cart = UserCart /\ new[j].sku = s /\ new[j].quantity >= old[j].quantity
          BY <2>3, <4>1, <5>1, <5>2 DEF Keeps
        <5>4. now[j].quantity >= q
          BY <2>5, <4>1, <5>1, <5>3
        <5> QED
          BY <5>1, <5>3, <5>4 DEF UserHas
      <4> QED
        BY <4>2, <4>3
    <3>3. ASSUME NEW i \in ItemIds, i \in DOMAIN writes[o], new[i].cart # NoCart, now[i].cart = NoCart
          PROVE  new[i].cart # UserCart /\ UserHas(now, new[i].sku, new[i].quantity)
      <4>1. now[i] = was[i] /\ new[i] = old[i]
        BY <2>4, <3>3
      <4>2. old[i].cart # UserCart /\ UserHas(was, old[i].sku, old[i].quantity)
        BY <2>3, <3>3, <4>1 DEF Keeps
      <4> QED
        BY <2>5, <3>2, <4>1, <4>2
    <3>4. ASSUME NEW i \in ItemIds, i \notin DOMAIN writes[o]
          PROVE  now[i] = new[i] /\ (new[i].cart # NoCart => Has(new, new[i].sku, new[i].quantity))
      BY <2>4, <2>5, <3>4 DEF Has
    <3> QED
      BY <2>5, <3>1, <3>3, <3>4 DEF Keeps
  <2>7. Keeps(was, now)
    <3>1. ASSUME NEW i \in ItemIds, i \in DOMAIN writes[o]
          PROVE  now[i] = was[i] /\ (was[i].cart # NoCart => Has(was, was[i].sku, was[i].quantity))
      BY <2>4, <2>5, <3>1 DEF Has
    <3>2. ASSUME NEW i \in ItemIds, i \notin DOMAIN writes[o], now[i].cart # NoCart
          PROVE  /\ was[i].cart # NoCart
                 /\ now[i].sku = was[i].sku /\ now[i].quantity >= was[i].quantity
                 /\ Has(was, now[i].sku, now[i].quantity)
                 /\ now[i].cart = UserCart \/ now[i] = was[i]
      <4>1. was[i] = old[i] /\ now[i] = new[i]
        BY <2>4, <3>2
      <4>2. /\ old[i].cart # NoCart
            /\ new[i].sku = old[i].sku /\ new[i].quantity >= old[i].quantity
            /\ Has(old, new[i].sku, new[i].quantity)
            /\ new[i].cart = UserCart \/ new[i] = old[i]
        BY <2>3, <3>2, <4>1 DEF Keeps
      <4>3. Has(was, new[i].sku, new[i].quantity)
        BY <2>2, <2>3, <2>5, <4>2, KeepsHas
      <4> QED
        BY <4>1, <4>2, <4>3
    <3>3. ASSUME NEW i \in ItemIds, i \notin DOMAIN writes[o], was[i].cart # NoCart, now[i].cart = NoCart
          PROVE  was[i].cart # UserCart /\ UserHas(now, was[i].sku, was[i].quantity)
      <4>1. was[i] = old[i] /\ now[i] = new[i]
        BY <2>4, <3>3
      <4>2. old[i].cart # UserCart /\ UserHas(new, old[i].sku, old[i].quantity)
        BY <2>3, <3>3, <4>1 DEF Keeps
      <4>3. UserHas(now, old[i].sku, old[i].quantity)
        BY <2>2, <2>5, <2>6, <4>2, KeepsHas
      <4> QED
        BY <4>1, <4>2, <4>3
    <3> QED
      BY <2>5, <3>1, <3>2, <3>3 DEF Keeps
  <2>8. MergeRight(request[o], now)
    BY <1>2, <2>1, <2>2, <2>7, MergeStaysRight
  <2> QED
    BY <2>1, <2>6, <2>8
<1> QED
  BY <1>3, <1>4

(* A statement of r that keeps what r sees keeps what is committed.        *)
LEMMA OwnEpoch ==
    ASSUME IInv, IInv', NEW r \in Requests, NEW new, Sees(r, new),
           Keeps(item, Seen(r)), Keeps(Seen(r), new)
    PROVE  Keeps(item, item') /\ Keeps(item', Seen(r)') /\ \A i \in ItemIds : Seen(r)'[i] = new[i]
<1>1. \A i \in ItemIds : Seen(r)'[i] = new[i]
  BY DEF Seen, Overlay, Sees
<1>2. Counted(item) /\ Counted(Seen(r)) /\ Counted(item') /\ Counted(Seen(r)')
  BY SeenCounted, SeenCountedNext
<1>3. Counted(new)
  BY <1>1, <1>2 DEF Counted
<1>4. Keeps(item, new)
  BY <1>2, <1>3, KeepsOn
<1>5. Keeps(item, Seen(r)')
  <2>1. PICK now : now = Seen(r)'
    OBVIOUS
  <2>2. Keeps(item, now)
    BY <1>1, <1>4, <2>1 DEF Keeps, UserHas
  <2> QED
    BY <2>1, <2>2
<1>6. CASE item' = item
  BY <1>1, <1>2, <1>5, <1>6, KeepsSame
<1>7. CASE item' = new
  BY <1>1, <1>2, <1>4, <1>7, KeepsSame
<1> QED
  BY <1>1, <1>6, <1>7 DEF Sees

LEMMA WriteRest ==
    ASSUME IInv, NEW r \in Requests, NEW rows, NEW next,
           Write(r, rows, next)
    PROVE  \A o \in Others(r) : \A i \in DOMAIN writes[o] : item'[i] = item[i]
<1> SUFFICES ASSUME NEW o \in Others(r), NEW i \in DOMAIN writes[o]
             PROVE  item'[i] = item[i]
  OBVIOUS
<1>1. i \in ItemIds /\ i \notin DOMAIN rows
  BY DEF Write, RowFree, Others, IInv, TypeOK
<1> QED
  BY <1>1 DEF Write, Overlay

LEMMA ListEpoch ==
    ASSUME IInv, PInv, NEW r \in Requests, ListGuestItems(r), Epoch(r)
    PROVE  Epoch(r)' /\ item' = item /\ RestSame(r)
<1>1. /\ UNCHANGED <<item, writes>>
      /\ \A o \in Others(r) : request'[o] = request[o]
      /\ request'[r].pc = "find" /\ request'[r].cart = session
      /\ request'[r].todo = {[id |-> i, sku |-> Seen(r)[i].sku,
                              quantity |-> Seen(r)[i].quantity] : i \in ItemsOf(r, session)}
  BY ListGuestItemsKeeps
<1>2. MergingNow(request[r]) /\ ~MayLower(request[r])
  BY MergesBoth DEF ListGuestItems, MergingNow, MayLower
<1>3. Seen(r)' = Seen(r) /\ Keeps(item, Seen(r))
  BY <1>1, <1>2 DEF Seen, Epoch
<1>4. MergeRight(request'[r], Seen(r))
  BY <1>1, ListRight
<1> QED
  BY <1>1, <1>3, <1>4 DEF Epoch, RestSame

LEMMA FindEpoch ==
    ASSUME IInv, PInv, NEW r \in Requests, FindTarget(r), Epoch(r)
    PROVE  Epoch(r)' /\ item' = item /\ RestSame(r)
<1>1. /\ UNCHANGED <<item, writes>>
      /\ \A o \in Others(r) : request'[o] = request[o]
      /\ \E g \in request[r].todo : FoundFor(r, g, request'[r])
  BY FindTargetKeeps
<1>2. MergingNow(request[r]) /\ ~MayLower(request[r]) /\ request[r].pc = "find"
  BY MergesBoth DEF FindTarget, MergingNow, MayLower
<1>3. Seen(r)' = Seen(r) /\ Keeps(item, Seen(r)) /\ MergeRight(request[r], Seen(r))
  BY <1>1, <1>2 DEF Seen, Epoch
<1>4. MergeRight(request'[r], Seen(r))
  BY <1>1, <1>2, <1>3, FindRight
<1> QED
  BY <1>1, <1>3, <1>4 DEF Epoch, RestSame

(* A step of a merging request that is not in its merge afterwards.        *)
LEMMA OutsideMerge ==
    ASSUME IInv, NEW r \in Requests, Epoch(r), UNCHANGED <<item, writes>>,
           MergingNow(request[r]), ~MayLower(request[r]), ~InMerge(request'[r])
    PROVE  Epoch(r)'
<1>1. Seen(r)' = Seen(r) /\ Keeps(item, Seen(r))
  BY DEF Seen, Epoch
<1> QED
  BY <1>1 DEF Epoch, MergeRight

LEMMA SaveEpoch ==
    ASSUME IInv, IInv', PInv, NEW r \in Requests, SaveTarget(r), Epoch(r)
    PROVE  Epoch(r)' /\ Keeps(item, item') /\ RestSame(r)
<1>1. PICK i, new : i = request[r].row /\ new = [Seen(r)[i] EXCEPT !.quantity = request[r].new]
  OBVIOUS
<1>2. PICK now : now = [Seen(r) EXCEPT ![i] = new]
  OBVIOUS
<1>3. /\ i \in ItemIds /\ Sees(r, now)
      /\ \A o \in Others(r) : request'[o] = request[o]
      /\ request'[r].pc = "find" /\ request'[r].todo = request[r].todo
      /\ request'[r].cart = request[r].cart
  BY <1>1, <1>2, SaveTargetKeeps
<1>4. MergingNow(request[r]) /\ ~MayLower(request[r]) /\ request[r].pc = "save"
  BY MergesBoth DEF SaveTarget, MergingNow, MayLower
<1>5. Keeps(item, Seen(r)) /\ MergeRight(request[r], Seen(r))
  BY <1>4 DEF Epoch
<1>6. Seen(r) \in [ItemIds -> CartItem]
  <2>1. Seen(r) = [j \in ItemIds |-> Seen(r)[j]]
    BY DEF Seen, Overlay
  <2> QED
    BY <2>1, SeenRow
<1>7. \A j \in ItemIds :
        now[j] = IF j = i THEN [Seen(r)[i] EXCEPT !.quantity = request[r].new] ELSE Seen(r)[j]
  BY <1>1, <1>2, <1>6
<1>8. Keeps(Seen(r), now) /\ MergeRight(request'[r], now)
  BY <1>1, <1>3, <1>4, <1>5, <1>6, <1>7, SaveRight
<1>9. /\ Keeps(item, item') /\ Keeps(item', Seen(r)')
      /\ \A j \in ItemIds : Seen(r)'[j] = now[j]
  BY <1>3, <1>5, <1>8, OwnEpoch
<1>10. Seen(r)' = now
  BY <1>2, <1>6, <1>9 DEF Seen, Overlay
<1>11. RestSame(r)
  BY <1>3, WriteRest DEF SaveTarget, RestSame, Sees
<1> QED
  BY <1>8, <1>9, <1>10, <1>11 DEF Epoch

LEMMA MoveEpoch ==
    ASSUME IInv, IInv', PInv, NEW r \in Requests, MoveGuestItem(r), Epoch(r)
    PROVE  Epoch(r)' /\ Keeps(item, item') /\ RestSame(r)
<1>1. PICK i, new : i = request[r].row /\ new = [Seen(r)[i] EXCEPT !.cart = UserCart]
  OBVIOUS
<1>2. PICK now : now = [Seen(r) EXCEPT ![i] = new]
  OBVIOUS
<1>3. /\ i \in ItemIds /\ Sees(r, now)
      /\ \A o \in Others(r) : request'[o] = request[o]
      /\ request'[r].pc = "find" /\ request'[r].todo = request[r].todo
      /\ request'[r].cart = request[r].cart
  BY <1>1, <1>2, MoveGuestItemKeeps
<1>4. /\ MergingNow(request[r]) /\ ~MayLower(request[r]) /\ request[r].pc = "move"
      /\ Seen(r)[i].cart # NoCart
  BY <1>1, MergesBoth DEF MoveGuestItem, MergingNow, MayLower
<1>5. Keeps(item, Seen(r)) /\ MergeRight(request[r], Seen(r))
  BY <1>4 DEF Epoch
<1>6. Seen(r) \in [ItemIds -> CartItem]
  <2>1. Seen(r) = [j \in ItemIds |-> Seen(r)[j]]
    BY DEF Seen, Overlay
  <2> QED
    BY <2>1, SeenRow
<1>7. \A j \in ItemIds :
        now[j] = IF j = i THEN [Seen(r)[i] EXCEPT !.cart = UserCart] ELSE Seen(r)[j]
  BY <1>1, <1>2, <1>6
<1>8. Keeps(Seen(r), now) /\ MergeRight(request'[r], now)
  BY <1>1, <1>3, <1>4, <1>5, <1>6, <1>7, MoveRight
<1>9. /\ Keeps(item, item') /\ Keeps(item', Seen(r)')
      /\ \A j \in ItemIds : Seen(r)'[j] = now[j]
  BY <1>3, <1>5, <1>8, OwnEpoch
<1>10. Seen(r)' = now
  BY <1>2, <1>6, <1>9 DEF Seen, Overlay
<1>11. RestSame(r)
  BY <1>3, WriteRest DEF MoveGuestItem, RestSame, Sees
<1> QED
  BY <1>8, <1>9, <1>10, <1>11 DEF Epoch

LEMMA DropEpoch ==
    ASSUME IInv, IInv', PInv, NEW r \in Requests, DropSessionCart(r), Epoch(r)
    PROVE  Epoch(r)' /\ Keeps(item, item') /\ RestSame(r)
<1>1. PICK gone : gone = [i \in ItemsOf(r, request[r].cart) |-> NoItem]
  OBVIOUS
<1>2. PICK now : now = Overlay(gone, Seen(r))
  OBVIOUS
<1>3. /\ Sees(r, now)
      /\ \A o \in Others(r) : request'[o] = request[o]
      /\ request'[r].pc \in {"list", "work"}
  BY <1>1, <1>2, DropSessionCartKeeps
<1>4. /\ MergingNow(request[r]) /\ ~MayLower(request[r]) /\ request[r].pc = "find"
      /\ request[r].todo = {}
  BY MergesBoth DEF DropSessionCart, MergingNow, MayLower
<1>5. Keeps(item, Seen(r)) /\ MergeRight(request[r], Seen(r))
  BY <1>4 DEF Epoch
<1>6. Seen(r) \in [ItemIds -> CartItem]
  <2>1. Seen(r) = [j \in ItemIds |-> Seen(r)[j]]
    BY DEF Seen, Overlay
  <2> QED
    BY <2>1, SeenRow
<1>7. \A j \in ItemIds :
        now[j] = IF Seen(r)[j].cart = request[r].cart THEN NoItem ELSE Seen(r)[j]
  BY <1>1, <1>2 DEF Overlay, ItemsOf
<1>8. Keeps(Seen(r), now)
  BY <1>4, <1>5, <1>6, <1>7, DropRight
<1>9. Keeps(item, item') /\ Keeps(item', Seen(r)')
  BY <1>3, <1>5, <1>8, OwnEpoch
<1>10. RestSame(r)
  BY <1>3, WriteRest DEF DropSessionCart, RestSame, Sees
<1>11. ~InMerge(request'[r])
  BY <1>3 DEF InMerge
<1> QED
  BY <1>9, <1>10, <1>11 DEF Epoch, MergeRight

LEMMA AnswerEpoch ==
    ASSUME IInv, PInv, NEW r \in Requests, Answer(r), Epoch(r)
    PROVE  Epoch(r)' /\ Keeps(item, item') /\ RestSame(r)
<1>1. /\ item' = Seen(r) /\ request'[r].pc = "idle" /\ Sees(r, Seen(r))
      /\ \A o \in Others(r) : request'[o] = request[o]
  BY AnswerKeeps
<1>2. Commit(r, writes[r]) /\ ~MayLower(request[r]) /\ request[r].pc # "idle"
  BY DEF Answer, MayLower
<1>3. Keeps(item, item')
  <2>1. CASE request[r].who = "both"
    BY <1>1, <1>2, <2>1 DEF MergingNow, Epoch
  <2>2. CASE request[r].who # "both"
    <3>1. DOMAIN writes[r] = {}
      BY <2>2 DEF Answer, IInv, Sound, AddSound, PInv, MergeShape
    <3>2. \A i \in ItemIds : item'[i] = item[i]
      BY <1>1, <3>1, SeenRow
    <3> QED
      BY <3>2, SeenCounted, KeepsSame
  <2> QED
    BY <2>1, <2>2
<1>4. \A o \in Others(r) : \A i \in DOMAIN writes[o] : item'[i] = item[i]
  BY <1>2 DEF Commit, Overlay, IInv, Locks, Others, TypeOK
<1> QED
  BY <1>1, <1>3, <1>4 DEF Epoch, MergingNow, RestSame, Sees

(* Every other step writes no committed row.                               *)
LEMMA LocalEpoch ==
    ASSUME IInv, PInv, NEW r \in Requests, Epoch(r),
           NoSessionCart(r) \/ FindItem(r) \/ LockItem(r) \/ Fail(r)
    PROVE  Epoch(r)' /\ item' = item /\ RestSame(r)
<1>1. CASE NoSessionCart(r)
  <2>1. MergingNow(request[r]) /\ ~MayLower(request[r])
    BY <1>1, MergesBoth DEF NoSessionCart, MergingNow, MayLower
  <2>2. /\ UNCHANGED <<item, writes>> /\ ~InMerge(request'[r])
        /\ \A o \in Others(r) : request'[o] = request[o]
    BY <1>1, NoSessionCartKeeps DEF InMerge
  <2> QED
    BY <2>1, <2>2, OutsideMerge DEF RestSame
<1>2. CASE FindItem(r)
  <2>1. /\ UNCHANGED <<item, writes>> /\ ~InMerge(request'[r])
        /\ \A o \in Others(r) : request'[o] = request[o]
    BY <1>2, FindItemKeeps DEF InMerge
  <2>2. /\ request'[r].who = request[r].who /\ request[r].pc = "work"
        /\ request[r].op # "add"
    <3>1. request \in [Requests -> RequestState]
      BY DEF IInv, TypeOK
    <3>2. request[r].pc = "work" /\ request[r].op # "add"
      BY <1>2 DEF FindItem
    <3>3. PICK i : request' = [request EXCEPT ![r].pc = "write", ![r].row = i]
      BY <1>2 DEF FindItem
    <3>4. request'[r].who = request[r].who
      BY <3>1, <3>3 DEF RequestState
    <3> QED
      BY <3>2, <3>4
  <2>3. CASE MergingNow(request[r])
    BY <2>1, <2>2, <2>3, OutsideMerge, SMTT(30) DEF RestSame, MayLower
  <2>4. CASE ~MergingNow(request[r])
    BY <2>1, <2>2, <2>4 DEF RestSame, Epoch, MergingNow
  <2> QED
    BY <2>3, <2>4
<1>3. CASE LockItem(r)
  BY <1>3, LockItemKeeps DEF RestSame, Epoch, MayLower, MergeRight, InMerge
<1>4. CASE Fail(r)
  BY <1>4, FailKeeps DEF RestSame, Epoch, MergingNow
<1> QED
  BY <1>1, <1>2, <1>3, <1>4

LEMMA BeginEpoch ==
    ASSUME IInv, PInv, NEW r \in Requests, NEW who \in {"guest", "user", "both"},
           NEW op \in {"look", "clear", "add", "change", "remove"},
           NEW s \in Skus, NEW q \in Quantities, Begin(r, who, op, s, q)
    PROVE  Epoch(r)' /\ item' = item /\ RestSame(r)
<1>1. /\ UNCHANGED <<item, writes>> /\ DOMAIN writes[r] = {}
      /\ \A o \in Others(r) : request'[o] = request[o]
      /\ request'[r].pc \in {"list", "work"}
  BY BeginKeeps
<1>2. \A i \in ItemIds : Seen(r)'[i] = item[i]
  BY <1>1 DEF Seen, Overlay
<1>3. Keeps(item, Seen(r)')
  BY <1>2, SeenCounted, KeepsSame
<1> QED
  BY <1>1, <1>3 DEF Epoch, MergeRight, InMerge, RestSame

(* What a request does as long as only merges write.                       *)
LEMMA RequestEpoch ==
    ASSUME IInv, IInv', PInv, NEW r \in Requests, Epoch(r), ~touched',
           MergeStep(r) \/ WorkStep(r) \/ Fail(r)
    PROVE  /\ Epoch(r)' /\ Keeps(item, item') /\ RestSame(r)
           /\ touched' = (touched /\ Merging) /\ request[r].pc # "idle"
<1>1. item' = item => Keeps(item, item')
  BY SeenCounted, KeepsSame
<1>2. ~Touch
  BY DEF Touch
<1>3. CASE MergeStep(r)
  <2>1. Epoch(r)' /\ Keeps(item, item') /\ RestSame(r)
    BY <1>1, <1>3, LocalEpoch, ListEpoch, FindEpoch, SaveEpoch, MoveEpoch, DropEpoch DEF MergeStep
  <2>2. Quiet /\ request[r].pc # "idle"
    BY <1>3 DEF MergeStep, NoSessionCart, ListGuestItems, FindTarget, SaveTarget, MoveGuestItem,
                DropSessionCart
  <2> QED
    BY <2>1, <2>2 DEF Quiet
<1>4. CASE WorkStep(r)
  <2>1. Answer(r) \/ LockItem(r) \/ FindItem(r)
    BY <1>2, <1>4 DEF WorkStep, ClearCart, AddItem, ChangeItem, RemoveItem
  <2>2. Epoch(r)' /\ Keeps(item, item') /\ RestSame(r)
    BY <1>1, <2>1, LocalEpoch, AnswerEpoch
  <2>3. Quiet /\ request[r].pc # "idle"
    BY <2>1 DEF Answer, LockItem, FindItem
  <2> QED
    BY <2>2, <2>3 DEF Quiet
<1>5. CASE Fail(r)
  <2>1. Epoch(r)' /\ Keeps(item, item') /\ RestSame(r)
    BY <1>1, <1>5, LocalEpoch
  <2> QED
    BY <1>5, <2>1 DEF Fail, Quiet
<1> QED
  BY <1>3, <1>4, <1>5

LEMMA EpochNext ==
    ASSUME IInv, IInv', PInv, EInv, [Next]_cartVars, ~touched'
    PROVE  (\A r \in Requests : Epoch(r)') /\ Keeps(item, item')
<1>1. ASSUME NEW r \in Requests, Epoch(r)', Keeps(item, item'), RestSame(r),
             touched' = (touched /\ Merging)
      PROVE  \A o \in Requests : Epoch(o)'
  <2> SUFFICES ASSUME NEW o \in Others(r)
               PROVE  Epoch(o)'
    BY <1>1 DEF Others
  <2>1. o \in Requests /\ request'[o] = request[o]
    BY <1>1 DEF RestSame, Others
  <2>2. CASE ~touched
    BY <1>1, <2>1, <2>2, OtherEpoch DEF EInv
  <2>3. CASE touched
    <3>1. ~Merging
      BY <1>1, <2>3
    <3> QED
      BY <2>1, <3>1 DEF Merging, Epoch, MergingNow
  <2> QED
    BY <2>2, <2>3
<1>2. CASE UNCHANGED cartVars
  <2>1. Keeps(item, item') /\ \A r \in Requests : Epoch(r)
    BY <1>2, SeenCounted, KeepsSame DEF cartVars, EInv
  <2>2. \A r \in Requests : Seen(r)' = Seen(r)
    BY <1>2 DEF cartVars, Seen
  <2> QED
    BY <1>2, <2>1, <2>2 DEF cartVars, Epoch
<1>3. ASSUME NEW r \in Requests, NEW who \in {"guest", "user", "both"},
             NEW op \in {"look", "clear", "add", "change", "remove"},
             NEW s \in Skus, NEW q \in Quantities, Begin(r, who, op, s, q)
      PROVE  (\A o \in Requests : Epoch(o)') /\ Keeps(item, item')
  <2>1. Epoch(r)' /\ item' = item /\ RestSame(r)
    BY <1>3, BeginEpoch
  <2>2. Keeps(item, item')
    BY <2>1, SeenCounted, KeepsSame
  <2>3. touched' = (touched /\ Merging)
    BY <1>3 DEF Begin
  <2> QED
    BY <1>1, <2>1, <2>2, <2>3
<1>4. ASSUME NEW r \in Requests, MergeStep(r) \/ WorkStep(r) \/ Fail(r)
      PROVE  (\A o \in Requests : Epoch(o)') /\ Keeps(item, item')
  <2>1. request[r].pc # "idle"
    BY <1>4 DEF MergeStep, NoSessionCart, ListGuestItems, FindTarget, SaveTarget, MoveGuestItem,
                DropSessionCart, WorkStep, Answer, ClearCart, LockItem, AddItem, FindItem,
                ChangeItem, RemoveItem, Fail
  <2>2. Epoch(r)
    <3>1. CASE request[r].who = "both"
      <4>1. Merging
        BY <2>1, <3>1 DEF Merging
      <4>2. touched' = (touched /\ Merging) \/ Touch
        BY <1>4 DEF MergeStep, NoSessionCart, ListGuestItems, FindTarget, SaveTarget, MoveGuestItem,
                DropSessionCart, WorkStep, Answer, ClearCart, LockItem, AddItem, FindItem,
                ChangeItem, RemoveItem, Fail, Quiet
      <4>3. ~touched
        BY <4>1, <4>2 DEF Touch
      <4> QED
        BY <4>3 DEF EInv
    <3>2. CASE request[r].who # "both"
      BY <3>2 DEF Epoch, MergingNow
    <3> QED
      BY <3>1, <3>2
  <2>3. /\ Epoch(r)' /\ Keeps(item, item') /\ RestSame(r)
        /\ touched' = (touched /\ Merging)
    BY <1>4, <2>2, RequestEpoch
  <2> QED
    BY <1>1, <2>3
<1> QED
  BY <1>2, <1>3, <1>4 DEF Next

(* The largest quantity is one some row has, and no row has more.          *)
LEMMA LargestOf ==
    ASSUME NEW S \in SUBSET Nat, S # {}, NEW bound \in Nat, \A q \in S : q <= bound
    PROVE  \E q \in S : \A p \in S : p <= q
<1>1. PICK T : T = {bound - q : q \in S}
  OBVIOUS
<1>2. T \subseteq Nat /\ T # {}
  <2>1. \A q \in S : q \in Nat /\ bound - q \in Nat
    BY SMTT(30)
  <2>2. PICK q \in S : TRUE
    OBVIOUS
  <2>3. bound - q \in T
    BY <1>1, <2>2
  <2> QED
    BY <1>1, <2>1, <2>3
<1>3. PICK least \in T : \A t \in T : <<t, least>> \notin OpToRel(<, Nat)
  BY <1>2, WFMin, NatLessThanWellFounded
<1>4. \A t \in T : ~(t < least)
  BY <1>2, <1>3 DEF OpToRel
<1>5. PICK q \in S : least = bound - q
  BY <1>1
<1>6. ASSUME NEW p \in S
      PROVE  p <= q
  <2>1. bound - p \in T
    BY <1>1
  <2> QED
    BY <1>4, <1>5, <2>1
<1> QED
  BY <1>6

LEMMA LargestHeld ==
    ASSUME NEW rows \in [ItemIds -> CartItem], NEW s
    PROVE  \/ Largest(rows, s) = 0
           \/ /\ Largest(rows, s) \in Nat /\ Has(rows, s, Largest(rows, s))
              /\ AtMost(rows, s, Largest(rows, s))
<1>1. PICK held : held = {rows[i].quantity :
                            i \in {j \in ItemIds : rows[j].cart # NoCart /\ rows[j].sku = s}}
  OBVIOUS
<1>2. CASE held = {}
  BY <1>1, <1>2 DEF Largest
<1>3. CASE held # {}
  <2>1. held \in SUBSET Nat /\ \A q \in held : q <= MaxQty
    BY <1>1 DEF CartItem, Quantities
  <2>2. \E q \in held : \A p \in held : p <= q
    <3>1. MaxQty \in Nat
      BY CartAssumption
    <3> QED
      BY <1>3, <2>1, <3>1, LargestOf
  <2>3. PICK most : most = CHOOSE q \in held : \A p \in held : p <= q
    OBVIOUS
  <2>4. most \in held /\ \A p \in held : p <= most
    BY <2>2, <2>3
  <2>5. Largest(rows, s) = most
    BY <1>1, <1>3, <2>3 DEF Largest
  <2>6. most \in Nat
    BY <2>1, <2>4
  <2>7. Has(rows, s, most)
    BY <1>1, <2>4, <2>6 DEF Has
  <2>8. AtMost(rows, s, most)
    BY <1>1, <2>4 DEF AtMost
  <2> QED
    BY <2>5, <2>6, <2>7, <2>8
<1> QED
  BY <1>2, <1>3

LEMMA LargestKept ==
    ASSUME NEW old \in [ItemIds -> CartItem], NEW new \in [ItemIds -> CartItem],
           Keeps(old, new), NEW s
    PROVE  Largest(new, s) >= Largest(old, s)
<1>1. Counted(old) /\ Counted(new)
  BY DEF Counted, CartItem, Quantities
<1>2. PICK L, M : L = Largest(old, s) /\ M = Largest(new, s)
  OBVIOUS
<1>3. CASE L = 0
  BY <1>2, <1>3, LargestHeld
<1>4. CASE L # 0
  <2>1. L \in Nat /\ Has(old, s, L)
    BY <1>2, <1>4, LargestHeld
  <2>2. PICK i \in ItemIds : new[i].cart # NoCart /\ new[i].sku = s /\ new[i].quantity >= L
    BY <1>1, <2>1, KeepsHas DEF Has
  <2>3. M # 0
    <3>1. PICK held : held = {new[j].quantity :
                                j \in {k \in ItemIds : new[k].cart # NoCart /\ new[k].sku = s}}
      OBVIOUS
    <3>2. new[i].quantity \in held /\ held \subseteq Nat \ {0} /\ \A q \in held : q <= MaxQty
      BY <2>2, <3>1 DEF CartItem, Quantities
    <3>3. \E q \in held : \A p \in held : p <= q
      <4>1. MaxQty \in Nat
        BY CartAssumption
      <4>2. held \in SUBSET Nat /\ held # {}
        BY <3>2
      <4> QED
        BY <3>2, <4>1, <4>2, LargestOf
    <3>4. PICK most : most = CHOOSE q \in held : \A p \in held : p <= q
      OBVIOUS
    <3>5. most \in held
      BY <3>3, <3>4
    <3>6. M = most
      BY <1>2, <3>1, <3>2, <3>4 DEF Largest
    <3> QED
      BY <3>2, <3>5, <3>6
  <2>4. M \in Nat /\ AtMost(new, s, M)
    BY <1>2, <2>3, LargestHeld
  <2>5. new[i].quantity <= M /\ new[i].quantity \in Nat
    BY <1>1, <2>2, <2>4 DEF AtMost, Counted
  <2> QED
    BY <1>2, <2>1, <2>2, <2>4, <2>5
<1> QED
  BY <1>3, <1>4

(* Merges that overlap lose nothing, whatever they read before they write: *)
(* as long as no add, change, removal or clearing is committed beside a    *)
(* merge, no step of any number of requests, a deleted session cart        *)
(* included, lowers what the customer has of a SKU.                        *)
THEOREM MergesLoseNothing == Spec => MergesKeepItems
<1>1. Init => PInv /\ EInv
  <2>1. Init => EInv
    BY DEF Init, EInv, Epoch, MergingNow, Idle
  <2> QED
    BY <2>1, PlacesInit
<1>2. IInv /\ IInv' /\ PInv /\ EInv /\ [Next]_cartVars => PInv' /\ EInv'
  BY PlacesNext, EpochNext DEF EInv
<1>3. IInv /\ IInv' /\ PInv /\ EInv /\ [Next]_cartVars
        => [~touched' => \A s \in Skus : Largest(item', s) >= Largest(item, s)]_cartVars
  <2> SUFFICES ASSUME IInv, IInv', PInv, EInv, [Next]_cartVars, ~touched', NEW s \in Skus
               PROVE  Largest(item', s) >= Largest(item, s)
    OBVIOUS
  <2>1. Keeps(item, item')
    BY EpochNext
  <2>2. item \in [ItemIds -> CartItem] /\ item' \in [ItemIds -> CartItem]
    BY DEF IInv, TypeOK
  <2> QED
    BY <2>1, <2>2, LargestKept
<1> QED
  BY <1>1, <1>2, <1>3, CartInvariant, PTL DEF Spec, MergesKeepItems

=============================================================================
