---------------------------- MODULE Catalog_proofs ----------------------------
(***************************************************************************)
(* Proofs about Catalog, for any number of products, queries, pages and    *)
(* attempts.                                                               *)
(***************************************************************************)
EXTENDS Catalog, FiniteSetTheorems, TLAPS

WalkState == [op : Operations, pc : {"idle", "counting", "slicing", "taking", "done"},
              ids : SUBSET Products, tries : Nat \ {0}, offset : Nat, total : Nat,
              rows : Slices, pages : Seq(Pages), fits : BOOLEAN]

(* What the history variables say of the walk, its slice and its pages.    *)
KeptOffered == Walking => kept \subseteq Offered
ShownOnSale == Walking => OnSale \subseteq shown /\ InStock \subseteq stocked
SliceShown == \A p \in DOMAIN walk.rows : <<p, walk.rows[p]>> \in shown
PagesCurrent ==
    \A i \in DOMAIN walk.pages : \A p \in DOMAIN walk.pages[i] :
        Current(p, walk.pages[i][p])
Started == (walk.offset = 0 <=> walk.pages = <<>>) /\ (walk.pc = "done" => walk.pages # <<>>)
FirstSlice ==
    walk.pc = "taking" /\ walk.pages = <<>> /\ walk.fits =>
        \A p \in walk.ids, s \in Skus : <<p, s>> \in kept => p \in DOMAIN walk.rows
FirstPage ==
    walk.pages # <<>> /\ walk.fits =>
        \A p \in walk.ids, s \in Skus :
            <<p, s>> \in kept =>
                /\ p \in DOMAIN walk.pages[1]
                /\ shape = "full" => s \in walk.pages[1][p].stock

IInv ==
    /\ TypeOK
    /\ KeptOffered
    /\ ShownOnSale
    /\ SliceShown
    /\ PagesCurrent
    /\ Started
    /\ FirstSlice
    /\ FirstPage

-----------------------------------------------------------------------------
(* One more element at the end of a sequence.                              *)
LEMMA OneMore ==
    ASSUME NEW S, NEW seq \in Seq(S), NEW x \in S, NEW next, next = Append(seq, x)
    PROVE  /\ next \in Seq(S) /\ next # <<>>
           /\ Len(seq) \in Nat
           /\ DOMAIN next = DOMAIN seq \cup {Len(seq) + 1}
           /\ \A i \in DOMAIN seq : next[i] = seq[i]
           /\ next[Len(seq) + 1] = x
           /\ seq # <<>> => 1 \in DOMAIN seq
           /\ seq = <<>> => Len(seq) = 0
<1>1. next \in Seq(S) /\ Len(next) = Len(seq) + 1 /\ Len(seq) \in Nat
  OBVIOUS
<1>2. DOMAIN next = 1..Len(next) /\ DOMAIN seq = 1..Len(seq)
  BY <1>1
<1>3. \A i \in DOMAIN seq : next[i] = seq[i]
  OBVIOUS
<1>4. next[Len(seq) + 1] = x
  OBVIOUS
<1>5. seq # <<>> => Len(seq) # 0
  OBVIOUS
<1>6. next # <<>>
  BY <1>1
<1> QED
  BY <1>1, <1>2, <1>3, <1>4, <1>5, <1>6

(* A walk that has nothing yet.                                            *)
LEMMA NoWalkTyped == NoWalk \in WalkState
<1>1. NoWalk.rows \in [{} -> 0..MaxVersion]
  BY DEF NoWalk
<1>2. NoWalk.rows \in Slices
  BY <1>1 DEF Slices
<1> QED
  BY <1>2, CatalogAssumption DEF NoWalk, WalkState, Operations, Pages

LEMMA NoRows == NoWalk.rows \in Slices /\ DOMAIN NoWalk.rows = {}
<1>1. DOMAIN NoWalk.rows = {}
  BY DEF NoWalk
<1> QED
  BY <1>1, NoWalkTyped DEF WalkState

LEMMA NoPages == <<>> \in Seq(Pages)
  OBVIOUS

LEMMA LimitPositive ==
    ASSUME NEW op \in Operations
    PROVE  /\ Limit[op] \in Nat \ {0}
           /\ Attempts[op] \in Nat \ {0}
  BY CatalogAssumption

LEMMA PageLimitTyped ==
    ASSUME TypeOK
    PROVE  PageLimit \in Nat \ {0}
  BY LimitPositive, CatalogAssumption DEF TypeOK, PageLimit, Smaller

LEMMA FeedFinite ==
    /\ IsFiniteSet(Feed) /\ Cardinality(Feed) \in Nat
    /\ Feed \subseteq Visible /\ Feed \subseteq walk.ids /\ Feed \subseteq Products
<1>1. Feed \in SUBSET Products
  BY DEF Feed, Visible
<1> QED
  BY <1>1, CatalogAssumption, FS_Subset, FS_CardinalityType DEF Feed

(* A feed that fits into a page is taken whole by the first slice.         *)
LEMMA WholeFeed ==
    ASSUME TypeOK, walk.offset = 0, Cardinality(Feed) <= PageLimit,
           NEW ids \in SUBSET Feed, Cardinality(ids) = PageSize(Cardinality(Feed))
    PROVE  ids = Feed
<1>1. Cardinality(ids) = Cardinality(Feed)
  BY FeedFinite, PageLimitTyped DEF PageSize, Smaller
<1> QED
  BY <1>1, FeedFinite, FS_Subset

-----------------------------------------------------------------------------
LEMMA InitInv == Init => IInv
<1> SUFFICES ASSUME Init PROVE IInv
  OBVIOUS
<1>1. TypeOK
  <2>1. walk \in WalkState /\ walk.tries <= Attempts[walk.op]
    BY NoWalkTyped, LimitPositive DEF Init, NoWalk, Operations
  <2>2. db \in Pages
    <3>1. db \in [{} -> Items]
      BY DEF Init
    <3> QED
      BY <3>1 DEF Pages
  <2>3. shelf \in [Products -> Rows]
    BY CatalogAssumption DEF Init, Rows
  <2> QED
    BY <2>1, <2>2, <2>3 DEF Init, TypeOK, WalkState
<1> QED
  BY <1>1 DEF Init, NoWalk, IInv, KeptOffered, ShownOnSale, SliceShown, PagesCurrent, Started,
              FirstSlice, FirstPage, Walking

(* What B2B does to one product.                                           *)
LEMMA ShelfStep ==
    ASSUME IInv, NEW p \in Products, NEW row \in Rows, Becomes(p, row)
    PROVE  IInv'
<1> USE DEF IInv
<1>1. shelf' \in [Products -> Rows]
  BY DEF Becomes, TypeOK
<1>2. OnSale' \subseteq Products \X (0..MaxVersion) /\ InStock' \subseteq Products \X Skus
  BY <1>1 DEF OnSale, InStock, Visible, Rows
<1>3. /\ kept' \subseteq kept /\ shown \subseteq shown' /\ stocked \subseteq stocked'
      /\ Walking => kept' \subseteq Offered'
  BY DEF Becomes
<1>4. UNCHANGED <<shape, walk, db>>
  BY DEF Becomes
<1>5. TypeOK'
  <2>1. /\ kept' \subseteq Products \X Skus
        /\ shown' \subseteq Products \X (0..MaxVersion)
        /\ stocked' \subseteq Products \X Skus
    BY <1>2, <1>3 DEF TypeOK, Becomes
  <2> QED
    BY <1>1, <1>4, <2>1 DEF TypeOK
<1>6. ShownOnSale' /\ KeptOffered'
  BY <1>3, <1>4 DEF ShownOnSale, KeptOffered, Walking, Becomes
<1>7. SliceShown' /\ PagesCurrent' /\ Started'
  BY <1>3, <1>4 DEF SliceShown, PagesCurrent, Current, Started
<1>8. FirstSlice' /\ FirstPage'
  BY <1>3, <1>4 DEF FirstSlice, FirstPage
<1> QED
  BY <1>5, <1>6, <1>7, <1>8

LEMMA SupplyInv ==
    ASSUME IInv, NEW p \in Products, Approve(p) \/ Edit(p) \/ Stock(p) \/ Delete(p)
    PROVE  IInv'
<1>1. shelf[p] \in Rows
  BY DEF IInv, TypeOK
<1>2. CASE Approve(p)
  <2>1. [shelf[p] EXCEPT !.status = "MODERATED"] \in Rows
    BY <1>1 DEF Rows
  <2> QED
    BY <1>2, <2>1, ShelfStep DEF Approve
<1>3. CASE Edit(p)
  <2>1. shelf[p].version + 1 \in 0..MaxVersion
    BY <1>1, <1>3, CatalogAssumption DEF Rows, Edit
  <2>2. [shelf[p] EXCEPT !.status = "ON_MODERATION", !.version = @ + 1] \in Rows
    BY <1>1, <2>1 DEF Rows
  <2> QED
    BY <1>3, <2>2, ShelfStep DEF Edit
<1>4. CASE Stock(p)
  <2>1. PICK stock \in SUBSET Sheet[p].skus : Becomes(p, [shelf[p] EXCEPT !.stock = stock])
    BY <1>4 DEF Stock
  <2>2. [shelf[p] EXCEPT !.stock = stock] \in Rows
    BY <1>1, CatalogAssumption DEF Rows
  <2> QED
    BY <2>1, <2>2, ShelfStep
<1>5. CASE Delete(p)
  <2>1. [shelf[p] EXCEPT !.status = "DELETED", !.stock = {}] \in Rows
    BY <1>1 DEF Rows
  <2> QED
    BY <1>5, <2>1, ShelfStep DEF Delete
<1> QED
  BY <1>2, <1>3, <1>4, <1>5

-----------------------------------------------------------------------------
(* A walk begins, at first or again, with no pages.                        *)
LEMMA Begins ==
    ASSUME IInv, UNCHANGED <<shelf, shape, db>>,
           walk' \in WalkState, walk'.tries <= Attempts[walk'.op],
           walk'.pc = "counting", walk'.offset = 0, walk'.pages = <<>>,
           walk'.rows = NoWalk.rows, HistoryBegins
    PROVE  IInv'
<1>1. Offered \subseteq Products \X Skus /\ InStock \subseteq Products \X Skus
  BY DEF IInv, TypeOK, Rows, Offered, InStock, Visible
<1>2. OnSale \subseteq Products \X (0..MaxVersion)
  BY DEF IInv, TypeOK, Rows, OnSale, Visible
<1>3. TypeOK'
  BY <1>1, <1>2 DEF IInv, TypeOK, WalkState, HistoryBegins
<1>4. KeptOffered' /\ ShownOnSale'
  BY DEF HistoryBegins, KeptOffered, Offered, Visible, ShownOnSale, OnSale, InStock
<1>5. SliceShown' /\ PagesCurrent' /\ Started' /\ FirstSlice' /\ FirstPage'
  BY NoRows DEF SliceShown, PagesCurrent, Started, FirstSlice, FirstPage
<1> QED
  BY <1>3, <1>4, <1>5 DEF IInv

(* A walk ends.                                                            *)
LEMMA Ends ==
    ASSUME IInv, UNCHANGED <<shelf, shape>>, db' \in Pages,
           walk' = NoWalk, HistoryEnds
    PROVE  IInv'
<1>1. walk' \in WalkState /\ walk'.tries <= Attempts[walk'.op]
  BY NoWalkTyped, LimitPositive DEF NoWalk, Operations
<1>2. TypeOK'
  BY <1>1 DEF IInv, TypeOK, WalkState, HistoryEnds
<1>3. walk'.pc = "idle" /\ walk'.pages = <<>> /\ walk'.offset = 0 /\ DOMAIN walk'.rows = {}
  BY NoRows DEF NoWalk
<1> QED
  BY <1>2, <1>3 DEF IInv, KeptOffered, ShownOnSale, Walking, SliceShown, PagesCurrent, Started,
                    FirstSlice, FirstPage

LEMMA StartInv ==
    ASSUME IInv, NEW op \in Operations, NEW ids \in SUBSET Products, Start(op, ids)
    PROVE  IInv'
<1>1. walk' = [op |-> op, pc |-> "counting", ids |-> ids, tries |-> Attempts[op],
               offset |-> 0, total |-> 0, rows |-> NoWalk.rows, pages |-> <<>>,
               fits |-> FALSE]
  BY DEF Start, NoWalk
<1>2. walk' \in WalkState
  BY <1>1, LimitPositive, NoPages, NoRows DEF WalkState
<1>3. walk'.tries <= Attempts[walk'.op]
  <2>1. walk'.op = op /\ walk'.tries = Attempts[op]
    BY <1>1
  <2>2. Attempts[op] <= Attempts[op]
    BY LimitPositive
  <2> QED
    BY <2>1, <2>2
<1>4. UNCHANGED <<shelf, shape, db>> /\ HistoryBegins
  BY DEF Start
<1>5. /\ walk'.pc = "counting" /\ walk'.offset = 0 /\ walk'.pages = <<>>
      /\ walk'.rows = NoWalk.rows
  BY <1>1
<1> QED
  BY <1>2, <1>3, <1>4, <1>5, Begins

LEMMA RetryInv ==
    ASSUME IInv, Retry
    PROVE  IInv'
<1>1. walk' = [op |-> walk.op, pc |-> "counting", ids |-> walk.ids, tries |-> walk.tries - 1,
               offset |-> 0, total |-> 0, rows |-> NoWalk.rows, pages |-> <<>>,
               fits |-> FALSE]
  BY DEF Retry, IInv, TypeOK
<1>2. /\ walk.op \in Operations /\ walk.ids \in SUBSET Products
      /\ walk.tries - 1 \in Nat \ {0} /\ walk.tries - 1 <= Attempts[walk.op]
  BY LimitPositive DEF Retry, IInv, TypeOK
<1>3. walk' \in WalkState /\ walk'.tries <= Attempts[walk'.op]
  BY <1>1, <1>2, NoPages, NoRows DEF WalkState
<1> QED
  BY <1>1, <1>3, Begins DEF Retry

LEMMA CountInv ==
    ASSUME IInv, Count
    PROVE  IInv'
<1>1. walk' = [op |-> walk.op, pc |-> "slicing", ids |-> walk.ids, tries |-> walk.tries,
               offset |-> walk.offset, total |-> Cardinality(Feed), rows |-> walk.rows,
               pages |-> walk.pages, fits |-> walk.fits]
  BY DEF Count, IInv, TypeOK
<1>2. UNCHANGED <<shelf, shape, db, kept, shown, stocked>>
  BY DEF Count, histories
<1>3. TypeOK'
  BY <1>1, <1>2, FeedFinite DEF IInv, TypeOK
<1>4. KeptOffered' /\ ShownOnSale'
  BY <1>1, <1>2 DEF IInv, KeptOffered, ShownOnSale, Walking, Count, OnSale, InStock, Offered,
                    Visible
<1>5. SliceShown' /\ PagesCurrent' /\ Started'
  BY <1>1, <1>2 DEF IInv, SliceShown, PagesCurrent, Current, Started
<1>6. FirstSlice' /\ FirstPage'
  BY <1>1, <1>2 DEF IInv, FirstSlice, FirstPage
<1> QED
  BY <1>3, <1>4, <1>5, <1>6 DEF IInv

-----------------------------------------------------------------------------
(* The slice: what it has is on sale, and, of a feed that fits, all of it. *)
LEMMA SliceInv ==
    ASSUME IInv, Slice
    PROVE  IInv'
<1> USE DEF IInv
<1>1. UNCHANGED <<shelf, shape, db, kept, shown, stocked>> /\ walk.pc = "slicing"
  BY DEF Slice, histories
<1>2. PICK ids \in SUBSET Feed :
        /\ Cardinality(ids) = PageSize(Cardinality(Feed))
        /\ walk' = [walk EXCEPT !.pc = "taking", !.fits = Fits,
                                !.rows = [p \in ids |-> shelf[p].version]]
  BY DEF Slice
<1>3. PICK rows : rows = [p \in ids |-> shelf[p].version]
  OBVIOUS
<1>4. walk' = [op |-> walk.op, pc |-> "taking", ids |-> walk.ids, tries |-> walk.tries,
               offset |-> walk.offset, total |-> walk.total, rows |-> rows,
               pages |-> walk.pages, fits |-> Fits]
  BY <1>2, <1>3 DEF TypeOK
<1>5. rows \in Slices /\ DOMAIN rows = ids
  <2>1. rows \in [ids -> 0..MaxVersion]
    BY <1>3, FeedFinite DEF TypeOK, Rows
  <2> QED
    BY <2>1, FeedFinite DEF Slices
<1>6. Fits \in BOOLEAN
  <2>1. walk.fits \in BOOLEAN
    BY DEF TypeOK
  <2>2. (Cardinality(Feed) <= PageLimit) \in BOOLEAN
    BY FeedFinite, PageLimitTyped, SMT
  <2> QED
    BY <2>1, <2>2, Zenon DEF Fits
<1>7. TypeOK'
  <2>1. walk' \in WalkState
    BY <1>4, <1>5, <1>6 DEF WalkState, TypeOK
  <2> QED
    BY <1>1, <1>4, <2>1 DEF TypeOK, WalkState
<1>8. KeptOffered' /\ ShownOnSale'
  BY <1>1, <1>4 DEF KeptOffered, ShownOnSale, Walking, OnSale, InStock, Offered, Visible
<1>9. SliceShown'
  BY <1>1, <1>3, <1>4, <1>5, FeedFinite DEF SliceShown, ShownOnSale, Walking, OnSale
<1>10. PagesCurrent' /\ Started'
  BY <1>1, <1>4 DEF PagesCurrent, Current, Started
<1>11. FirstSlice'
  <2> SUFFICES ASSUME walk.pages = <<>>, Fits, NEW p \in walk.ids, NEW s \in Skus,
                      <<p, s>> \in kept
               PROVE  p \in ids
    BY <1>1, <1>4, <1>5 DEF FirstSlice
  <2>1. ids = Feed
    BY <1>2, WholeFeed DEF Fits, Started
  <2>2. p \in Visible
    BY <1>1 DEF KeptOffered, Walking, Offered
  <2> QED
    BY <2>1, <2>2 DEF Feed
<1>12. FirstPage'
  BY <1>1, <1>4 DEF FirstPage, Fits, Started
<1> QED
  BY <1>7, <1>8, <1>9, <1>10, <1>11, <1>12

(* The SKUs, read after the slice, and the page.                           *)
LEMMA TakeInv ==
    ASSUME IInv, Take
    PROVE  IInv'
<1> USE DEF IInv
<1>1. UNCHANGED <<shelf, shape, db, kept, shown, stocked>> /\ walk.pc = "taking"
  BY DEF Take, histories
<1>2. PICK page : page = [p \in DOMAIN walk.rows |-> Item(p)]
  OBVIOUS
<1>3. PICK pc \in {"counting", "done"} : pc = (IF More THEN "counting" ELSE "done")
  OBVIOUS
<1>4. walk' = [op |-> walk.op, pc |-> pc, ids |-> walk.ids, tries |-> walk.tries,
               offset |-> walk.offset + Limit[walk.op], total |-> 0, rows |-> NoWalk.rows,
               pages |-> Append(walk.pages, page), fits |-> walk.fits]
  BY <1>2, <1>3 DEF Take, TypeOK
<1>5. page \in Pages /\ DOMAIN page = DOMAIN walk.rows
  <2>1. PICK ids \in SUBSET Products : walk.rows \in [ids -> 0..MaxVersion]
    BY DEF TypeOK, Slices
  <2>2. \A p \in ids : Item(p) \in Items
    BY <2>1 DEF TypeOK, Rows, Items, Item
  <2>3. page \in [ids -> Items]
    BY <1>2, <2>1, <2>2
  <2> QED
    BY <2>1, <2>3 DEF Pages
<1>6. walk.pages \in Seq(Pages)
  BY DEF TypeOK
<1>7. /\ walk'.pages # <<>> /\ walk'.pages \in Seq(Pages)
      /\ DOMAIN walk'.pages = DOMAIN walk.pages \cup {Len(walk.pages) + 1}
      /\ \A i \in DOMAIN walk.pages : walk'.pages[i] = walk.pages[i]
      /\ walk'.pages[Len(walk.pages) + 1] = page
      /\ walk.pages # <<>> => 1 \in DOMAIN walk.pages
      /\ walk.pages = <<>> => Len(walk.pages) + 1 = 1
  <2>1. PICK next : next = walk'.pages
    OBVIOUS
  <2>2. PICK seq \in Seq(Pages) : seq = walk.pages
    BY <1>6
  <2>3. next = Append(seq, page)
    BY <1>4, <2>1, <2>2
  <2>4. /\ next # <<>> /\ next \in Seq(Pages)
        /\ DOMAIN next = DOMAIN seq \cup {Len(seq) + 1}
        /\ \A i \in DOMAIN seq : next[i] = seq[i]
        /\ next[Len(seq) + 1] = page
        /\ seq # <<>> => 1 \in DOMAIN seq
        /\ seq = <<>> => Len(seq) = 0
    BY <1>5, <2>3, OneMore
  <2>5. seq = <<>> => Len(seq) + 1 = 1
    BY <2>4
  <2> QED
    BY <2>1, <2>2, <2>4, <2>5
<1>8. walk'.offset \in Nat \ {0} /\ walk'.op = walk.op /\ walk'.tries = walk.tries
  BY <1>4, LimitPositive DEF TypeOK
<1>9. TypeOK'
  <2>1. walk'.op \in Operations /\ walk'.pc \in {"counting", "done"}
    BY <1>3, <1>4 DEF TypeOK
  <2>2. walk'.ids \in SUBSET Products /\ walk'.tries \in Nat \ {0} /\ walk'.fits \in BOOLEAN
    BY <1>4 DEF TypeOK
  <2>3. walk'.total = 0 /\ walk'.rows \in Slices
    BY <1>4, NoRows
  <2>4. walk' = [op |-> walk'.op, pc |-> walk'.pc, ids |-> walk'.ids, tries |-> walk'.tries,
                 offset |-> walk'.offset, total |-> walk'.total, rows |-> walk'.rows,
                 pages |-> walk'.pages, fits |-> walk'.fits]
    BY <1>4
  <2>5. walk' \in WalkState
    BY <1>7, <1>8, <2>1, <2>2, <2>3, <2>4 DEF WalkState
  <2> QED
    BY <1>1, <1>8, <2>5 DEF TypeOK, WalkState
<1>10. KeptOffered' /\ ShownOnSale'
  BY <1>1, <1>3, <1>4 DEF KeptOffered, ShownOnSale, Walking, OnSale, InStock, Offered, Visible
<1>11. SliceShown' /\ FirstSlice'
  BY <1>3, <1>4, NoRows DEF SliceShown, FirstSlice
<1>12. PagesCurrent'
  <2>1. ASSUME NEW p \in DOMAIN page PROVE Current(p, page[p])
    <3>1. p \in Products
      BY <1>5 DEF Pages
    <3>2. page[p].version = walk.rows[p] /\ page[p].stock \subseteq shelf[p].stock
      BY <1>2, <1>5 DEF Item
    <3>3. {p} \X shelf[p].stock \subseteq stocked
      BY <1>1, <3>1 DEF ShownOnSale, Walking, InStock
    <3> QED
      BY <1>5, <3>2, <3>3 DEF Current, SliceShown
  <2>2. \A p \in DOMAIN page : Current(p, page[p])'
    BY <1>1, <2>1 DEF Current
  <2> QED
    BY <1>1, <1>7, <2>2 DEF PagesCurrent, Current
<1>13. Started'
  BY <1>7, <1>8 DEF Started
<1>14. FirstPage'
  <2>1. walk'.fits = walk.fits /\ walk'.ids = walk.ids
    BY <1>4
  <2>2. CASE walk.pages = <<>>
    <3> SUFFICES ASSUME walk.fits, NEW p \in walk.ids, NEW s \in Skus, <<p, s>> \in kept
                 PROVE  p \in DOMAIN page /\ (shape = "full" => s \in page[p].stock)
      BY <1>1, <1>7, <2>1, <2>2 DEF FirstPage
    <3>1. p \in DOMAIN page
      BY <1>1, <1>5, <2>2 DEF FirstSlice
    <3>2. s \in shelf[p].stock
      BY <1>1 DEF KeptOffered, Walking, Offered
    <3> QED
      BY <1>2, <1>5, <3>1, <3>2 DEF Item
  <2>3. CASE walk.pages # <<>>
    BY <1>1, <1>7, <2>1, <2>3 DEF FirstPage
  <2> QED
    BY <2>2, <2>3
<1> QED
  BY <1>9, <1>10, <1>11, <1>12, <1>13, <1>14

(* What a synchronisation writes: rows of its own pages.                   *)
LEMMA CommitWrites ==
    ASSUME IInv, Commit
    PROVE  /\ db' \in Pages
           /\ \A p \in DOMAIN db' : Current(p, db'[p])
<1>1. PICK last \in [Projected -> DOMAIN walk.pages] :
        /\ \A p \in Projected : LastPage(p, last[p])
        /\ db' = [p \in Projected |-> walk.pages[last[p]][p]]
  BY DEF Commit
<1>2. \A i \in DOMAIN walk.pages : walk.pages[i] \in Pages
  BY DEF IInv, TypeOK
<1>3. \A p \in Projected : /\ last[p] \in DOMAIN walk.pages
                           /\ p \in DOMAIN walk.pages[last[p]]
                           /\ p \in Products
                           /\ walk.pages[last[p]][p] \in Items
  BY <1>1, <1>2 DEF LastPage, Pages
<1>4. db' \in [Projected -> Items] /\ Projected \subseteq Products
  BY <1>1, <1>3
<1> QED
  BY <1>1, <1>3, <1>4 DEF Pages, IInv, PagesCurrent

LEMMA NextInv == IInv /\ [Next]_catalogVars => IInv'
<1> SUFFICES ASSUME IInv, [Next]_catalogVars PROVE IInv'
  OBVIOUS
<1>1. CASE UNCHANGED catalogVars
  <2>1. UNCHANGED <<shelf, shape, walk, db, kept, shown, stocked>>
    BY <1>1 DEF catalogVars
  <2>2. TypeOK' /\ Started' /\ FirstSlice' /\ FirstPage'
    BY <2>1 DEF IInv, TypeOK, Started, FirstSlice, FirstPage
  <2>3. KeptOffered' /\ ShownOnSale' /\ SliceShown' /\ PagesCurrent'
    BY <2>1 DEF IInv, KeptOffered, ShownOnSale, SliceShown, PagesCurrent, Current, Walking,
                OnSale, InStock, Offered, Visible
  <2> QED
    BY <2>2, <2>3 DEF IInv
<1>2. ASSUME NEW p \in Products, Approve(p) \/ Edit(p) \/ Stock(p) \/ Delete(p) PROVE IInv'
  BY <1>2, SupplyInv
<1>3. ASSUME NEW op \in Operations, NEW ids \in SUBSET Products, Start(op, ids) PROVE IInv'
  BY <1>3, StartInv
<1>4. CASE Count
  BY <1>4, CountInv
<1>5. CASE Slice
  BY <1>5, SliceInv
<1>10. CASE Take
  BY <1>10, TakeInv
<1>6. CASE Retry
  BY <1>6, RetryInv
<1>7. CASE GiveUp
  BY <1>7, Ends DEF GiveUp, IInv, TypeOK
<1>8. CASE Respond
  BY <1>8, Ends DEF Respond, IInv, TypeOK
<1>9. CASE Commit
  BY <1>9, Ends, CommitWrites DEF Commit
<1> QED
  BY <1>1, <1>2, <1>3, <1>4, <1>5, <1>6, <1>7, <1>8, <1>9, <1>10 DEF Next

-----------------------------------------------------------------------------
(* The catalog's rows and the walk keep their shape.                       *)
THEOREM CatalogTyped == Spec => []TypeOK
<1>1. IInv => TypeOK
  BY DEF IInv
<1> QED
  BY InitInv, NextInv, <1>1, PTL DEF Spec

(* What a walk hands over, and what a synchronisation leaves in the read   *)
(* model, was on sale and in stock while the attempt that succeeded was    *)
(* walking, for any number of pages and of attempts that failed, with      *)
(* SKUs in B2B's items and without.                                        *)
THEOREM ItemsAreCurrent == Spec => ItemsCurrent
<1> DEFINE step == /\ walk.pc = "done" =>
                        \A i \in DOMAIN walk.pages : \A p \in DOMAIN walk.pages[i] :
                            Current(p, walk.pages[i][p])
                   /\ db' # db => \A p \in DOMAIN db' : Current(p, db'[p])
<1>1. IInv /\ [Next]_catalogVars => [step]_catalogVars
  <2> SUFFICES ASSUME IInv, Next PROVE step
    OBVIOUS
  <2>1. \A i \in DOMAIN walk.pages : \A p \in DOMAIN walk.pages[i] :
            Current(p, walk.pages[i][p])
    BY DEF IInv, PagesCurrent
  <2>2. db' # db => Commit
    BY DEF Next, Approve, Edit, Stock, Delete, Becomes, Start, Count, Slice, Take, GiveUp, Retry,
           Respond
  <2> QED
    BY <2>1, <2>2, CommitWrites
<1> QED
  BY InitInv, NextInv, <1>1, PTL DEF Spec, ItemsCurrent

-----------------------------------------------------------------------------
(* More traits satisfy no less.                                            *)
LEMMA TraitsGrow ==
    ASSUME NEW small, NEW large, small \subseteq large, NEW wanted, HasTraits(small, wanted)
    PROVE  HasTraits(large, wanted)
  BY DEF HasTraits

(* As long as the feed fits into one page, a product that had a SKU on     *)
(* offer all the time is among the walk's items, whatever B2B does between *)
(* count and slice and SKUs, and in items that show their SKUs every query *)
(* that such a SKU satisfies finds its product.                            *)
THEOREM OffersAreFound == Spec => []OffersFound
<1>1. IInv => OffersFound
  <2> SUFFICES ASSUME IInv, walk.pc = "done", walk.fits,
                      NEW p \in walk.ids, NEW s \in Skus, <<p, s>> \in kept
               PROVE  /\ p \in Collected
                      /\ shape = "full" /\ ListDone =>
                           \A q \in Queries :
                               Fitting(p, s, q) => \E item \in Listed(q) : item[2] = p
    BY DEF OffersFound
  <2>1. p \in DOMAIN walk.pages[1] /\ (shape = "full" => s \in walk.pages[1][p].stock)
    BY DEF IInv, FirstPage, Started
  <2>2. 1 \in DOMAIN walk.pages
    BY DEF IInv, TypeOK, Started
  <2>3. p \in Collected
    BY <2>1, <2>2 DEF Collected
  <2>4. ASSUME shape = "full", NEW q \in Queries, Fitting(p, s, q)
        PROVE  \E item \in Listed(q) : item[2] = p
    <3> DEFINE item == <<1, p>>
    <3>1. item \in Fetched
      BY <2>1, <2>2 DEF Fetched
    <3>2. s \in SkusOf(item)
      BY <2>1, <2>4 DEF SkusOf
    <3>3. InPriceRange(item, q)
      BY <2>4, <3>2 DEF InPriceRange, Price, Fitting
    <3>4. HasTraits(AttributeMap(item), q.wanted)
      <4>1. Sheet[p].traits[s] \cup Sheet[p].traits[Whole] \subseteq AttributeMap(item)
        BY <3>2 DEF AttributeMap, TraitsOf
      <4> QED
        BY <2>4, <4>1, TraitsGrow DEF Fitting
    <3>5. Matches(item, q)
      BY <2>4, <3>2, <3>3, <3>4 DEF Matches, Fitting
    <3> QED
      BY <3>1, <3>5 DEF Listed
  <2> QED
    BY <2>3, <2>4
<1> QED
  BY InitInv, NextInv, <1>1, PTL DEF Spec

-----------------------------------------------------------------------------
(* Asking for one more plain value keeps the items that have it.           *)
LEMMA NarrowedListed ==
    ASSUME NEW q \in Queries, NEW t \in Traits, Plain(t),
           \A u \in q.wanted : Slug(u) # Slug(t)
    PROVE  Listed(Narrowed(q, t)) = {item \in Listed(q) : t \in AttributeMap(item)}
<1> DEFINE n == Narrowed(q, t)
<1>1. /\ n.skuIds = q.skuIds /\ n.categories = q.categories /\ n.found = q.found
      /\ n.lo = q.lo /\ n.hi = q.hi /\ n.wanted = q.wanted \cup {t}
  BY CatalogAssumption DEF Narrowed, Plain
<1> HIDE DEF n
<1>2. ASSUME NEW traits
      PROVE  HasTraits(traits, n.wanted) <=> HasTraits(traits, q.wanted) /\ t \in traits
  BY <1>1 DEF HasTraits, Plain
<1>3. ASSUME NEW item
      PROVE  Matches(item, n) <=> Matches(item, q) /\ t \in AttributeMap(item)
  BY <1>1, <1>2 DEF Matches, InPriceRange
<1>4. Listed(n) = {item \in Listed(q) : t \in AttributeMap(item)}
  BY <1>3 DEF Listed
<1> QED
  BY <1>4 DEF n

LEMMA FetchedFinite ==
    ASSUME TypeOK
    PROVE  IsFiniteSet(Fetched)
<1>1. walk.pages \in Seq(Pages)
  BY DEF TypeOK
<1>2. DOMAIN walk.pages = 1..Len(walk.pages) /\ Len(walk.pages) \in Nat
  BY <1>1
<1>3. IsFiniteSet(DOMAIN walk.pages)
  BY <1>2, FS_Interval
<1>4. Fetched \subseteq (DOMAIN walk.pages) \X Products
  BY <1>1, <1>2 DEF Fetched, Pages
<1>5. IsFiniteSet(Products)
  BY CatalogAssumption
<1>6. IsFiniteSet((DOMAIN walk.pages) \X Products)
  BY <1>3, <1>5, FS_Product
<1> QED
  BY <1>4, <1>6, FS_Subset

(* A plain value that a facet shows, one that the filter compares as it    *)
(* is, leads to a list that is not empty and no longer than the facet      *)
(* says.                                                                   *)
THEOREM FacetsSound == Spec => []FacetsLead
<1>1. IInv => FacetsLead
  <2> SUFFICES ASSUME TypeOK, NEW q \in Queries, NEW t \in Traits, Plain(t),
                      \A u \in q.wanted : Slug(u) # Slug(t)
               PROVE  /\ Cardinality(Listed(Narrowed(q, t))) <= FacetCount(q, t)
                      /\ FacetCount(q, t) > 0 => Listed(Narrowed(q, t)) # {}
    BY DEF FacetsLead, IInv
  <2> DEFINE narrowed == Listed(Narrowed(q, t))
             mentions == UNION {{item} \X Bearers(item, t) : item \in Listed(q)}
             first == [item \in narrowed |-> <<item, CHOOSE s \in Bearers(item, t) : TRUE>>]
  <2>1. narrowed = {item \in Listed(q) : Bearers(item, t) # {}}
    BY NarrowedListed DEF AttributeMap, Bearers
  <2>2. IsFiniteSet(mentions)
    <3>1. mentions \subseteq Fetched \X (Skus \cup {Whole})
      BY DEF Listed, Bearers, SkusOf, TypeOK, Pages, Items, Fetched
    <3>2. IsFiniteSet(Skus \cup {Whole})
      BY CatalogAssumption, FS_AddElement
    <3>3. IsFiniteSet(Fetched \X (Skus \cup {Whole}))
      BY <3>2, FetchedFinite, FS_Product
    <3> QED
      BY <3>1, <3>3, FS_Subset
  <2>3. first \in Injection(narrowed, mentions)
    <3>1. first \in [narrowed -> mentions]
      BY <2>1
    <3>2. \A x, y \in narrowed : first[x] = first[y] => x = y
      OBVIOUS
    <3> QED
      BY <3>1, <3>2 DEF Injection, IsInjective
  <2>4. Cardinality(narrowed) <= Cardinality(mentions)
    BY <2>2, <2>3, FS_Injection
  <2>5. Cardinality(mentions) > 0 => narrowed # {}
    <3>1. mentions # {} => narrowed # {}
      BY <2>1
    <3> QED
      BY <3>1, FS_EmptySet
  <2> QED
    BY <2>4, <2>5 DEF FacetCount
<1> QED
  BY InitInv, NextInv, <1>1, PTL DEF Spec
=============================================================================
