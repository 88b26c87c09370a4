-------------------------------- MODULE Catalog --------------------------------
(***************************************************************************)
(* The catalog service and the feed of B2B it reads: the walk over the     *)
(* feed's pages, which a request of a shopper and the synchronisation at   *)
(* start both make, what a shopper's query keeps of the items, the facets, *)
(* and the read model that the synchronisation replaces.                   *)
(*                                                                         *)
(* A page of the feed is a count, a slice of the products and, for items   *)
(* that show SKUs, a statement that fetches them, with B2B moving in       *)
(* between.  The slice has no ORDER BY: the aggregate in                   *)
(* _catalog_visible_queryset makes Django drop the ordering of the model,  *)
(* so which rows a slice returns is the database's choice, at every page   *)
(* again.  What a seller writes on a product is its version; a SKU that is *)
(* edited goes on as another member of Skus.  Order and page of the answer *)
(* to the shopper are left out.                                            *)
(***************************************************************************)
EXTENDS Naturals, Sequences, FiniteSets

CONSTANTS
    Products,    \* products of B2B
    Skus,        \* names of SKUs
    Sheet,       \* what B2B knows of each product and its SKUs, edits aside
    Traits,      \* <<slug, value>>: characteristics of products and SKUs
    Pieces,      \* what a trait is, asked for: its value is split at commas
    Cap,         \* largest page B2B returns
    Limit,       \* page size the walk asks for, per operation
    Attempts,    \* walks an operation makes before it gives up
    Queries,     \* queries of shoppers
    Whole,       \* the product itself, beside its SKUs
    Requests,    \* bound: ids that shoppers ask for, beside all
    Edited,      \* bound: products that are edited
    MaxVersion   \* bound: edits of one product

VARIABLES
    shelf,    \* B2B's products
    shape,    \* what B2B's items carry: never changes
    walk,     \* the walk under way
    db,       \* the catalog's read model
    kept,     \* SKUs on offer throughout the walk (history)
    shown,    \* products and versions on sale at some time of the walk (history)
    stocked   \* SKUs in stock at some time of the walk (history)

histories == <<kept, shown, stocked>>
catalogVars == <<shelf, shape, walk, db, kept, shown, stocked>>

Operations == {"list", "sync"}
Slug(t) == t[1]

ASSUME CatalogAssumption ==
    /\ IsFiniteSet(Products) /\ IsFiniteSet(Skus)
    /\ Whole \notin Skus
    /\ Cap \in Nat \ {0}
    /\ Limit \in [Operations -> Nat \ {0}]
    /\ Attempts \in [Operations -> Nat \ {0}]
    /\ Requests \subseteq SUBSET Products
    /\ MaxVersion \in Nat
    /\ \A p \in Products :
         /\ Sheet[p].skus \subseteq Skus
         /\ Sheet[p].traits \in [Skus \cup {Whole} -> SUBSET Traits]
         /\ Sheet[p].price \in [Skus -> Nat]
    /\ \A t \in Traits : Pieces[t] \subseteq {u \in Traits : Slug(u) = Slug(t)}
    /\ Queries \subseteq [skuIds : SUBSET Skus, found : SUBSET Products,
                          categories : SUBSET {Sheet[p].category : p \in Products},
                          lo : Nat, hi : Nat,
                          wanted : SUBSET {t \in Traits : Slug(t) # "price"}]

Rows == [status : {"ON_MODERATION", "MODERATED", "DELETED"},
         stock : SUBSET Skus, version : 0..MaxVersion]
Items == [stock : SUBSET Skus, version : 0..MaxVersion]
Pages == UNION {[ids -> Items] : ids \in SUBSET Products}
Slices == UNION {[ids -> 0..MaxVersion] : ids \in SUBSET Products}
Shapes == {"short", "full"}

NoWalk == [op |-> "list", pc |-> "idle", ids |-> Products, tries |-> 1,
           offset |-> 0, total |-> 0, rows |-> [p \in {} |-> 0],
           pages |-> <<>>, fits |-> FALSE]

TypeOK ==
    /\ shelf \in [Products -> Rows]
    /\ shape \in Shapes
    /\ walk \in [op : Operations, pc : {"idle", "counting", "slicing", "taking", "done"},
                 ids : SUBSET Products, tries : Nat \ {0}, offset : Nat, total : Nat,
                 rows : Slices, pages : Seq(Pages), fits : BOOLEAN]
    /\ walk.tries <= Attempts[walk.op]
    /\ db \in Pages
    /\ kept \subseteq Products \X Skus
    /\ shown \subseteq Products \X (0..MaxVersion)
    /\ stocked \subseteq Products \X Skus

(* Products are in B2B before the catalog starts, with a database of its   *)
(* own that is empty.                                                      *)
Init ==
    /\ shelf \in [Products -> {[status |-> st, stock |-> {}, version |-> 0] :
                                 st \in {"ON_MODERATION", "MODERATED"}}]
    /\ shape \in Shapes
    /\ walk = NoWalk
    /\ db = [p \in {} |-> [stock |-> {}, version |-> 0]]
    /\ kept = {} /\ shown = {} /\ stocked = {}

-----------------------------------------------------------------------------
(* What B2B offers, and how it changes.                                    *)

Visible == {p \in Products : shelf[p].status = "MODERATED" /\ shelf[p].stock # {}}
Offered == UNION {{p} \X shelf[p].stock : p \in Visible}
OnSale == {<<p, shelf[p].version>> : p \in Visible}
InStock == UNION {{p} \X shelf[p].stock : p \in Products}
Walking == walk.pc \in {"counting", "slicing", "taking"}

Becomes(p, row) ==
    /\ shelf' = [shelf EXCEPT ![p] = row]
    /\ kept' = IF Walking THEN kept \cap Offered' ELSE kept
    /\ shown' = IF Walking THEN shown \cup OnSale' ELSE shown
    /\ stocked' = IF Walking THEN stocked \cup InStock' ELSE stocked
    /\ UNCHANGED <<shape, walk, db>>

Approve(p) ==
    /\ shelf[p].status = "ON_MODERATION"
    /\ Becomes(p, [shelf[p] EXCEPT !.status = "MODERATED"])

Edit(p) ==
    /\ shelf[p].status = "MODERATED"
    /\ p \in Edited /\ shelf[p].version < MaxVersion
    /\ Becomes(p, [shelf[p] EXCEPT !.status = "ON_MODERATION", !.version = @ + 1])

(* Deliveries, reserves, returns and deletions of SKUs.                    *)
Stock(p) ==
    /\ shelf[p].status # "DELETED"
    /\ \E stock \in SUBSET Sheet[p].skus :
         stock # shelf[p].stock /\ Becomes(p, [shelf[p] EXCEPT !.stock = stock])

Delete(p) ==
    /\ shelf[p].status # "DELETED"
    /\ Becomes(p, [shelf[p] EXCEPT !.status = "DELETED", !.stock = {}])

-----------------------------------------------------------------------------
(* The walk: _fetch_b2b_all_products and _fetch_all_products.              *)

(* B2B filters by the ids of a request, which is passed on with all its    *)
(* parameters.                                                             *)
FullyStocked == {p \in Visible \cap walk.ids :                          \* mutant
                    shelf[p].stock = Sheet[p].skus}
Feed == Visible \cap walk.ids
Smaller(a, b) == IF a < b THEN a ELSE b
PageLimit == Smaller(Limit[walk.op], Cap)
PageSize(n) == IF n <= walk.offset THEN 0 ELSE Smaller(PageLimit, n - walk.offset)

HistoryBegins == kept' = Offered /\ shown' = OnSale /\ stocked' = InStock
HistoryEnds == kept' = {} /\ shown' = {} /\ stocked' = {}

Start(op, ids) ==
    /\ walk.pc = "idle"
    /\ ids = Products \/ (op = "list" /\ ids \in Requests)
    /\ walk' = [NoWalk EXCEPT !.op = op, !.pc = "counting", !.ids = ids,
                              !.tries = Attempts[op]]
    /\ HistoryBegins
    /\ UNCHANGED <<shelf, shape, db>>

Count ==
    /\ walk.pc = "counting"
    /\ walk' = [walk EXCEPT !.pc = "slicing", !.total = Cardinality(Feed)]
    /\ UNCHANGED <<shelf, shape, db, histories>>

(* With a count of 0 the walk takes the items it has, which are no more    *)
(* than it asked for, for the total: it ends too.                          *)
More == DOMAIN walk.rows # {} /\ walk.offset + Limit[walk.op] < walk.total
Fits == IF walk.offset = 0 THEN Cardinality(Feed) <= PageLimit ELSE walk.fits
Slice ==
    /\ walk.pc = "slicing"
    /\ \E ids \in SUBSET Feed :
         /\ Cardinality(ids) = PageSize(Cardinality(Feed))
         /\ walk' = [walk EXCEPT !.pc = "taking", !.fits = Fits,
                                 !.rows = [p \in ids |-> shelf[p].version]]
    /\ UNCHANGED <<shelf, shape, db, histories>>

(* The SKUs of the sliced products, those in stock, if the items show      *)
(* SKUs, and the arrival of the page.                                      *)
Item(p) == [stock |-> IF shape = "full" THEN shelf[p].stock ELSE {},
            version |-> walk.rows[p]]
Take ==
    /\ walk.pc = "taking"
    /\ walk' = [walk EXCEPT !.pages = Append(@, [p \in DOMAIN walk.rows |-> Item(p)]),
                            !.offset = @ + Limit[walk.op], !.rows = NoWalk.rows, !.total = 0,
                            !.pc = IF More THEN "counting" ELSE "done"]
    /\ UNCHANGED <<shelf, shape, db, histories>>

(* B2B cannot be reached, or answers with an error: the shopper gets 502;  *)
(* the synchronisation begins again with no items.                         *)
GiveUp ==
    /\ Walking
    /\ walk.tries = 1
    /\ walk' = NoWalk
    /\ HistoryEnds
    /\ UNCHANGED <<shelf, shape, db>>

RetryKeepingPages ==                                                    \* mutant
    /\ Walking
    /\ walk.tries > 1
    /\ walk' = [walk EXCEPT !.pc = "counting", !.tries = @ - 1, !.offset = 0,
                            !.rows = NoWalk.rows]
    /\ HistoryBegins
    /\ UNCHANGED <<shelf, shape, db>>
RetryUncounted ==                                                       \* mutant
    /\ Walking
    /\ walk' = [walk EXCEPT !.pc = "counting", !.tries = @ - 1, !.offset = 0,
                            !.rows = NoWalk.rows]
    /\ HistoryBegins
    /\ UNCHANGED <<shelf, shape, db>>
Retry ==
    /\ Walking
    /\ walk.tries > 1
    /\ walk' = [walk EXCEPT !.pc = "counting", !.tries = @ - 1, !.offset = 0,
                            !.total = 0, !.rows = NoWalk.rows, !.pages = <<>>,
                            !.fits = FALSE]
    /\ HistoryBegins
    /\ UNCHANGED <<shelf, shape, db>>

-----------------------------------------------------------------------------
(* The read model.                                                         *)

Collected == UNION {DOMAIN walk.pages[i] : i \in DOMAIN walk.pages}
(* A product that two pages have is written twice.                         *)
LastPage(p, i) ==
    /\ p \in DOMAIN walk.pages[i]
    /\ \A j \in DOMAIN walk.pages : p \in DOMAIN walk.pages[j] => j <= i

(* A snapshot without a category is passed over, and what was not written  *)
(* is deleted.                                                             *)
Projected == IF shape = "full" THEN Collected ELSE {}
Commit ==
    /\ walk.pc = "done" /\ walk.op = "sync"
    /\ \E last \in [Projected -> DOMAIN walk.pages] :
         /\ \A p \in Projected : LastPage(p, last[p])
         /\ db' = [p \in Projected |-> walk.pages[last[p]][p]]
    /\ walk' = NoWalk
    /\ HistoryEnds
    /\ UNCHANGED <<shelf, shape>>

Respond ==
    /\ walk.pc = "done" /\ walk.op = "list"
    /\ walk' = NoWalk
    /\ HistoryEnds
    /\ UNCHANGED <<shelf, shape, db>>

-----------------------------------------------------------------------------
(* What a shopper's query keeps.  An item is a product on a page; without  *)
(* SKUs it is not in stock.                                                *)

Fetched == UNION {{i} \X DOMAIN walk.pages[i] : i \in DOMAIN walk.pages}
SkusOf(item) == walk.pages[item[1]][item[2]].stock
TraitsOf(item, s) == Sheet[item[2]].traits[s]
ProductTraits(item) == TraitsOf(item, Whole)                            \* mutant
AttributeMap(item) == UNION {TraitsOf(item, s) : s \in SkusOf(item) \cup {Whole}}
Price(item, s) == Sheet[item[2]].price[s]

(* The dearest SKU is not below the range and the cheapest not above it.   *)
InPriceRange(item, q) ==
    /\ \E s \in SkusOf(item) : q.lo <= Price(item, s)
    /\ \E s \in SkusOf(item) : Price(item, s) <= q.hi

(* One of the values asked for, for every characteristic asked for.  The   *)
(* slug "availability" asks for goods in stock, whatever the value.        *)
HasTraits(traits, wanted) ==
    \A t \in wanted :
        \/ Slug(t) = "availability"
        \/ \E u \in wanted : Slug(u) = Slug(t) /\ u \in traits

Matches(item, q) ==
    /\ SkusOf(item) # {}
    /\ q.skuIds = {} \/ SkusOf(item) \cap q.skuIds # {}
    /\ Sheet[item[2]].category \in q.categories
    /\ item[2] \in q.found
    /\ InPriceRange(item, q)
    /\ HasTraits(AttributeMap(item), q.wanted)

Listed(q) == {item \in Fetched : Matches(item, q)}

(* The query with one more value asked for, as the filter reads it.        *)
Narrowed(q, t) == [q EXCEPT !.wanted = @ \cup Pieces[t]]

(* A facet counts the items that have the value and their SKUs that do.    *)
Bearers(item, t) == {s \in SkusOf(item) \cup {Whole} : t \in TraitsOf(item, s)}
FacetCount(q, t) == Cardinality(UNION {{item} \X Bearers(item, t) : item \in Listed(q)})

-----------------------------------------------------------------------------
Next ==
    \/ \E p \in Products : Approve(p) \/ Edit(p) \/ Stock(p) \/ Delete(p)
    \/ \E op \in Operations, ids \in SUBSET Products : Start(op, ids)
    \/ Count \/ Slice \/ Take \/ GiveUp \/ Retry
    \/ Commit \/ Respond

Spec == Init /\ [][Next]_catalogVars

-----------------------------------------------------------------------------
(* Properties.                                                             *)

ListDone == walk.pc = "done" /\ walk.op = "list"

Fitting(p, s, q) ==
    /\ q.skuIds = {} \/ s \in q.skuIds
    /\ Sheet[p].category \in q.categories /\ p \in q.found
    /\ q.lo <= Sheet[p].price[s] /\ Sheet[p].price[s] <= q.hi
    /\ HasTraits(Sheet[p].traits[s] \cup Sheet[p].traits[Whole], q.wanted)

(* As long as the feed fits into one page, B2B moving under a walk hides   *)
(* nothing from it: a product that had a SKU on offer all the time is      *)
(* among the items, for the list and for the synchronisation.  If the      *)
(* items show their SKUs, every query that such a SKU satisfies finds its  *)
(* product.  The short items of B2B's public list do not: of them the list *)
(* keeps nothing, and this part says nothing.                              *)
OffersFound ==
    walk.pc = "done" /\ walk.fits =>
        \A p \in walk.ids, s \in Skus :
            <<p, s>> \in kept =>
                /\ p \in Collected
                /\ shape = "full" /\ ListDone =>
                     \A q \in Queries :
                         Fitting(p, s, q) => \E item \in Listed(q) : item[2] = p

(* Values that the filter compares as they are shown.  "USB, HDMI" is read *)
(* as two values, and the slugs "availability" and "price" as filters that *)
(* are no characteristics.                                                 *)
Plain(t) == Pieces[t] = {t} /\ Slug(t) \notin {"availability", "price"}

(* A plain value that a facet shows leads somewhere, and the list it leads *)
(* to is no longer than the facet says.  Other values may lead astray.     *)
(* Short items have no facets.                                             *)
FacetsLead ==
    ListDone => \A q \in Queries, t \in Traits :
        Plain(t) /\ (\A u \in q.wanted : Slug(u) # Slug(t)) =>
            /\ Cardinality(Listed(Narrowed(q, t))) <= FacetCount(q, t)
            /\ FacetCount(q, t) > 0 => Listed(Narrowed(q, t)) # {}

(* An item's product was on sale as the item has it, and its SKUs were in  *)
(* stock, while the attempt that succeeded was walking.  Not necessarily   *)
(* at the same moment: they are read by two statements.                    *)
Current(p, item) == <<p, item.version>> \in shown /\ {p} \X item.stock \subseteq stocked

(* What a walk hands over, and what a synchronisation leaves in the read   *)
(* model, is current: nothing older, nothing left over, whatever attempts  *)
(* failed before and whatever B2B's items show.                            *)
ItemsCurrent ==
    [][/\ walk.pc = "done" =>
             \A i \in DOMAIN walk.pages : \A p \in DOMAIN walk.pages[i] :
                 Current(p, walk.pages[i][p])
       /\ db' # db => \A p \in DOMAIN db' : Current(p, db'[p])]_catalogVars
=============================================================================
