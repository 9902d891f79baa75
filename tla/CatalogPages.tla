---------------------------- MODULE CatalogPages ----------------------------
(***************************************************************************)
(* Looking for a product on the phone: a list of products that is loaded   *)
(* page by page, by page number, for a category or for the text that was   *)
(* typed last and held still for a while; and the page of a product, with  *)
(* the choice of a variety and of a quantity for the cart.  The list stays *)
(* mounted under the page; they share nothing (CatalogStep, ProductStep).  *)
(*                                                                         *)
(* The catalog is kept newest first, as the API sorts it.  A category is a *)
(* search here: a key of its own and a set of products.  A variety whose   *)
(* stock is not counted behaves as one with plenty; it is left out.        *)
(***************************************************************************)
EXTENDS Naturals, Sequences, FiniteSets

CONSTANTS
  Searches, Nothing, \* texts that may be searched for, and none
  Finds,             \* Finds[t]: the products a search finds
  PerPage,           \* products of a page
  MaxProducts,       \* bound: products ever in the catalog
  MaxCatalogMoves,   \* bound: products added or withdrawn
  Varieties,         \* the varieties of the product whose page is open
  MaxStock,          \* bound: pieces of a variety
  MaxOffers,         \* bound: changes of what is offered
  MaxCatalogFaults   \* bound: requests without an answer

ASSUME CatalogAssumption ==
  /\ Nothing \notin Searches
  /\ PerPage \in Nat \ {0}
  /\ {MaxProducts, MaxCatalogMoves, MaxStock, MaxOffers, MaxCatalogFaults} \subseteq Nat
  /\ Varieties \subseteq Nat \ {0}

VARIABLES
  catalog,   \* the active products, newest first
  version,   \* changes of the catalog so far
  typed,     \* the text in the field
  query,     \* the text that is searched for (useDebouncedSearch)
  found,     \* found[t]: the cached pages of a search
  fetching,  \* fetching[t]: its request
  offer,     \* offer[v]: the API's offer of a variety
  product,   \* the cached product
  reading,   \* its request
  picked,    \* the variety the customer tapped, 0 for none
  quantity,  \* the number on the stepper
  buying,    \* the line on its way to the cart
  chosenFor, \* history: the variety that was shown when the stepper was used last
  fell,      \* history: a variety was read with less stock than the stepper says
  offers, catalogFaults \* counted for their bounds

listVars == <<catalog, version, typed, query, found, fetching>>
productVars == <<offer, product, reading, picked, quantity, buying, chosenFor, fell, offers>>
catalogVars == <<listVars, productVars, catalogFaults>>

Ids == 1 .. MaxProducts
NoPages == [known |-> FALSE, failed |-> FALSE, pages |-> <<>>]
NotFetching == [kind |-> "none", pages |-> <<>>, goal |-> 0]
NoProduct == [known |-> FALSE, failed |-> FALSE, offer |-> [v \in Varieties |-> [active |-> TRUE, stock |-> MaxStock]]]

CatalogInit ==
  /\ catalog = <<2, 1>> /\ version = 0
  /\ typed = Nothing /\ query = Nothing
  /\ found = [t \in Searches |-> NoPages] /\ fetching = [t \in Searches |-> NotFetching]
  /\ offer = [v \in Varieties |-> [active |-> TRUE, stock |-> MaxStock]]
  /\ product = NoProduct /\ reading = [stage |-> "idle", offer |-> NoProduct.offer]
  /\ picked = 0 /\ quantity = 1 /\ buying = [variety |-> 0, quantity |-> 0]
  /\ chosenFor = 0 /\ fell = FALSE /\ offers = 0 /\ catalogFaults = 0

CatalogFault == catalogFaults < MaxCatalogFaults /\ catalogFaults' = catalogFaults + 1

-----------------------------------------------------------------------------
(***************************************************************************)
(* The catalog                                                             *)
(***************************************************************************)

InCatalog == {catalog[i] : i \in DOMAIN catalog}

\* A list filtered: what is kept stays in its order.
Filtered(list, S) ==
  LET kept == {i \in DOMAIN list : list[i] \in S}
      place(i) == Cardinality({j \in kept : j < i}) + 1
  IN [k \in 1 .. Cardinality(kept) |-> list[CHOOSE i \in kept : place(i) = k]]

\* A new product is the first of every list it belongs to; one may be withdrawn.
CatalogMoves ==
  /\ version < MaxCatalogMoves
  /\ version' = version + 1
  /\ \/ \E p \in Ids : (\A q \in InCatalog : p > q) /\ catalog' = <<p>> \o catalog
     \/ \E p \in InCatalog : catalog' = Filtered(catalog, InCatalog \ {p})
  /\ UNCHANGED <<typed, query, found, fetching, productVars, catalogFaults>>

\* list_customer_products(): a page by its number, and how many there are.
Matching(t) == Filtered(catalog, Finds[t])

PageOf(t, n) ==
  LET all == Matching(t) IN
  [rows |-> SubSeq(all, (n - 1) * PerPage + 1, IF n * PerPage > Len(all) THEN Len(all) ELSE n * PerPage),
   total |-> Len(all), at |-> version]

-----------------------------------------------------------------------------
(***************************************************************************)
(* The list                                                                *)
(***************************************************************************)

\* Mutant: every search keeps its pages under one key.
OneKey(t) == CHOOSE s \in Searches : TRUE

\* The key of a search's pages (catalogKeys.products).
SearchKey(t) == t

\* getNextPageParam: by the last page's count.
HasNext(pages) == Len(pages) * PerPage < pages[Len(pages)].total

\* A fetch of every page there is takes the place of the one on its way; a first
\* load is shared.
FetchAll(t) ==
  IF ~found[SearchKey(t)].known /\ fetching[SearchKey(t)].kind # "none" THEN UNCHANGED fetching
  ELSE fetching' = [fetching EXCEPT ![SearchKey(t)] =
         [kind |-> "all", pages |-> <<>>,
          goal |-> IF found[SearchKey(t)].pages = <<>> THEN 1 ELSE Len(found[SearchKey(t)].pages)]]

\* The field: emptied, the search is off at once; else the timer starts anew.
Type(t) ==
  /\ t # typed
  /\ typed' = t
  /\ query' = IF t = Nothing THEN Nothing ELSE query
  /\ UNCHANGED <<catalog, version, found, fetching, productVars, catalogFaults>>

\* The timer: another key is looked up; known pages are fetched anew once stale.
Search ==
  /\ typed \notin {Nothing, query}
  /\ query' = typed
  /\ \/ found[SearchKey(typed)].known /\ UNCHANGED fetching
     \/ FetchAll(typed)
  /\ UNCHANGED <<catalog, version, typed, found, productVars, catalogFaults>>

\* The button of the error, a push message or the return to the front.
RefreshList ==
  /\ query # Nothing
  /\ FetchAll(query)
  /\ UNCHANGED <<catalog, version, typed, query, found, productVars, catalogFaults>>

\* Where pages have rows: <<page, row>>, in the order they are drawn.
RowSpots(pages) == UNION {{n} \X DOMAIN pages[n].rows : n \in DOMAIN pages}
SpotsAbove(pages, s) ==
  {t \in RowSpots(pages) : t[1] < s[1] \/ (t[1] = s[1] /\ t[2] < s[2])}

\* The pages one after the other (flatMap).
Rows(pages) ==
  LET spot(k) == CHOOSE s \in RowSpots(pages) : Cardinality(SpotsAbove(pages, s)) = k - 1
  IN [k \in 1 .. Cardinality(RowSpots(pages)) |-> pages[spot(k)[1]].rows[spot(k)[2]]]

ListShown == query # Nothing /\ found[SearchKey(query)].known /\ ~found[SearchKey(query)].failed

Shown == found[SearchKey(query)].pages

CanLoadMore == HasNext(Shown) /\ Len(Rows(Shown)) < Shown[Len(Shown)].total

\* fetchNextPage(): a fetch of all pages that is on its way is dropped.
LoadMore ==
  /\ ListShown /\ CanLoadMore /\ fetching[SearchKey(query)].kind # "next"
  /\ fetching' = [fetching EXCEPT ![SearchKey(query)] =
       [kind |-> "next", pages |-> Shown, goal |-> Len(Shown) + 1]]
  /\ UNCHANGED <<catalog, version, typed, query, found, productVars, catalogFaults>>

\* One page after the other; the cache takes them together.
FetchPage(t) ==
  LET f == fetching[t]
      pages == Append(f.pages, PageOf(t, Len(f.pages) + 1)) IN
  /\ f.kind # "none"
  /\ IF Len(pages) < f.goal /\ HasNext(pages)
     THEN fetching' = [fetching EXCEPT ![t].pages = pages] /\ UNCHANGED found
     ELSE /\ fetching' = [fetching EXCEPT ![t] = NotFetching]
          /\ found' = [found EXCEPT ![t] = [known |-> TRUE, failed |-> FALSE, pages |-> pages]]
  /\ UNCHANGED <<catalog, version, typed, query, productVars, catalogFaults>>

\* The pages stay in the cache; the screen shows the error in their place.
FetchFails(t) ==
  /\ fetching[t].kind # "none" /\ CatalogFault
  /\ fetching' = [fetching EXCEPT ![t] = NotFetching]
  /\ found' = [found EXCEPT ![t].failed = TRUE]
  /\ UNCHANGED <<catalog, version, typed, query, productVars>>

CatalogStep ==
  \/ CatalogMoves \/ Search \/ RefreshList \/ LoadMore
  \/ \E t \in Searches : Type(t) \/ FetchPage(t) \/ FetchFails(t)
  \/ Type(Nothing)

-----------------------------------------------------------------------------
(***************************************************************************)
(* The product's page                                                      *)
(***************************************************************************)

\* The API gives the active varieties, in the order of their codes.
Active(o) == {v \in Varieties : o[v].active}
Sellable(o) == {v \in Active(o) : o[v].stock > 0}
Least(S) == IF S = {} THEN 0 ELSE CHOOSE v \in S : \A w \in S : v <= w

\* The variety shown: the one tapped, else the first that can be sold, else the
\* first.
DisplayOf(p, choice) ==
  IF ~p.known THEN 0
  ELSE IF choice \in Active(p.offer) THEN choice
  ELSE IF Sellable(p.offer) # {} THEN Least(Sellable(p.offer))
  ELSE Least(Active(p.offer))

\* The variety that can be bought: the one shown, unless it is sold out.
SkuOf(p, choice) ==
  IF p.known /\ DisplayOf(p, choice) \in Sellable(p.offer) THEN DisplayOf(p, choice) ELSE 0

Sku == SkuOf(product, picked)
Maximum == IF Sku = 0 THEN 1 ELSE product.offer[Sku].stock

\* Mutant: the quantity outlives the variety it was chosen for.
QuantityKept == quantity' = quantity

\* In every render: another variety starts at one (selectionKey).
QuantityFollows == quantity' = IF SkuOf(product', picked') # Sku THEN 1 ELSE quantity

OfferChanges(v) ==
  /\ offers < MaxOffers /\ offers' = offers + 1
  /\ \E active \in BOOLEAN, stock \in 0 .. MaxStock :
       /\ [active |-> active, stock |-> stock] # offer[v]
       /\ offer' = [offer EXCEPT ![v] = [active |-> active, stock |-> stock]]
  /\ UNCHANGED <<listVars, product, reading, picked, quantity, buying, chosenFor, fell, catalogFaults>>

\* Opened, the error's button, a push message or the return to the front.
AskProduct ==
  /\ product.known \/ reading.stage = "idle"
  /\ reading' = [reading EXCEPT !.stage = "sent"]
  /\ UNCHANGED <<listVars, offer, product, picked, quantity, buying, chosenFor, fell, offers, catalogFaults>>

ServeProduct ==
  /\ reading.stage = "sent"
  /\ reading' = [stage |-> "served", offer |-> offer]
  /\ UNCHANGED <<listVars, offer, product, picked, quantity, buying, chosenFor, fell, offers, catalogFaults>>

ProductShown ==
  /\ reading.stage = "served"
  /\ product' = [known |-> TRUE, failed |-> FALSE, offer |-> reading.offer]
  /\ reading' = [reading EXCEPT !.stage = "idle"]
  /\ UNCHANGED picked
  /\ QuantityFollows
  /\ fell' = (SkuOf(product', picked) = Sku /\ Sku # 0 /\ product'.offer[Sku].stock < quantity)
  /\ UNCHANGED <<listVars, offer, buying, chosenFor, offers, catalogFaults>>

\* Not answered, or withdrawn: what was read stays in the cache behind the error.
ProductFails ==
  /\ reading.stage # "idle" /\ CatalogFault
  /\ product' = [product EXCEPT !.failed = TRUE]
  /\ reading' = [reading EXCEPT !.stage = "idle"]
  /\ UNCHANGED <<listVars, offer, picked, quantity, buying, chosenFor, fell, offers>>

PageReady == product.known /\ ~product.failed

Pick(v) ==
  /\ PageReady /\ v \in Active(product.offer)
  /\ Cardinality(Active(product.offer)) > 1
  /\ picked' = v
  /\ UNCHANGED product
  /\ QuantityFollows
  /\ fell' = (fell /\ SkuOf(product, v) = Sku)
  /\ UNCHANGED <<listVars, offer, reading, buying, chosenFor, offers, catalogFaults>>

\* The stepper goes one up below the most, one down above one, and never past them.
StepQuantity ==
  /\ PageReady /\ Sku # 0 /\ buying.variety = 0
  /\ \/ quantity < Maximum /\ quantity' = quantity + 1
     \/ quantity > 1 /\ quantity' = IF quantity - 1 > Maximum THEN Maximum ELSE quantity - 1
  /\ chosenFor' = Sku /\ fell' = (fell /\ quantity' > Maximum)
  /\ UNCHANGED <<listVars, offer, product, reading, picked, buying, offers, catalogFaults>>

AddToCart ==
  /\ PageReady /\ Sku # 0 /\ buying.variety = 0
  /\ buying' = [variety |-> Sku, quantity |-> quantity]
  /\ UNCHANGED <<listVars, offer, product, reading, picked, quantity, chosenFor, fell, offers, catalogFaults>>

\* Taken or refused (MobileCart): the page says which and stays as it is.
Added ==
  /\ buying.variety # 0
  /\ buying' = [variety |-> 0, quantity |-> 0]
  /\ UNCHANGED <<listVars, offer, product, reading, picked, quantity, chosenFor, fell, offers, catalogFaults>>

ProductStep ==
  \/ AskProduct \/ ServeProduct \/ ProductShown \/ ProductFails
  \/ \E v \in Varieties : OfferChanges(v) \/ Pick(v)
  \/ StepQuantity \/ AddToCart \/ Added

-----------------------------------------------------------------------------
(***************************************************************************)
(* Properties                                                              *)
(***************************************************************************)

\* What the list shows was found for the text searched for last, whatever order
\* the answers come in, and no search shows once the field is empty.
ResultsAreTheSearch ==
  /\ typed = Nothing => query = Nothing
  /\ ListShown => \A i \in DOMAIN Rows(Shown) : Rows(Shown)[i] \in Finds[query]

\* With the catalog as it was when its pages were read, the list has the products
\* that match from the newest on, each once, and offers more exactly when there are
\* more; pages read on both sides of a change may repeat a product or leave one out
\* (catalog/queries.ts:66).
PagesTile ==
  ListShown /\ (\A n \in DOMAIN Shown : Shown[n].at = version) =>
    LET rows == Rows(Shown)  all == Matching(query) IN
    /\ rows = SubSeq(all, 1, Len(rows))
    /\ CanLoadMore <=> Len(rows) < Len(all)

\* A quantity above one was chosen for the variety it would be added of, and is in
\* stock as far as the page knows; unless a later read of the same variety found
\* less, which the stepper does not take back (product/[productId].tsx:85).
QuantityHolds ==
  PageReady /\ Sku # 0 =>
    /\ quantity > 1 => chosenFor = Sku
    /\ quantity <= Maximum \/ fell

\* Looking for a product leads to that product.
CatalogIsFollowed == ResultsAreTheSearch /\ PagesTile /\ QuantityHolds
=============================================================================
