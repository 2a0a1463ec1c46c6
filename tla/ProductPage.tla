---------------------------- MODULE ProductPage ----------------------------
(* The page of a product (pages/Product/Product.jsx), reached from the shop   *)
(* and left for it: what it loads, what the customer may select and what it   *)
(* asks the cart to add (cart/CartContext.jsx: addItem).                      *)
EXTENDS Storefront

CONSTANTS VariantsOf,  \* active variants of each product: [color, size], None for neither
          MAX_STOCK,   \* bound: units in stock of a variant
          MAX_ADDS     \* bound: additions under way

ASSUME ProductPageAssumption ==
  /\ DOMAIN VariantsOf = Products
  /\ \A p \in Products : IsFiniteSet(VariantsOf[p])
  /\ \A p \in Products : \A v \in VariantsOf[p] : v = [color |-> v.color, size |-> v.size]
  /\ MAX_STOCK \in Nat \ {0} /\ MAX_ADDS \in Nat

VARIABLES view,  \* the state of the product's page
          adds   \* the additions the cart was asked for and has not ended

browse == <<view, adds>>
allVars == <<vars, browse>>

\* Elsewhere than on a product's page. kept is history: the quantity is what the customer
\* left of one chosen for another product.
Unmounted == [wanted |-> None, product |-> None, offer |-> <<>>, color |-> None, size |-> None,
              quantity |-> 1, kept |-> FALSE,
              loading |-> FALSE, error |-> FALSE, adding |-> FALSE]

(***************************************************************************)
(* What the page offers                                                    *)
(***************************************************************************)
\* The stock the page may be sent of a product's active variants.
Offers(p) == [VariantsOf[p] -> 0..MAX_STOCK]

InStock(offer) == {v \in DOMAIN offer : offer[v] > 0}

Selected == {v \in DOMAIN view.offer : v.color = view.color /\ v.size = view.size}

maxQuantity == IF Selected \cap InStock(view.offer) = {} THEN 1
               ELSE view.offer[CHOOSE v \in Selected : TRUE]

\* The buttons: one for each colour and each size the active variants have.
ColorEnabled(c) == c # None /\ \E v \in InStock(view.offer) :
                                 v.color = c /\ view.size \in {None, v.size}

SizeEnabled(s) == s # None /\ \E v \in InStock(view.offer) :
                                v.size = s /\ view.color \in {None, v.color}

\* initialVariantSelection: a choice is made for the customer when there is only one.
InitialSelection(offer) ==
  IF Cardinality(InStock(offer)) = 1 THEN CHOOSE v \in InStock(offer) : TRUE
  ELSE [color |-> None, size |-> None]

(***************************************************************************)
(* The page and its two requests: the product, then the products like it   *)
(***************************************************************************)
\* The route's effect. The quantity and a running addition are kept from the last product.
Wanting(p) == [view EXCEPT !.wanted = p, !.product = None, !.offer = <<>>, !.kept = TRUE,
                           !.loading = TRUE, !.error = FALSE]

\* A link to a product; one followed before the last product is there counts as a move.
\* The shop's page is unmounted, its requests cancelled.
OpenProduct(p) ==
  /\ IF view.loading THEN Move ELSE UNCHANGED moves
  /\ view.wanted # p
  /\ view' = Wanting(p)
  /\ query' = [search |-> None, filter |-> None, page |-> 1] /\ answers' = query'
  /\ input' = TextOf(query') /\ sync' = FALSE /\ typed' = FALSE
  /\ shown' = [Waiting EXCEPT !.loading = FALSE] /\ requests' = {} /\ facets' = "shown"
  /\ UNCHANGED adds

BackToShop(q) ==
  /\ view.wanted # None
  /\ Visit(q)
  /\ view' = Unmounted
  /\ adds' = {[a EXCEPT !.here = FALSE] : a \in adds}

\* The list of the same category: shown or not, the page stops waiting.
RelatedArrives ==
  /\ view.loading /\ view.product # None
  /\ \E failed \in BOOLEAN : view' = [view EXCEPT !.loading = FALSE, !.error = failed]
  /\ UNCHANGED adds

\* ProductViewSet.retrieve: an archived product, or one of an archived category, is not found.
Retrievable(p) == p \in Visible

\* The choice is made anew; the quantity is not.
DetailArrives ==
  /\ view.loading /\ view.product = None
  /\ \/ /\ Retrievable(view.wanted)
        /\ \E offer \in Offers(view.wanted) :
             view' = [view EXCEPT !.product = view.wanted, !.offer = offer,
                                  !.color = InitialSelection(offer).color,
                                  !.size = InitialSelection(offer).size]
     \/ view' = [view EXCEPT !.loading = FALSE, !.error = TRUE]
  /\ UNCHANGED adds

(***************************************************************************)
(* The customer's choices                                                  *)
(***************************************************************************)
PageShown == view.product # None /\ ~view.loading

\* selectColor: the size selected if the colour has it in stock, else the first it has.
SelectColor(c) ==
  /\ PageShown /\ ColorEnabled(c)
  /\ \E v \in InStock(view.offer) :
       /\ v.color = c
       /\ v.size = view.size \/ [color |-> c, size |-> view.size] \notin InStock(view.offer)
       /\ view' = [view EXCEPT !.color = c, !.size = v.size, !.quantity = 1, !.kept = FALSE]
  /\ UNCHANGED adds

\* Defect: the quantity chosen for another size stays.
SelectSizeKeepingQuantity(s) ==
  /\ PageShown /\ SizeEnabled(s)
  /\ view' = [view EXCEPT !.size = s]
  /\ UNCHANGED adds

SelectSize(s) ==
  /\ PageShown /\ SizeEnabled(s)
  /\ view' = [view EXCEPT !.size = s, !.quantity = 1, !.kept = FALSE]
  /\ UNCHANGED adds

\* The two buttons and the field, which is cut to the stock.
ChangeQuantity(n) ==
  /\ PageShown
  /\ \/ n = view.quantity - 1 /\ n >= 1
     \/ n = view.quantity + 1 /\ Selected # {} /\ n <= maxQuantity
     \/ n \in 1..maxQuantity
  /\ view' = [view EXCEPT !.quantity = n, !.kept = @ /\ n > maxQuantity]
  /\ UNCHANGED adds

\* handleAdd, and addItem up to its request, for the units the cart on the screen holds of
\* the variant, of which there may be any number (ShownCart says what that cart is). Those and
\* the quantity chosen must fit the stock the page was sent; a variant whose addition is not
\* ended is not added again.
AddToCart ==
  /\ PageShown /\ ~view.adding
  /\ \E v \in Selected \cap InStock(view.offer), held \in 0..MAX_STOCK :
       IF held + view.quantity <= view.offer[v]
       THEN /\ \A a \in adds : a.product # view.product \/ a.variant # v
            /\ Cardinality(adds) < MAX_ADDS
            /\ adds' = adds \cup {[product |-> view.product, variant |-> v, here |-> TRUE]}
            /\ view' = [view EXCEPT !.adding = TRUE]
       ELSE UNCHANGED adds /\ view' = [view EXCEPT !.error = TRUE]

\* The cart answers the page that asked, whichever product it shows by then.
AddEnds(a) ==
  /\ adds' = adds \ {a}
  /\ \E failed \in BOOLEAN :
       view' = IF a.here THEN [view EXCEPT !.adding = FALSE, !.error = @ \/ failed] ELSE view

ProductCustomer ==
  \/ \E v \in UNION {VariantsOf[p] : p \in Products} :
       SelectColor(v.color) \/ SelectSize(v.size)
  \/ \E n \in 1..MAX_STOCK : ChangeQuantity(n)
  \/ AddToCart

OnProductPage ==
  \/ ProductCustomer
  \/ DetailArrives \/ RelatedArrives
  \/ \E a \in adds : AddEnds(a)

BrowseInit == Init /\ view = Unmounted /\ adds = {}

BrowseNext ==
  \/ /\ view.wanted = None
     /\ Customer \/ Browser
     /\ UNCHANGED <<catalogue, browse>>
  \/ /\ \/ \E p \in Products : OpenProduct(p)
        \/ \E q \in Query : BackToShop(q)
     /\ UNCHANGED catalogue
  \/ OnProductPage /\ UNCHANGED vars
  \/ Staff /\ UNCHANGED <<page, browse>>

\* As the shop's requests, those of the product's page end.
BrowseFairness ==
  /\ WF_allVars(view.wanted = None /\ Progress /\ UNCHANGED <<catalogue, browse>>)
  /\ WF_allVars((DetailArrives \/ RelatedArrives) /\ UNCHANGED vars)

BrowseSpec == BrowseInit /\ [][BrowseNext]_allVars /\ BrowseFairness

(***************************************************************************)
(* Properties                                                              *)
(***************************************************************************)
\* Type correctness of the product's page.
ViewTypeOK ==
  /\ view.wanted \in Products \cup {None} /\ view.product \in {None, view.wanted}
  /\ view.quantity \in 1..MAX_STOCK
  /\ {view.kept, view.loading, view.error, view.adding} \subseteq BOOLEAN

\* What the page lets a customer choose can be sold, in whatever order the options and the
\* quantity are chosen and products are opened: once a colour is chosen, the colour and size
\* chosen are those of a variant in stock, and the quantity is one its stock meets. Only a
\* quantity that was there when another product was opened may be more than that.
ChoiceIsSellable ==
  PageShown =>
    /\ view.color # None => Selected # {} /\ Selected \subseteq InStock(view.offer)
    /\ view.quantity <= maxQuantity \/ view.kept

\* Neither page is left loading.
PagesStopLoading ==
  /\ LoadingEnds
  /\ view.loading ~> ~view.loading

=============================================================================
