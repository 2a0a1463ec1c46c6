------------------------------ MODULE CartCheckout ------------------------------
(***************************************************************************)
(* The cart of one customer and its conversion into an order (CartService, *)
(* OrderItemViewSet, OrderCheckoutService), with the checkout page that    *)
(* drives it in several tabs.                                              *)
(*                                                                         *)
(* create_order runs under the customer's row lock: one action for each of *)
(* its outcomes.  A cart request is two steps, because what it reads (the  *)
(* active cart, the variant, the line to delete) is read before the lock   *)
(* it writes under, or with no lock at all.  A refused request changes     *)
(* nothing.  Create requests and their answers travel over the network:    *)
(* an answer may be lost, and a request the page gave up on (the client    *)
(* has a timeout) may still be executed.                                   *)
(***************************************************************************)
EXTENDS Naturals, FiniteSets, FiniteSetsExt

CONSTANTS
    MaxOrders, MaxItems,   \* bounds on the rows the customer can create
    Variants,
    MaxQuantity, MaxStock,
    Prices,
    Tabs,                  \* checkout pages
    Keys,                  \* idempotency keys
    Requests,              \* cart requests in flight
    MaxEdits, MaxChanges   \* bounds on the cart requests and the changes of the shop

ASSUME CartAssumption ==
    /\ MaxOrders \in Nat \ {0}
    /\ MaxItems \in Nat \ {0}
    /\ MaxQuantity \in Nat \ {0}
    /\ MaxStock \in Nat
    /\ Prices \subseteq Nat
    /\ MaxEdits \in Nat
    /\ MaxChanges \in Nat
    /\ "none" \notin Keys

VARIABLES
    order,      \* the status of each row; "closed" is any later status
    frozen,     \* the rows whose snapshot_at is set
    item,       \* the line rows
    lastItem,   \* the last id given to a line
    shelf,      \* stock, price and activity of each variant
    receipt,    \* CheckoutCreationReceipt by key
    tab,        \* the state of each checkout page
    inbox,      \* create requests that may still be executed
    call,       \* what each cart request has read so far
    edits,      \* counts the cart requests
    changes     \* counts ShelfChanges

serverVars == <<order, frozen, item, lastItem, shelf, receipt>>
cartVars == <<order, frozen, item, lastItem, shelf, receipt, tab, inbox, call, edits, changes>>

-------------------------------------------------------------------------------

Orders == 1 .. MaxOrders
Items == 1 .. MaxItems

\* A line has price 0 until the checkout freezes it: the price it shows in the
\* cart is preparatory, and read by nothing here.
Gone == [order |-> 0, variant |-> "none", quantity |-> 0, price |-> 0]
Item == {Gone} \cup
        [order: Orders, variant: Variants, quantity: 1 .. MaxQuantity, price: Prices \cup {0}]

Shelf == [stock: 0 .. MaxStock, price: Prices, active: BOOLEAN]

\* What checkout_version hashes of a line; the address and the delivery method
\* it also covers are one fixed choice.
VersionLine == [line: Items, variant: Variants, quantity: 1 .. MaxQuantity,
                price: Prices, stock: 0 .. MaxStock]
Version == (SUBSET VersionLine) \ {{}}
NoVersion == {}

NoReceipt == [order |-> 0, asked |-> NoVersion]

Page == [step: {"resuming", "browse", "recap", "ready"},
         key: Keys \cup {"none"}, shown: Version \cup {NoVersion}, placed: 0 .. MaxOrders]
Opened == [step |-> "resuming", key |-> "none", shown |-> NoVersion, placed |-> 0]

Idle == [op |-> "idle"]
Call == {Idle}
   \cup [op: {"add"}, order: 0 .. MaxOrders, variant: Variants,
         quantity: 1 .. MaxQuantity, stock: 0 .. MaxStock]
   \cup [op: {"clear"}, order: Orders]
   \cup [op: {"destroy"}, item: Items]

CartInit ==
    /\ order = [o \in Orders |-> "none"]
    /\ frozen = {}
    /\ item = [i \in Items |-> Gone]
    /\ lastItem = 0
    /\ shelf \in [Variants -> {s \in Shelf : s.active /\ s.stock = MaxStock /\ s.price = Min(Prices)}]
    /\ receipt = [k \in Keys |-> NoReceipt]
    /\ tab = [t \in Tabs |-> Opened]
    /\ inbox = {}
    /\ call = [c \in Requests |-> Idle]
    /\ edits = 0
    /\ changes = 0

Lines(o) == {i \in Items : item[i].order = o}
ActiveCarts == {o \in Orders : order[o] = "cart"}
Pending == {o \in Orders : order[o] = "pending_payment"}

\* The check of snapshot_at under the lock of the cart.
UnfrozenUnchecked(o) == TRUE
Unfrozen(o) == o \notin frozen

-------------------------------------------------------------------------------
(* Cart requests.                                                          *)

_validate_variant(v, q) == shelf[v].active /\ q <= shelf[v].stock

\* add_variant reads the variant, then looks up the cart; 0 is no cart yet.
AddLookup(c, v, q) ==
    /\ edits < MaxEdits
    /\ edits' = edits + 1
    /\ call[c] = Idle
    /\ _validate_variant(v, q)
    /\ \E o \in IF ActiveCarts = {} THEN {0} ELSE ActiveCarts :
          call' = [call EXCEPT ![c] = [op |-> "add", order |-> o, variant |-> v,
                                       quantity |-> q, stock |-> shelf[v].stock]]
    /\ UNCHANGED <<serverVars, tab, inbox, changes>>

\* The insertion of a cart meets the one another request has just committed.
AddFindsCart(c) ==
    /\ call[c].op = "add"
    /\ call[c].order = 0
    /\ \E o \in ActiveCarts : call' = [call EXCEPT ![c].order = o]
    /\ UNCHANGED <<serverVars, tab, inbox, edits, changes>>

\* The row the request writes: the one it found, or a new one.
Target(c) ==
    IF call[c].order # 0 THEN {call[c].order}
    ELSE IF ActiveCarts # {} THEN {}
    ELSE {o \in Orders : order[o] = "none" /\ \A p \in 1 .. (o - 1) : order[p] # "none"}

AddLine(c) ==
    /\ call[c].op = "add"
    /\ \E o \in Target(c) :
          LET v == call[c].variant
              old == {i \in Lines(o) : item[i].variant = v}
              final == call[c].quantity + MapThenSumSet(LAMBDA i : item[i].quantity, old)
          IN  /\ Unfrozen(o)
              /\ final <= MaxQuantity
              /\ final <= call[c].stock
              /\ \/ /\ old = {}
                    /\ lastItem < MaxItems
                    /\ lastItem' = lastItem + 1
                    /\ item' = [item EXCEPT ![lastItem'] =
                          [order |-> o, variant |-> v, quantity |-> final, price |-> 0]]
                 \/ /\ old # {}
                    /\ item' = [i \in Items |->
                          IF i \in old THEN [item[i] EXCEPT !.quantity = final] ELSE item[i]]
                    /\ UNCHANGED lastItem
              /\ order' = [order EXCEPT ![o] = IF @ = "none" THEN "cart" ELSE @]
    /\ call' = [call EXCEPT ![c] = Idle]
    /\ UNCHANGED <<frozen, shelf, receipt, tab, inbox, edits, changes>>

\* update_quantity locks the line and reads its order and variant under the lock.
UpdateQuantity(i, q) ==
    /\ edits < MaxEdits
    /\ edits' = edits + 1
    /\ item[i] # Gone
    /\ item[i].order \notin frozen
    /\ _validate_variant(item[i].variant, q)
    /\ item' = [item EXCEPT ![i].quantity = q]
    /\ UNCHANGED <<order, frozen, lastItem, shelf, receipt, tab, inbox, call, changes>>

ClearLookup(c) ==
    /\ edits < MaxEdits
    /\ edits' = edits + 1
    /\ call[c] = Idle
    /\ \E o \in ActiveCarts : call' = [call EXCEPT ![c] = [op |-> "clear", order |-> o]]
    /\ UNCHANGED <<serverVars, tab, inbox, changes>>

ClearCart(c) ==
    /\ call[c].op = "clear"
    /\ Unfrozen(call[c].order)
    /\ item' = [i \in Items |-> IF i \in Lines(call[c].order) THEN Gone ELSE item[i]]
    /\ call' = [call EXCEPT ![c] = Idle]
    /\ UNCHANGED <<order, frozen, lastItem, shelf, receipt, tab, inbox, edits, changes>>

DestroyCheck(c, i) ==
    /\ edits < MaxEdits
    /\ edits' = edits + 1
    /\ call[c] = Idle
    /\ item[i] # Gone
    /\ item[i].order \notin frozen
    /\ call' = [call EXCEPT ![c] = [op |-> "destroy", item |-> i]]
    /\ UNCHANGED <<serverVars, tab, inbox, changes>>

\* super().destroy fetches the line again and deletes it: no lock, no check.
Destroy(c) ==
    /\ call[c].op = "destroy"
    /\ item' = [item EXCEPT ![call[c].item] = Gone]
    /\ call' = [call EXCEPT ![c] = Idle]
    /\ UNCHANGED <<order, frozen, lastItem, shelf, receipt, tab, inbox, edits, changes>>

\* A cart request answered with an error, rolled back.
Refused(c) ==
    /\ call[c] # Idle
    /\ call' = [call EXCEPT ![c] = Idle]
    /\ UNCHANGED <<serverVars, tab, inbox, edits, changes>>

-------------------------------------------------------------------------------
(* The rest of the shop, and of the order's life.                          *)

ShelfChanges(v) ==
    /\ changes < MaxChanges
    /\ changes' = changes + 1
    /\ \E s \in Shelf \ {shelf[v]} : shelf' = [shelf EXCEPT ![v] = s]
    /\ UNCHANGED <<order, frozen, item, lastItem, receipt, tab, inbox, call, edits>>

\* Cancelled, paid, expired: the row is no longer an active cart nor pending.
Close(o) ==
    /\ order[o] \in {"cart", "pending_payment"}
    /\ order' = [order EXCEPT ![o] = "closed"]
    /\ UNCHANGED <<frozen, item, lastItem, shelf, receipt, tab, inbox, call, edits, changes>>

-------------------------------------------------------------------------------
(* The checkout.                                                           *)

\* The errors of _build_preview: no line, or a line that cannot be sold.
Sellable(o) ==
    /\ Lines(o) # {}
    /\ \A i \in Lines(o) : LET s == shelf[item[i].variant]
                           IN s.active /\ item[i].quantity <= s.stock

VersionOf(o) ==
    {[line |-> i, variant |-> item[i].variant, quantity |-> item[i].quantity,
      price |-> shelf[item[i].variant].price,
      stock |-> shelf[item[i].variant].stock] : i \in Lines(o)}

\* The page opens: it asks for an order waiting for its payment (also after
\* order_already_created) and shows the latest one.
Open(t) ==
    /\ tab' = [tab EXCEPT ![t] = Opened]
    /\ UNCHANGED <<serverVars, inbox, call, edits, changes>>

Resume(t) ==
    /\ tab[t].step = "resuming"
    /\ tab' = [tab EXCEPT ![t] = IF Pending = {}
                                 THEN [@ EXCEPT !.step = "browse"]
                                 ELSE [@ EXCEPT !.step = "ready", !.placed = Max(Pending)]]
    /\ UNCHANGED <<serverVars, inbox, call, edits, changes>>

FreshKeys == {k \in Keys : /\ receipt[k] = NoReceipt
                           /\ \A t \in Tabs : tab[t].key # k
                           /\ \A m \in inbox : m.key # k}

\* The recapitulation; the page keeps its key until it is told it is stale.
Preview(t) ==
    /\ tab[t].step = "browse"
    /\ \E o \in ActiveCarts, k \in Keys :
          /\ Sellable(o)
          /\ IF tab[t].key = "none" THEN k \in FreshKeys ELSE k = tab[t].key
          /\ tab' = [tab EXCEPT ![t] = [@ EXCEPT !.step = "recap", !.key = k,
                                                 !.shown = VersionOf(o)]]
    /\ UNCHANGED <<serverVars, inbox, call, edits, changes>>

\* Back to the choice of the delivery method.
Back(t) ==
    /\ tab[t].step = "recap"
    /\ tab' = [tab EXCEPT ![t] = [@ EXCEPT !.step = "browse", !.shown = NoVersion]]
    /\ UNCHANGED <<serverVars, inbox, call, edits, changes>>

\* The request may be sent again as long as no answer has come: the page gives
\* up after a timeout, and the copies in flight are one element of inbox.
Submit(t) ==
    /\ tab[t].step = "recap"
    /\ inbox' = inbox \cup {[key |-> tab[t].key, asked |-> tab[t].shown]}
    /\ UNCHANGED <<serverVars, tab, call, edits, changes>>

\* The page that waits for the answer to m, and what it makes of it.
Asking(m) == [step |-> "recap", key |-> m.key, shown |-> m.asked, placed |-> 0]
AfterOrder(m, o) == [Asking(m) EXCEPT !.step = "ready", !.placed = o]
AfterError(m) == Asking(m)
AfterStale(m) == [Opened EXCEPT !.step = "browse"]
AfterAlreadyCreated(m) == [Asking(m) EXCEPT !.step = "resuming"]

\* The answer to m reaches a page that still waits for it, or is lost.
Answer(m, page) ==
    /\ \/ UNCHANGED tab
       \/ \E t \in Tabs : tab[t] = Asking(m) /\ tab' = [tab EXCEPT ![t] = page]
    /\ inbox' = inbox \ {m}
    /\ UNCHANGED <<call, edits, changes>>

\* Defect: a key counts as new once its order is no longer pending.
NewKeyOnceClosed(k) == receipt[k].order \notin Pending
\* The receipt of the key, and its fingerprint.
NewKey(k) == receipt[k] = NoReceipt
SameRequest(m) == receipt[m.key].asked = m.asked

Replay(m) ==
    /\ ~NewKey(m.key)
    /\ SameRequest(m)
    /\ Answer(m, AfterOrder(m, receipt[m.key].order))
    /\ UNCHANGED serverVars

\* idempotency_conflict, empty_cart, invalid_cart.
Refuse(m) ==
    /\ \/ ~NewKey(m.key) /\ ~SameRequest(m)
       \/ NewKey(m.key) /\ ActiveCarts = {} /\ Pending = {}
       \/ NewKey(m.key) /\ \E o \in ActiveCarts : ~Sellable(o)
    /\ Answer(m, AfterError(m))
    /\ UNCHANGED serverVars

AlreadyCreated(m) ==
    /\ NewKey(m.key)
    /\ ActiveCarts = {}
    /\ Pending # {}
    /\ Answer(m, AfterAlreadyCreated(m))
    /\ UNCHANGED serverVars

Stale(m) ==
    /\ NewKey(m.key)
    /\ \E o \in ActiveCarts : Sellable(o) /\ VersionOf(o) # m.asked
    /\ Answer(m, AfterStale(m))
    /\ UNCHANGED serverVars

\* The units of the order leave the shelf (transition_order reserves them).
Place(m) ==
    /\ NewKey(m.key)
    /\ \E o \in ActiveCarts :
          /\ Sellable(o)
          /\ VersionOf(o) = m.asked
          /\ item' = [i \in Items |->
                IF i \in Lines(o) THEN [item[i] EXCEPT !.price = shelf[item[i].variant].price]
                ELSE item[i]]
          /\ shelf' = [v \in Variants |-> [shelf[v] EXCEPT !.stock =
                @ - MapThenSumSet(LAMBDA i : item[i].quantity,
                                  {i \in Lines(o) : item[i].variant = v})]]
          /\ order' = [order EXCEPT ![o] = "pending_payment"]
          /\ frozen' = frozen \cup {o}
          /\ receipt' = [receipt EXCEPT ![m.key] = [order |-> o, asked |-> m.asked]]
          /\ Answer(m, AfterOrder(m, o))
    /\ UNCHANGED lastItem

CreateOrder(m) == Replay(m) \/ Refuse(m) \/ AlreadyCreated(m) \/ Stale(m) \/ Place(m)

CartRequest(c) ==
    \/ \E v \in Variants, q \in 1 .. MaxQuantity : AddLookup(c, v, q)
    \/ AddFindsCart(c) \/ AddLine(c)
    \/ ClearLookup(c) \/ ClearCart(c)
    \/ \E i \in Items : DestroyCheck(c, i)
    \/ Destroy(c) \/ Refused(c)

CheckoutPage(t) ==
    \/ Open(t) \/ Resume(t) \/ Preview(t)
    \/ Back(t) \/ Submit(t)

CartNext ==
    \/ \E c \in Requests : CartRequest(c)
    \/ \E i \in Items, q \in 1 .. MaxQuantity : UpdateQuantity(i, q)
    \/ \E v \in Variants : ShelfChanges(v)
    \/ \E o \in Orders : Close(o)
    \/ \E t \in Tabs : CheckoutPage(t)
    \/ \E m \in inbox : CreateOrder(m)

CartSpec == CartInit /\ [][CartNext]_cartVars

-------------------------------------------------------------------------------
(* Properties.                                                             *)

\* Rows, pages and requests keep their types; ids are never reused.
CartTypeOK ==
    /\ order \in [Orders -> {"none", "cart", "pending_payment", "closed"}]
    /\ frozen \subseteq Orders
    /\ item \in [Items -> Item]
    /\ lastItem \in 0 .. MaxItems
    /\ \A i \in Items : item[i] # Gone => i <= lastItem
    /\ shelf \in [Variants -> Shelf]
    /\ \A k \in Keys : \/ receipt[k] = NoReceipt
                       \/ receipt[k].order \in Orders /\ receipt[k].asked \in Version
    /\ \A t \in Tabs : tab[t] \in Page
    /\ \A m \in inbox : m.key \in Keys /\ m.asked \in Version
    /\ \A c \in Requests : call[c] \in Call

\* An order is what the recapitulation showed when it was asked for: no line
\* is added or changed, at another quantity or price, by a request that was
\* under way, by a late copy of an older request or by a change of the shop.
OrderIsAsShown ==
    \A k \in Keys : receipt[k] # NoReceipt =>
       \A i \in Lines(receipt[k].order) : \E l \in receipt[k].asked :
          /\ l.line = i
          /\ l.variant = item[i].variant
          /\ l.quantity = item[i].quantity
          /\ l.price = item[i].price

\* A cart becomes an order once, for one key: neither a repeated request nor
\* two tabs place it twice, and a receipt is never taken over by another order.
PlacedOnce ==
    \A o \in Orders : Cardinality({k \in Keys : receipt[k].order = o})
                         = IF o \in frozen THEN 1 ELSE 0

\* The order a page ends on is the one its own key placed, and was placed as
\* that page showed it, also when the answer was lost and the request repeated.
PageShowsItsOrder ==
    \A t \in Tabs : /\ tab[t].step = "ready"
                    /\ tab[t].key # "none"
                    /\ receipt[tab[t].key] # NoReceipt
                    => receipt[tab[t].key] = [order |-> tab[t].placed, asked |-> tab[t].shown]

\* A frozen order keeps its lines (PHASE4_ORDER_SNAPSHOTS.md:33-36).  It is
\* false: Destroy deletes a line that was checked before the freeze.
FrozenLinesKept ==
    \A k \in Keys : \A l \in receipt[k].asked : item[l.line] # Gone
===============================================================================
