----------------------------- MODULE Orders_proofs -----------------------------
(***************************************************************************)
(* Proofs about what leads to an order and what tells of it: about         *)
(* CartCheckout, for any number of tabs, keys, cart requests, variants,    *)
(* orders and lines, and about Notifications, for any number of requests,  *)
(* runs of the command, notices and crashes.                               *)
(*                                                                         *)
(* CartInv says that a row is frozen exactly when a key placed it, that no *)
(* active cart is frozen, and that the lines a frozen row still has are    *)
(* lines its receipt asked for.  Only Place freezes a row; every other     *)
(* step may take a line of a frozen row away (Destroy) but never changes   *)
(* or adds one, because it looks at snapshot_at under its lock.            *)
(*                                                                         *)
(* MailInv says who may send: a row has at most one sender and one mail    *)
(* unless its excuse says why (Single), and with --failed-only and one     *)
(* scheduler the rows a request has to send are pending and nobody else's  *)
(* (Alone).  Both rest on the locks of the orders: what a transaction      *)
(* announces is committed by no other.                                     *)
(***************************************************************************)
EXTENDS CartCheckout, Notifications, TLAPS, FiniteSetTheorems

-------------------------------------------------------------------------------
(* The invariant *)

LineColumns == {"order", "variant", "quantity", "price"}
PageFields == {"step", "key", "shown", "placed"}

\* Rows and pages have their columns, and what is asked for has a key.
Shape ==
    /\ DOMAIN order = Orders /\ DOMAIN item = Items /\ DOMAIN receipt = Keys
    /\ \A i \in Items : DOMAIN item[i] = LineColumns
    /\ DOMAIN tab = Tabs
    /\ \A t \in Tabs : /\ DOMAIN tab[t] = PageFields
                       /\ tab[t].step = "recap" => tab[t].key \in Keys
    /\ \A m \in inbox : m.key \in Keys

\* Receipts and frozen rows are in bijection, and carts are not frozen.
Placed ==
    /\ frozen \subseteq Orders
    /\ \A o \in Orders : order[o] \in {"none", "cart"} => o \notin frozen
    /\ \A k \in Keys : receipt[k] # NoReceipt => receipt[k].order \in frozen
    /\ \A o \in frozen : \E k \in Keys : receipt[k].order = o
    /\ \A k, l \in Keys : receipt[k].order = receipt[l].order /\ receipt[k] # NoReceipt
                             => k = l

CartInv == Shape /\ Placed /\ OrderIsAsShown

\* 0 is no order.
LEMMA NoOrderZero == Placed => 0 \notin frozen
  BY CartAssumption DEF Placed, Orders

-------------------------------------------------------------------------------
(* Steps that freeze nothing *)

\* A line of a frozen row is the one it was, or is gone; no row becomes a cart
\* again and no receipt changes.
Quiet ==
    /\ frozen' = frozen /\ receipt' = receipt
    /\ \A i \in Items : item'[i].order \in frozen => item'[i] = item[i]
    /\ \A o \in frozen : order'[o] \notin {"none", "cart"}

\* Quiet steps keep what was placed and what it looks like.
LEMMA QuietKeeps ==
    ASSUME Placed, OrderIsAsShown, Quiet
    PROVE  Placed' /\ OrderIsAsShown'
<1>1. Placed'
  BY DEF Placed, Quiet
<1>2. ASSUME NEW k \in Keys, receipt'[k] # NoReceipt, NEW i \in Items,
             item'[i].order = receipt'[k].order
      PROVE  \E l \in receipt'[k].asked :
                /\ l.line = i
                /\ l.variant = item'[i].variant
                /\ l.quantity = item'[i].quantity
                /\ l.price = item'[i].price
  <2>1. receipt[k] # NoReceipt /\ receipt'[k] = receipt[k] /\ receipt[k].order \in frozen
    BY <1>2 DEF Quiet, Placed
  <2>2. item'[i] = item[i]
    BY <1>2, <2>1 DEF Quiet
  <2>3. i \in Lines(receipt[k].order)
    BY <1>2, <2>1, <2>2 DEF Lines
  <2>. QED  BY <2>1, <2>2, <2>3 DEF OrderIsAsShown
<1>3. OrderIsAsShown'
  BY <1>2 DEF OrderIsAsShown, Lines
<1>. QED  BY <1>1, <1>3

\* A step that leaves the rows alone is quiet.
LEMMA RowsAlone ==
    ASSUME Placed, UNCHANGED <<order, frozen, item, receipt>>
    PROVE  Quiet
  BY DEF Placed, Quiet

\* add_variant writes a row that is not frozen.
LEMMA AddLineQuiet ==
    ASSUME Shape, Placed, NEW c \in Requests, AddLine(c)
    PROVE  Quiet /\ DOMAIN order' = Orders /\ DOMAIN item' = Items
           /\ \A i \in Items : DOMAIN item'[i] = LineColumns
<1>0. PICK o \in Target(c) :
         LET w == call[c].variant
             same == {i \in Lines(o) : item[i].variant = w}
             final == call[c].quantity + MapThenSumSet(LAMBDA i : item[i].quantity, same)
         IN  /\ Unfrozen(o)
             /\ \/ item' = [item EXCEPT ![lastItem'] =
                         [order |-> o, variant |-> w, quantity |-> final, price |-> 0]]
                \/ item' = [i \in Items |->
                         IF i \in same THEN [item[i] EXCEPT !.quantity = final] ELSE item[i]]
             /\ order' = [order EXCEPT ![o] = IF @ = "none" THEN "cart" ELSE @]
  BY DEF AddLine
<1> DEFINE n == lastItem'
           v == call[c].variant
           old == {i \in Lines(o) : item[i].variant = v}
           q == call[c].quantity + MapThenSumSet(LAMBDA i : item[i].quantity, old)
<1>1. /\ o \notin frozen /\ old \subseteq Items
      /\ \A i \in old : item[i].order = o
      /\ \/ item' = [item EXCEPT ![n] = [order |-> o, variant |-> v, quantity |-> q,
                                         price |-> 0]]
         \/ item' = [i \in Items |->
                       IF i \in old THEN [item[i] EXCEPT !.quantity = q] ELSE item[i]]
      /\ order' = [order EXCEPT ![o] = IF @ = "none" THEN "cart" ELSE @]
  BY <1>0 DEF Unfrozen, Lines
<1>. HIDE DEF n, v, old, q
<1>2. frozen' = frozen /\ receipt' = receipt
  BY DEF AddLine
<1>3. \A i \in Items : /\ item'[i].order \in frozen => item'[i] = item[i]
                       /\ DOMAIN item'[i] = LineColumns
  <2>1. CASE item' = [item EXCEPT ![n] = [order |-> o, variant |-> v, quantity |-> q,
                                          price |-> 0]]
    <3>1. ASSUME NEW i \in Items, i = n
          PROVE  item'[i].order = o /\ DOMAIN item'[i] = LineColumns
      <4>1. item'[i] = [order |-> o, variant |-> v, quantity |-> q, price |-> 0]
        BY <2>1, <3>1 DEF Shape
      <4>. QED  BY <4>1 DEF LineColumns
    <3>2. ASSUME NEW i \in Items, i # n
          PROVE  item'[i] = item[i]
      BY <2>1, <3>2 DEF Shape
    <3>. QED  BY <1>1, <3>1, <3>2 DEF Shape
  <2>2. CASE item' = [i \in Items |->
                          IF i \in old THEN [item[i] EXCEPT !.quantity = q] ELSE item[i]]
    <3>1. ASSUME NEW i \in old
          PROVE  item'[i].order = o /\ DOMAIN item'[i] = LineColumns
      <4>1. item'[i] = [item[i] EXCEPT !.quantity = q] /\ DOMAIN item[i] = LineColumns
        BY <1>1, <2>2, <3>1 DEF Shape
      <4>. QED  BY <1>1, <3>1, <4>1 DEF LineColumns
    <3>2. ASSUME NEW i \in Items \ old
          PROVE  item'[i] = item[i]
      BY <2>2, <3>2
    <3>. QED  BY <1>1, <3>1, <3>2 DEF Shape
  <2>. QED  BY <1>1, <2>1, <2>2
<1>4. DOMAIN order' = Orders /\ DOMAIN item' = Items
  BY <1>1 DEF Shape
<1>5. \A x \in frozen : order'[x] \notin {"none", "cart"}
  BY <1>1 DEF Shape, Placed
<1>. QED  BY <1>2, <1>3, <1>4, <1>5 DEF Quiet

\* The other cart requests write no frozen row, or delete a line.
LEMMA UpdateQuiet ==
    ASSUME Shape, Placed, NEW i \in Items, NEW q, UpdateQuantity(i, q)
    PROVE  Quiet /\ DOMAIN item' = Items /\ \A x \in Items : DOMAIN item'[x] = LineColumns
<1>1. item' = [item EXCEPT ![i].quantity = q] /\ item[i].order \notin frozen
      /\ UNCHANGED <<order, frozen, receipt>>
  BY DEF UpdateQuantity
<1>2. item'[i] = [item[i] EXCEPT !.quantity = q] /\ DOMAIN item[i] = LineColumns
  BY <1>1 DEF Shape
<1>3. item'[i].order = item[i].order /\ DOMAIN item'[i] = LineColumns
  BY <1>2 DEF LineColumns
<1>4. \A x \in Items \ {i} : item'[x] = item[x]
  BY <1>1 DEF Shape
<1>. QED  BY <1>1, <1>3, <1>4 DEF Shape, Placed, Quiet

\* A line taken away belongs to no row.
LEMMA GoneLine == Gone.order = 0 /\ DOMAIN Gone = LineColumns
  BY DEF Gone, LineColumns

LEMMA ClearQuiet ==
    ASSUME Shape, Placed, NEW c \in Requests, ClearCart(c)
    PROVE  Quiet /\ DOMAIN item' = Items /\ \A x \in Items : DOMAIN item'[x] = LineColumns
<1>1. /\ item' = [i \in Items |-> IF i \in Lines(call[c].order) THEN Gone ELSE item[i]]
      /\ UNCHANGED <<order, frozen, receipt>>
  BY DEF ClearCart
<1>2. \A i \in Items : item'[i] = Gone \/ item'[i] = item[i]
  BY <1>1
<1>. QED  BY <1>1, <1>2, GoneLine, NoOrderZero DEF Shape, Placed, Quiet

LEMMA DestroyQuiet ==
    ASSUME Shape, Placed, NEW c \in Requests, Destroy(c)
    PROVE  Quiet /\ DOMAIN item' = Items /\ \A x \in Items : DOMAIN item'[x] = LineColumns
<1>1. /\ item' = [item EXCEPT ![call[c].item] = Gone]
      /\ UNCHANGED <<order, frozen, receipt>>
  BY DEF Destroy
<1>2. \A i \in Items : item'[i] = Gone \/ item'[i] = item[i]
  BY <1>1 DEF Shape
<1>. QED  BY <1>1, <1>2, GoneLine, NoOrderZero DEF Shape, Placed, Quiet

\* The life of an order after the checkout does not touch its lines.
LEMMA CloseQuiet ==
    ASSUME Shape, Placed, NEW o \in Orders, Close(o)
    PROVE  Quiet /\ DOMAIN order' = Orders
<1>1. order' = [order EXCEPT ![o] = "closed"] /\ UNCHANGED <<frozen, item, receipt>>
  BY DEF Close
<1>2. \A x \in Orders : order'[x] = "closed" \/ order'[x] = order[x]
  BY <1>1 DEF Shape
<1>. QED  BY <1>1, <1>2 DEF Shape, Placed, Quiet

-------------------------------------------------------------------------------
(* The pages *)

\* What Shape says of the pages and the requests they sent.
Pages ==
    /\ DOMAIN tab = Tabs
    /\ \A t \in Tabs : /\ DOMAIN tab[t] = PageFields
                       /\ tab[t].step = "recap" => tab[t].key \in Keys
    /\ \A m \in inbox : m.key \in Keys

\* A page that is written keeps the fields of a page and a key to show.
LEMMA PageWritten ==
    ASSUME Pages, NEW t \in Tabs, NEW page, tab' = [tab EXCEPT ![t] = page],
           DOMAIN page = PageFields, page.step = "recap" => page.key \in Keys,
           inbox' \subseteq inbox
    PROVE  Pages'
  BY DEF Pages

\* A page after one of its own steps.
LEMMA PageSteps ==
    ASSUME Pages, NEW t \in Tabs, CheckoutPage(t)
    PROVE  Pages'
<1>1. CASE Open(t)
  <2>1. DOMAIN Opened = PageFields /\ Opened.step = "resuming"
    BY DEF Opened, PageFields
  <2>. QED  BY <1>1, <2>1, PageWritten DEF Open
<1>2. CASE Resume(t)
  <2>1. PICK page : /\ tab' = [tab EXCEPT ![t] = page]
                    /\ \/ page = [tab[t] EXCEPT !.step = "browse"]
                       \/ page = [tab[t] EXCEPT !.step = "ready", !.placed = Max(Pending)]
    BY <1>2 DEF Resume, Pages
  <2>2. DOMAIN page = PageFields /\ page.step # "recap"
    BY <2>1 DEF Pages, PageFields
  <2>. QED  BY <1>2, <2>1, <2>2, PageWritten DEF Resume
<1>3. CASE Preview(t)
  <2>1. PICK o \in ActiveCarts, k \in Keys :
           tab' = [tab EXCEPT ![t] = [tab[t] EXCEPT !.step = "recap", !.key = k,
                                                    !.shown = VersionOf(o)]]
    BY <1>3 DEF Preview, Pages
  <2> DEFINE page == [tab[t] EXCEPT !.step = "recap", !.key = k, !.shown = VersionOf(o)]
  <2>2. DOMAIN page = PageFields /\ page.key = k
    BY DEF Pages, PageFields
  <2>3. tab' = [tab EXCEPT ![t] = page]
    BY <2>1
  <2>. HIDE DEF page
  <2>. QED  BY <1>3, <2>2, <2>3, PageWritten DEF Preview
<1>4. CASE Back(t)
  <2> DEFINE page == [tab[t] EXCEPT !.step = "browse", !.shown = NoVersion]
  <2>1. tab' = [tab EXCEPT ![t] = page]
    BY <1>4 DEF Back, Pages
  <2>2. DOMAIN page = PageFields /\ page.step = "browse"
    BY DEF Pages, PageFields
  <2>. HIDE DEF page
  <2>. QED  BY <1>4, <2>1, <2>2, PageWritten DEF Back
<1>5. CASE Submit(t)
  <2>1. tab[t].key \in Keys
    BY <1>5 DEF Submit, Pages
  <2>. QED  BY <1>5, <2>1 DEF Submit, Pages
<1>. QED  BY <1>1, <1>2, <1>3, <1>4, <1>5 DEF CheckoutPage

\* An answer that arrives or is lost.
LEMMA AnswerPages ==
    ASSUME Pages, NEW m \in inbox, NEW page, Answer(m, page),
           DOMAIN page = PageFields, page.step = "recap" => page.key \in Keys
    PROVE  Pages'
<1>1. CASE UNCHANGED tab
  BY <1>1 DEF Pages, Answer
<1>2. ASSUME NEW t \in Tabs, tab' = [tab EXCEPT ![t] = page]
      PROVE  Pages'
  BY <1>2, PageWritten DEF Answer
<1>. QED  BY <1>1, <1>2 DEF Answer

\* The pages that answers lead to.
LEMMA AnsweredPages ==
    ASSUME Pages, NEW m \in inbox, NEW o
    PROVE  /\ DOMAIN AfterOrder(m, o) = PageFields /\ AfterOrder(m, o).step = "ready"
           /\ DOMAIN AfterError(m) = PageFields /\ AfterError(m).key \in Keys
           /\ DOMAIN AfterStale(m) = PageFields /\ AfterStale(m).step = "browse"
           /\ DOMAIN AfterAlreadyCreated(m) = PageFields
           /\ AfterAlreadyCreated(m).step = "resuming"
<1>1. m.key \in Keys
  BY DEF Pages
<1>2. DOMAIN AfterOrder(m, o) = PageFields /\ AfterOrder(m, o).step = "ready"
  BY DEF AfterOrder, Asking, PageFields
<1>3. DOMAIN AfterError(m) = PageFields /\ AfterError(m).key = m.key
  BY DEF AfterError, Asking, PageFields
<1>4. DOMAIN AfterStale(m) = PageFields /\ AfterStale(m).step = "browse"
  BY DEF AfterStale, Opened, PageFields
<1>5. DOMAIN AfterAlreadyCreated(m) = PageFields /\ AfterAlreadyCreated(m).step = "resuming"
  BY DEF AfterAlreadyCreated, Asking, PageFields
<1>. QED  BY <1>1, <1>2, <1>3, <1>4, <1>5

\* Every outcome of create_order leaves proper pages.
LEMMA CreateOrderPages ==
    ASSUME Pages, NEW m \in inbox, CreateOrder(m)
    PROVE  Pages'
<1>1. \/ \E o : Answer(m, AfterOrder(m, o))
      \/ Answer(m, AfterError(m)) \/ Answer(m, AfterStale(m))
      \/ Answer(m, AfterAlreadyCreated(m))
  BY DEF CreateOrder, Replay, Refuse, AlreadyCreated, Stale, Place
<1>. QED  BY <1>1, AnswerPages, AnsweredPages

-------------------------------------------------------------------------------
(* Placing the order *)

\* The cart becomes a frozen row with the lines, quantities and prices of the
\* version that was asked for, under a key that had placed nothing.
LEMMA PlaceStep ==
    ASSUME Shape, Placed, OrderIsAsShown, NEW m \in inbox, Place(m)
    PROVE  /\ Placed' /\ OrderIsAsShown'
           /\ DOMAIN order' = Orders /\ DOMAIN item' = Items /\ DOMAIN receipt' = Keys
           /\ \A i \in Items : DOMAIN item'[i] = LineColumns
<1>1. PICK o \in ActiveCarts :
         /\ VersionOf(o) = m.asked
         /\ item' = [i \in Items |->
               IF i \in Lines(o) THEN [item[i] EXCEPT !.price = shelf[item[i].variant].price]
               ELSE item[i]]
         /\ order' = [order EXCEPT ![o] = "pending_payment"]
         /\ frozen' = frozen \cup {o}
         /\ receipt' = [receipt EXCEPT ![m.key] = [order |-> o, asked |-> m.asked]]
  BY DEF Place
<1>2. m.key \in Keys /\ receipt[m.key] = NoReceipt
  BY DEF Shape, Place, NewKey
<1>3. o \in Orders /\ o \notin frozen /\ o # 0
  <2>1. o \in Orders /\ order[o] = "cart"
    BY DEF ActiveCarts
  <2>2. o # 0
    BY <2>1, CartAssumption DEF Orders
  <2>. QED  BY <2>1, <2>2 DEF Placed
<1>4. /\ receipt'[m.key].order = o /\ receipt'[m.key].asked = m.asked
      /\ \A k \in Keys \ {m.key} : receipt'[k] = receipt[k]
      /\ DOMAIN receipt' = Keys
  <2>1. receipt'[m.key] = [order |-> o, asked |-> m.asked]
    BY <1>1, <1>2 DEF Shape
  <2>. QED  BY <1>1, <2>1 DEF Shape
<1>5. NoReceipt.order = 0
  BY DEF NoReceipt
<1>6. receipt'[m.key] # NoReceipt
  BY <1>3, <1>4, <1>5
<1>7. \A k \in Keys \ {m.key} : receipt[k].order # o
  BY <1>3, <1>5 DEF Placed
<1>8. ASSUME NEW i \in Lines(o)
      PROVE  /\ item'[i].order = o
             /\ item'[i].variant = item[i].variant
             /\ item'[i].quantity = item[i].quantity
             /\ item'[i].price = shelf[item[i].variant].price
             /\ DOMAIN item'[i] = LineColumns
  <2>1. i \in Items /\ item[i].order = o
    BY <1>8 DEF Lines
  <2>2. /\ item'[i] = [item[i] EXCEPT !.price = shelf[item[i].variant].price]
        /\ DOMAIN item[i] = LineColumns
    BY <1>1, <1>8, <2>1 DEF Shape
  <2>. QED  BY <2>1, <2>2 DEF LineColumns
<1>9. \A i \in Items \ Lines(o) : item'[i] = item[i] /\ item'[i].order # o
  BY <1>1 DEF Lines
<1>10. /\ DOMAIN order' = Orders /\ DOMAIN item' = Items
       /\ \A i \in Items : DOMAIN item'[i] = LineColumns
  BY <1>1, <1>8, <1>9 DEF Shape
<1>11. Placed'
  <2>1. frozen' \subseteq Orders
    BY <1>1, <1>3 DEF Placed
  <2>2. \A x \in Orders : order'[x] \in {"none", "cart"} => x \notin frozen'
    BY <1>1, <1>3 DEF Placed, Shape
  <2>3. ASSUME NEW k \in Keys, receipt'[k] # NoReceipt
        PROVE  receipt'[k].order \in frozen'
    BY <1>1, <1>4, <2>3 DEF Placed
  <2>4. ASSUME NEW x \in frozen'
        PROVE  \E k \in Keys : receipt'[k].order = x
    <3>1. CASE x = o
      BY <1>2, <1>4, <3>1
    <3>2. CASE x \in frozen
      <4>1. PICK k \in Keys : receipt[k].order = x
        BY <3>2 DEF Placed
      <4>2. k # m.key
        BY <1>2, <1>5, <3>2, <4>1, NoOrderZero
      <4>. QED  BY <1>4, <4>1, <4>2
    <3>. QED  BY <1>1, <2>4, <3>1, <3>2
  <2>5. ASSUME NEW k \in Keys, NEW l \in Keys,
               receipt'[k].order = receipt'[l].order, receipt'[k] # NoReceipt
        PROVE  k = l
    <3>1. CASE k = m.key \/ l = m.key
      BY <1>4, <1>7, <2>5, <3>1
    <3>2. CASE k # m.key /\ l # m.key
      BY <1>4, <2>5, <3>2 DEF Placed
    <3>. QED  BY <3>1, <3>2
  <2>. QED  BY <2>1, <2>2, <2>3, <2>4, <2>5 DEF Placed
<1>12. ASSUME NEW k \in Keys, receipt'[k] # NoReceipt, NEW i \in Items,
              item'[i].order = receipt'[k].order
       PROVE  \E l \in receipt'[k].asked :
                 /\ l.line = i
                 /\ l.variant = item'[i].variant
                 /\ l.quantity = item'[i].quantity
                 /\ l.price = item'[i].price
  <2>1. CASE k = m.key
    <3>1. i \in Lines(o)
      BY <1>4, <1>9, <1>12, <2>1
    <3> DEFINE l == [line |-> i, variant |-> item[i].variant, quantity |-> item[i].quantity,
                     price |-> shelf[item[i].variant].price,
                     stock |-> shelf[item[i].variant].stock]
    <3>2. l \in VersionOf(o)
      BY <3>1 DEF VersionOf
    <3>3. l \in receipt'[k].asked
      BY <1>1, <1>4, <2>1, <3>2
    <3>4. /\ l.line = i /\ l.variant = item'[i].variant
          /\ l.quantity = item'[i].quantity /\ l.price = item'[i].price
      BY <1>8, <3>1
    <3>. HIDE DEF l
    <3>. QED  BY <3>3, <3>4
  <2>2. CASE k # m.key
    <3>1. receipt'[k] = receipt[k] /\ receipt[k].order # o
      BY <1>4, <1>7, <2>2
    <3>2. i \notin Lines(o)
      BY <1>8, <1>12, <3>1
    <3>3. item'[i] = item[i] /\ i \in Lines(receipt[k].order)
      BY <1>9, <1>12, <3>1, <3>2 DEF Lines
    <3>. QED  BY <1>12, <3>1, <3>3 DEF OrderIsAsShown
  <2>. QED  BY <2>1, <2>2
<1>13. OrderIsAsShown'
  BY <1>12 DEF OrderIsAsShown, Lines
<1>. QED  BY <1>4, <1>10, <1>11, <1>13

-------------------------------------------------------------------------------
(* The invariant is inductive *)

\* Shape without its pages.
RowShape ==
    /\ DOMAIN order = Orders /\ DOMAIN item = Items /\ DOMAIN receipt = Keys
    /\ \A i \in Items : DOMAIN item[i] = LineColumns

LEMMA ShapeParts == /\ Shape <=> RowShape /\ Pages
                    /\ Shape' <=> RowShape' /\ Pages'
  BY DEF Shape, RowShape, Pages

\* Nothing is placed at first.
LEMMA CartInitInv == CartInit => CartInv
<1> SUFFICES ASSUME CartInit PROVE CartInv
  OBVIOUS
<1>1. Shape
  <2>1. DOMAIN Opened = PageFields /\ Opened.step = "resuming"
    BY DEF Opened, PageFields
  <2>. QED  BY <2>1, GoneLine DEF CartInit, Shape
<1>2. Placed
  BY DEF CartInit, Placed
<1>3. OrderIsAsShown
  BY DEF CartInit, OrderIsAsShown
<1>. QED  BY <1>1, <1>2, <1>3 DEF CartInv

\* Every step of a cart request is quiet.
LEMMA RequestStep ==
    ASSUME Shape, Placed, NEW c \in Requests, CartRequest(c)
    PROVE  Quiet /\ Shape'
<1>1. RowShape /\ Pages
  BY ShapeParts
<1>2. UNCHANGED <<tab, inbox>> => Pages'
  BY <1>1 DEF Pages
<1>3. UNCHANGED <<tab, inbox>>
  BY DEF CartRequest, AddLookup, AddFindsCart, AddLine, ClearLookup, ClearCart,
         DestroyCheck, Destroy, Refused
<1>4. CASE UNCHANGED serverVars
  BY <1>1, <1>2, <1>3, <1>4, RowsAlone, ShapeParts DEF serverVars, RowShape
<1>5. CASE AddLine(c)
  <2>1. receipt' = receipt
    BY <1>5 DEF AddLine
  <2>. QED  BY <1>1, <1>2, <1>3, <1>5, <2>1, AddLineQuiet, ShapeParts DEF RowShape
<1>6. CASE ClearCart(c)
  <2>1. receipt' = receipt /\ order' = order
    BY <1>6 DEF ClearCart
  <2>. QED  BY <1>1, <1>2, <1>3, <1>6, <2>1, ClearQuiet, ShapeParts DEF RowShape
<1>7. CASE Destroy(c)
  <2>1. receipt' = receipt /\ order' = order
    BY <1>7 DEF Destroy
  <2>. QED  BY <1>1, <1>2, <1>3, <1>7, <2>1, DestroyQuiet, ShapeParts DEF RowShape
<1>. QED  BY <1>4, <1>5, <1>6, <1>7
          DEF CartRequest, AddLookup, AddFindsCart, ClearLookup, DestroyCheck, Refused

\* Every step keeps the invariant.
LEMMA CartStepInv == CartInv /\ [CartNext]_cartVars => CartInv'
<1> SUFFICES ASSUME Shape, Placed, OrderIsAsShown, [CartNext]_cartVars
             PROVE  Shape' /\ Placed' /\ OrderIsAsShown'
  BY DEF CartInv
<1>0. RowShape /\ Pages
  BY ShapeParts
<1>1. ASSUME Quiet, Shape' PROVE Shape' /\ Placed' /\ OrderIsAsShown'
  BY <1>1, QuietKeeps
<1>2. ASSUME UNCHANGED <<order, frozen, item, receipt>>, Pages'
      PROVE  Shape' /\ Placed' /\ OrderIsAsShown'
  BY <1>0, <1>1, <1>2, RowsAlone, ShapeParts DEF RowShape
<1>3. UNCHANGED <<tab, inbox>> => Pages'
  BY <1>0 DEF Pages
<1>4. CASE UNCHANGED cartVars
  BY <1>2, <1>3, <1>4 DEF cartVars
<1>5. ASSUME NEW c \in Requests, CartRequest(c)
      PROVE  Shape' /\ Placed' /\ OrderIsAsShown'
  BY <1>1, <1>5, RequestStep
<1>6. ASSUME NEW i \in Items, NEW q \in 1 .. MaxQuantity, UpdateQuantity(i, q)
      PROVE  Shape' /\ Placed' /\ OrderIsAsShown'
  <2>1. UNCHANGED <<order, receipt, tab, inbox>>
    BY <1>6 DEF UpdateQuantity
  <2>. QED  BY <1>0, <1>1, <1>3, <1>6, <2>1, UpdateQuiet, ShapeParts DEF RowShape
<1>7. ASSUME NEW v \in Variants, ShelfChanges(v)
      PROVE  Shape' /\ Placed' /\ OrderIsAsShown'
  BY <1>2, <1>3, <1>7 DEF ShelfChanges
<1>8. ASSUME NEW o \in Orders, Close(o)
      PROVE  Shape' /\ Placed' /\ OrderIsAsShown'
  <2>1. UNCHANGED <<item, receipt, tab, inbox>>
    BY <1>8 DEF Close
  <2>. QED  BY <1>0, <1>1, <1>3, <1>8, <2>1, CloseQuiet, ShapeParts DEF RowShape
<1>9. ASSUME NEW t \in Tabs, CheckoutPage(t)
      PROVE  Shape' /\ Placed' /\ OrderIsAsShown'
  <2>1. UNCHANGED serverVars
    BY <1>9 DEF CheckoutPage, Open, Resume, Preview, Back, Submit
  <2>. QED  BY <1>0, <1>2, <1>9, <2>1, PageSteps DEF serverVars
<1>10. ASSUME NEW m \in inbox, CreateOrder(m)
       PROVE  Shape' /\ Placed' /\ OrderIsAsShown'
  <2>1. Pages'
    BY <1>0, <1>10, CreateOrderPages
  <2>2. CASE UNCHANGED serverVars
    BY <1>2, <2>1, <2>2 DEF serverVars
  <2>3. CASE Place(m)
    BY <2>1, <2>3, PlaceStep, ShapeParts DEF RowShape
  <2>. QED  BY <1>10, <2>2, <2>3 DEF CreateOrder, Replay, Refuse, AlreadyCreated, Stale
<1>. QED  BY <1>4, <1>5, <1>6, <1>7, <1>8, <1>9, <1>10 DEF CartNext

\* CartInv always holds.
LEMMA CartInvariance == CartSpec => []CartInv
  BY CartInitInv, CartStepInv, PTL DEF CartSpec

-------------------------------------------------------------------------------
(* The properties *)

\* Whatever cart requests were under way, whatever the shop changed and however
\* late the request was executed, an order is the recapitulation it was asked
\* for, less the lines a deletion took from it.
THEOREM AsShown == CartSpec => []OrderIsAsShown
  BY CartInvariance, PTL DEF CartInv

\* However often create_order is sent, and from however many tabs, a cart is
\* placed by one key, and a key places one order.
THEOREM OncePlaced == CartSpec => []PlacedOnce
<1>1. CartInv => PlacedOnce
  <2> SUFFICES ASSUME Placed, NEW o \in Orders
               PROVE  Cardinality({k \in Keys : receipt[k].order = o})
                         = IF o \in frozen THEN 1 ELSE 0
    BY DEF CartInv, PlacedOnce
  <2> DEFINE P == {k \in Keys : receipt[k].order = o}
  <2>1. o # 0 /\ NoReceipt.order = 0
    BY CartAssumption DEF Orders, NoReceipt
  <2>2. \A k \in P : receipt[k] # NoReceipt
    BY <2>1
  <2>3. CASE o \notin frozen
    <3>1. P = {}
      BY <2>2, <2>3 DEF Placed
    <3>. QED  BY <2>3, <3>1, FS_EmptySet
  <2>4. CASE o \in frozen
    <3>1. PICK k \in Keys : receipt[k].order = o
      BY <2>4 DEF Placed
    <3>2. P = {k}
      BY <2>2, <3>1 DEF Placed
    <3>3. Cardinality({k}) = 1
      BY FS_Singleton
    <3>. QED  BY <2>4, <3>2, <3>3
  <2>. QED  BY <2>3, <2>4
<1>. QED  BY <1>1, CartInvariance, PTL
-------------------------------------------------------------------------------
(* Notifications: sequences of notices *)

\* What a sequence holds, after each of the operations used.
LEMMA HeldBySequence ==
    ASSUME NEW S, NEW s \in Seq(S)
    PROVE  /\ ToSet(s) \subseteq S
           /\ \A e : Contains(s, e) <=> e \in ToSet(s)
           /\ \A e \in S : /\ Append(s, e) \in Seq(S)
                           /\ ToSet(Append(s, e)) = ToSet(s) \cup {e}
                           /\ IsInjective(s) /\ e \notin ToSet(s) => IsInjective(Append(s, e))
<1>1. ToSet(s) \subseteq S /\ \A e : Contains(s, e) <=> e \in ToSet(s)
  BY DEF ToSet, Contains
<1>2. ASSUME NEW e \in S
      PROVE  /\ Append(s, e) \in Seq(S)
             /\ ToSet(Append(s, e)) = ToSet(s) \cup {e}
             /\ IsInjective(s) /\ e \notin ToSet(s) => IsInjective(Append(s, e))
  <2>1. /\ Append(s, e) \in Seq(S) /\ Len(Append(s, e)) = Len(s) + 1 /\ Len(s) \in Nat
        /\ Append(s, e)[Len(s) + 1] = e
        /\ \A i \in 1 .. Len(s) : Append(s, e)[i] = s[i]
        /\ DOMAIN s = 1 .. Len(s) /\ DOMAIN Append(s, e) = 1 .. Len(s) + 1
    OBVIOUS
  <2> DEFINE a == Append(s, e)
  <2>. HIDE DEF a
  <2>2. ToSet(a) = ToSet(s) \cup {e}
    <3>1. ASSUME NEW x \in ToSet(a)
          PROVE  x \in ToSet(s) \cup {e}
      BY <2>1, <3>1 DEF ToSet, a
    <3>2. ASSUME NEW x \in ToSet(s) \cup {e}
          PROVE  x \in ToSet(a)
      <4>1. CASE x = e
        <5>1. Len(s) + 1 \in DOMAIN a /\ a[Len(s) + 1] = e
          BY <2>1 DEF a
        <5>. QED  BY <4>1, <5>1 DEF ToSet
      <4>2. CASE x # e
        <5>1. PICK i \in 1 .. Len(s) : s[i] = x
          BY <2>1, <3>2, <4>2 DEF ToSet
        <5>2. i \in DOMAIN a /\ a[i] = x
          BY <2>1, <5>1 DEF a
        <5>. QED  BY <5>2 DEF ToSet
      <4>. QED  BY <4>1, <4>2
    <3>. QED  BY <3>1, <3>2
  <2>3. ASSUME IsInjective(s), e \notin ToSet(s)
        PROVE  IsInjective(a)
    BY <2>1, <2>3 DEF IsInjective, ToSet, a
  <2>. QED  BY <2>1, <2>2, <2>3 DEF a
<1>. QED  BY <1>1, <1>2

\* The same of two sequences one after the other.
LEMMA HeldByBoth ==
    ASSUME NEW S, NEW s \in Seq(S), NEW t \in Seq(S)
    PROVE  /\ s \o t \in Seq(S)
           /\ ToSet(s \o t) = ToSet(s) \cup ToSet(t)
           /\ IsInjective(s) /\ IsInjective(t) /\ ToSet(s) \cap ToSet(t) = {}
                 => IsInjective(s \o t)
<1> DEFINE c == s \o t
<1>1. /\ c \in Seq(S) /\ Len(s) \in Nat /\ Len(t) \in Nat /\ Len(c) = Len(s) + Len(t)
      /\ DOMAIN s = 1 .. Len(s) /\ DOMAIN t = 1 .. Len(t) /\ DOMAIN c = 1 .. Len(s) + Len(t)
      /\ \A i \in 1 .. Len(s) : c[i] = s[i]
      /\ \A i \in 1 .. Len(s) + Len(t) : i > Len(s) => c[i] = t[i - Len(s)]
  OBVIOUS
<1>. HIDE DEF c
<1>2. ASSUME NEW x \in ToSet(c) PROVE x \in ToSet(s) \cup ToSet(t)
  <2>1. PICK i \in 1 .. Len(s) + Len(t) : c[i] = x
    BY <1>1, <1>2 DEF ToSet
  <2>2. CASE i <= Len(s)
    <3>1. i \in DOMAIN s /\ s[i] = x
      BY <1>1, <2>1, <2>2
    <3>. QED  BY <3>1 DEF ToSet
  <2>3. CASE i > Len(s)
    <3>1. i - Len(s) \in DOMAIN t /\ t[i - Len(s)] = x
      BY <1>1, <2>1, <2>3
    <3>. QED  BY <3>1 DEF ToSet
  <2>. QED  BY <1>1, <2>2, <2>3
<1>3. ASSUME NEW x \in ToSet(s) PROVE x \in ToSet(c)
  <2>1. PICK i \in 1 .. Len(s) : s[i] = x
    BY <1>1, <1>3 DEF ToSet
  <2>2. i \in DOMAIN c /\ c[i] = x
    BY <1>1, <2>1
  <2>. QED  BY <2>2 DEF ToSet
<1>4. ASSUME NEW x \in ToSet(t) PROVE x \in ToSet(c)
  <2>1. PICK i \in 1 .. Len(t) : t[i] = x
    BY <1>1, <1>4 DEF ToSet
  <2>2. i + Len(s) \in DOMAIN c /\ (i + Len(s)) - Len(s) = i /\ i + Len(s) > Len(s)
    BY <1>1, <2>1
  <2>3. c[i + Len(s)] = x
    BY <1>1, <2>1, <2>2
  <2>. QED  BY <2>2, <2>3 DEF ToSet
<1>5. ASSUME IsInjective(s), IsInjective(t), ToSet(s) \cap ToSet(t) = {},
             NEW i \in DOMAIN c, NEW j \in DOMAIN c, c[i] = c[j]
      PROVE  i = j
  <2>1. \A k \in 1 .. Len(s) : s[k] \in ToSet(s)
    BY <1>1 DEF ToSet
  <2>2. \A k \in 1 .. Len(t) : t[k] \in ToSet(t)
    BY <1>1 DEF ToSet
  <2>3. CASE i <= Len(s) /\ j <= Len(s)
    BY <1>1, <1>5, <2>3 DEF IsInjective
  <2>4. CASE i > Len(s) /\ j > Len(s)
    <3>1. i \in 1 .. Len(s) + Len(t) /\ j \in 1 .. Len(s) + Len(t)
      BY <1>1
    <3>2. i - Len(s) \in DOMAIN t /\ j - Len(s) \in DOMAIN t
      BY <1>1, <2>4, <3>1
    <3>3. t[i - Len(s)] = t[j - Len(s)]
      BY <1>1, <1>5, <2>4, <3>1
    <3>4. i - Len(s) = j - Len(s)
      BY <1>5, <3>2, <3>3 DEF IsInjective
    <3>. QED  BY <1>1, <3>1, <3>4
  <2>5. CASE i <= Len(s) /\ j > Len(s)
    BY <1>1, <1>5, <2>1, <2>2, <2>5
  <2>6. CASE i > Len(s) /\ j <= Len(s)
    BY <1>1, <1>5, <2>1, <2>2, <2>6
  <2>. QED  BY <1>1, <2>3, <2>4, <2>5, <2>6
<1>. QED  BY <1>1, <1>2, <1>3, <1>4, <1>5 DEF IsInjective, c

\* The head and the rest of a sequence.
LEMMA HeldByRest ==
    ASSUME NEW S, NEW s \in Seq(S), s # <<>>
    PROVE  /\ Head(s) \in ToSet(s) /\ Tail(s) \in Seq(S)
           /\ ToSet(s) = ToSet(Tail(s)) \cup {Head(s)}
           /\ IsInjective(s) => IsInjective(Tail(s)) /\ Head(s) \notin ToSet(Tail(s))
<1> DEFINE t == Tail(s)
<1>1. /\ t \in Seq(S) /\ Len(s) \in Nat \ {0} /\ Len(t) = Len(s) - 1
      /\ DOMAIN s = 1 .. Len(s) /\ DOMAIN t = 1 .. Len(s) - 1
      /\ \A i \in 1 .. Len(s) - 1 : t[i] = s[i + 1]
      /\ Head(s) = s[1]
  OBVIOUS
<1>. HIDE DEF t
<1>2. Head(s) \in ToSet(s)
  <2>1. 1 \in DOMAIN s
    BY <1>1
  <2>. QED  BY <1>1, <2>1 DEF ToSet
<1>3. ASSUME NEW x \in ToSet(t) PROVE x \in ToSet(s)
  <2>1. PICK i \in 1 .. Len(s) - 1 : t[i] = x
    BY <1>1, <1>3 DEF ToSet
  <2>2. i + 1 \in DOMAIN s /\ s[i + 1] = x
    BY <1>1, <2>1
  <2>. QED  BY <2>2 DEF ToSet
<1>4. ASSUME NEW x \in ToSet(s), x # Head(s) PROVE x \in ToSet(t)
  <2>1. PICK i \in 1 .. Len(s) : s[i] = x
    BY <1>1, <1>4 DEF ToSet
  <2>2. i - 1 \in DOMAIN t /\ (i - 1) + 1 = i
    BY <1>1, <1>4, <2>1
  <2>3. t[i - 1] = x
    BY <1>1, <2>1, <2>2
  <2>. QED  BY <2>2, <2>3 DEF ToSet
<1>5. ASSUME IsInjective(s)
      PROVE  IsInjective(t) /\ Head(s) \notin ToSet(t)
  BY <1>1, <1>5 DEF IsInjective, ToSet
<1>. QED  BY <1>1, <1>2, <1>3, <1>4, <1>5 DEF t
-------------------------------------------------------------------------------
(* Notifications: the processes *)

\* What a process has to dispatch, or is dispatching.
Load(r) == ToSet(r.todo) \cup ({r.cur} \cap Notices)

NoticeTypes ==
    /\ failedOnly \in BOOLEAN
    /\ row \in [Notices -> RowStatus]
    /\ proc \in [Processes -> Process]
    /\ mails \in [Notices -> 0 .. 2]
    /\ excuse \in [Notices -> SUBSET {"overlap", "crash"}]

\* A process holds a notice while it dispatches it, rows while its transaction
\* is open, and a list only afterwards.
Tidy(r) ==
    /\ r.cur # None <=> r.at \in {"mail", "accepted", "refused"}
    /\ r.at # "tx" => r.made = <<>> /\ r.inner = <<>> /\ r.order = None /\ ~r.nested
    /\ r.at \in {"idle", "tx"} => r.todo = <<>>
    /\ IsInjective(r.made) /\ IsInjective(r.inner)
    /\ ToSet(r.made) \cap ToSet(r.inner) = {}

\* The rows of an open transaction are of its order and not there yet; those to
\* dispatch are.
Tied(p) ==
    /\ p \notin Web => proc[p].at # "tx"
    /\ \A n \in ToSet(proc[p].made) \cup ToSet(proc[p].inner) :
          n[1] = proc[p].order /\ n \in Addressed /\ row[n] = "absent"
    /\ \A n \in Load(proc[p]) : row[n] # "absent"
    /\ proc[p].at = "accepted" => mails[proc[p].cur] > 0

\* No two transactions hold an order; a row has an address; a mail has a row.
Locked ==
    \A p, q \in Web : p # q /\ proc[p].order = proc[q].order => proc[p].order = None
Heard ==
    \A n \in Notices : /\ row[n] # "absent" => n \in Addressed
                       /\ mails[n] > 0 => row[n] # "absent"
                       /\ row[n] = "sent" => mails[n] > 0

NoticeInv ==
    /\ NoticeTypes /\ Locked /\ Heard
    /\ \A p \in Processes : Tidy(proc[p]) /\ Tied(p)

\* A notice without an excuse is dispatched by one process at most, and a mail
\* of it is the only one: its process is about to write "sent", or has.
Single ==
    \A n \in Notices : excuse[n] = {} =>
        /\ \A p, q \in Processes : proc[p].cur = n /\ proc[q].cur = n => p = q
        /\ mails[n] > 0 =>
              /\ mails[n] = 1
              /\ \/ row[n] = "sent" /\ \A p \in Processes : proc[p].cur # n
                 \/ \E p \in Processes : proc[p].cur = n /\ proc[p].at = "accepted"

\* The crontab's choice: what a request has to dispatch is pending, and no
\* other process has it.
Scheduled == failedOnly /\ Cardinality(Cron) = 1
Alone ==
    Scheduled =>
        /\ \A n \in Notices : "overlap" \notin excuse[n]
        /\ \A p \in Web :
              /\ IsInjective(proc[p].todo) /\ proc[p].cur \notin ToSet(proc[p].todo)
              /\ \A n \in Load(proc[p]) :
                    /\ row[n] = "pending"
                    /\ \A q \in Processes \ {p} : n \notin Load(proc[q])

MailInv == NoticeInv /\ Single /\ Alone

\* A process that rests.
LEMMA Rests ==
    /\ Resting \in Process /\ Tidy(Resting) /\ Load(Resting) = {}
    /\ ToSet(Resting.made) = {} /\ ToSet(Resting.inner) = {}
    /\ Resting.at = "idle" /\ Resting.cur = None /\ Resting.order = None
    /\ Resting.todo = <<>>
<1>1. <<>> \in Seq(Notices) /\ ToSet(<<>>) = {} /\ IsInjective(<<>>)
  BY DEF ToSet, IsInjective
<1>2. Resting \in Process
  BY <1>1 DEF Resting, Process, Phases
<1>3. None \notin Notices
  BY NoticeAssumption DEF NoticeAssumption
<1>. QED  BY <1>1, <1>2, <1>3 DEF Resting, Tidy, Load

\* A step of one process leaves the others.
LEMMA OneProcess ==
    ASSUME NoticeTypes, NEW p \in Processes, NEW r \in Process, proc' = [proc EXCEPT ![p] = r]
    PROVE  /\ proc' \in [Processes -> Process] /\ proc'[p] = r
           /\ \A q \in Processes : q # p => proc'[q] = proc[q]
  BY DEF NoticeTypes

\* A step that touches no row, mail or excuse, takes nothing up and leaves a
\* mail that was accepted.
Plain(p) ==
    /\ UNCHANGED <<failedOnly, row, mails, excuse>>
    /\ \E r \in Process :
          /\ proc' = [proc EXCEPT ![p] = r]
          /\ Load(r) \subseteq Load(proc[p]) /\ r.todo \in {proc[p].todo, <<>>}
          /\ r.cur \in {proc[p].cur, None}
          /\ proc[p].at = "accepted" => r.cur = proc[p].cur /\ r.at = "accepted"

\* Such a step keeps a mail the only one.
LEMMA PlainSingle ==
    ASSUME NoticeTypes, Single, NEW p \in Processes, Plain(p)
    PROVE  Single'
<1>1. PICK r \in Process :
         /\ proc' = [proc EXCEPT ![p] = r] /\ r.cur \in {proc[p].cur, None}
         /\ proc[p].at = "accepted" => r.cur = proc[p].cur /\ r.at = "accepted"
  BY DEF Plain
<1>2. proc'[p] = r /\ \A q \in Processes : q # p => proc'[q] = proc[q]
  BY <1>1, OneProcess
<1>3. \A q \in Processes : /\ proc'[q].cur \in {proc[q].cur, None}
                           /\ proc[q].at = "accepted" => proc'[q].cur = proc[q].cur
                                                         /\ proc'[q].at = "accepted"
  BY <1>1, <1>2
<1>4. None \notin Notices
  BY NoticeAssumption DEF NoticeAssumption
<1>5. row' = row /\ mails' = mails /\ excuse' = excuse
  BY DEF Plain
<1>. QED  BY <1>3, <1>4, <1>5 DEF Single

\* A step that takes nothing up leaves a request alone with what it has.
LEMMA LoadShrinks ==
    ASSUME NoticeTypes, Alone, NEW p \in Processes, NEW r \in Process,
           proc' = [proc EXCEPT ![p] = r], row' = row, failedOnly' = failedOnly,
           \A n \in Notices : "overlap" \in excuse'[n] => "overlap" \in excuse[n],
           Load(r) \subseteq Load(proc[p]), r.todo \in {proc[p].todo, <<>>},
           r.cur \in {proc[p].cur, None}
    PROVE  Alone'
<1>1. proc'[p] = r /\ \A q \in Processes : q # p => proc'[q] = proc[q]
  BY OneProcess
<1>2. Scheduled' = Scheduled
  BY DEF Scheduled
<1>3. IsInjective(<<>>) /\ ToSet(<<>>) = {} /\ None \notin Notices
  BY NoticeAssumption DEF NoticeAssumption, IsInjective, ToSet
<1>4. \A q \in Processes : Load(proc'[q]) \subseteq Load(proc[q])
  BY <1>1
<1>5. ASSUME Scheduled, NEW q \in Web
      PROVE  IsInjective(proc'[q].todo) /\ proc'[q].cur \notin ToSet(proc'[q].todo)
  <2>1. q \in Processes /\ ToSet(proc[q].todo) \subseteq Notices
    BY HeldBySequence DEF Processes, NoticeTypes, Process
  <2>2. IsInjective(proc[q].todo) /\ proc[q].cur \notin ToSet(proc[q].todo)
    BY <1>5 DEF Alone
  <2>3. CASE q # p
    BY <1>1, <2>1, <2>2, <2>3
  <2>4. CASE q = p
    BY <1>1, <1>3, <2>1, <2>2, <2>4
  <2>. QED  BY <2>3, <2>4
<1>. QED  BY <1>2, <1>4, <1>5 DEF Alone, Processes

LEMMA PlainAlone ==
    ASSUME NoticeTypes, Alone, NEW p \in Processes, Plain(p)
    PROVE  Alone'
  BY LoadShrinks DEF Plain

\* What a step of one process owes for NoticeInv: its process stays tidy and
\* tied, it takes no order that another holds, and no row of the others'.
LEMMA StepOwes ==
    ASSUME NoticeInv, NEW p \in Processes, NEW r \in Process, proc' = [proc EXCEPT ![p] = r],
           failedOnly' = failedOnly,
           row' \in [Notices -> RowStatus], mails' \in [Notices -> 0 .. 2],
           excuse' \in [Notices -> SUBSET {"overlap", "crash"}],
           \A n \in Notices : row[n] # "absent" => row'[n] # "absent",
           \A n \in Notices : mails[n] > 0 => mails'[n] > 0,
           \A q \in Processes \ {p} :
              \A n \in ToSet(proc[q].made) \cup ToSet(proc[q].inner) : row'[n] = row[n],
           \/ r.order \in {None, proc[p].order}
           \/ \A q \in Web : proc[q].order # r.order,
           Heard', Tidy(r), Tied(p)'
    PROVE  NoticeInv'
<1>0. NoticeTypes
  BY DEF NoticeInv
<1>1. /\ proc' \in [Processes -> Process] /\ proc'[p] = r
      /\ \A q \in Processes : q # p => proc'[q] = proc[q]
  BY <1>0, OneProcess
<1>2. NoticeTypes'
  BY <1>0, <1>1 DEF NoticeTypes
<1>3. Locked'
  BY <1>1 DEF NoticeInv, Locked, Processes
<1>4. ASSUME NEW q \in Processes
      PROVE  Tidy(proc'[q]) /\ Tied(q)'
  <2>1. CASE q = p
    BY <1>1, <2>1
  <2>2. CASE q # p
    <3>1. proc'[q] = proc[q] /\ Tidy(proc[q]) /\ Tied(q)
      BY <1>1, <2>2 DEF NoticeInv
    <3>2. Load(proc[q]) \subseteq Notices
      BY <1>0, HeldBySequence DEF NoticeTypes, Process, Load
    <3>3. proc[q].at = "accepted" => proc[q].cur \in Notices
      BY <1>0, <3>1 DEF Tidy, NoticeTypes, Process
    <3>4. /\ \A n \in ToSet(proc[q].made) \cup ToSet(proc[q].inner) : row'[n] = "absent"
          /\ \A n \in Load(proc[q]) : row'[n] # "absent"
          /\ proc[q].at = "accepted" => mails'[proc[q].cur] > 0
      BY <2>2, <3>1, <3>2, <3>3 DEF Tied
    <3>. QED  BY <3>1, <3>4 DEF Tied
  <2>. QED  BY <2>1, <2>2
<1>. QED  BY <1>2, <1>3, <1>4 DEF NoticeInv

\* The fields of a process and their types.
LEMMA FieldsOf ==
    ASSUME NoticeInv, NEW p \in Processes
    PROVE  /\ proc[p] \in Process /\ Tidy(proc[p]) /\ Tied(p)
           /\ proc[p].made \in Seq(Notices) /\ proc[p].inner \in Seq(Notices)
           /\ proc[p].todo \in Seq(Notices)
           /\ proc[p].cur \in Notices \cup {None} /\ None \notin Notices
           /\ proc[p].order \in OrderIds \cup {None} /\ None \notin OrderIds
           /\ ToSet(proc[p].made) \subseteq Notices /\ ToSet(proc[p].inner) \subseteq Notices
           /\ ToSet(proc[p].todo) \subseteq Notices
<1>1. proc[p] \in Process /\ Tidy(proc[p]) /\ Tied(p)
  BY DEF NoticeInv, NoticeTypes
<1>2. /\ proc[p].made \in Seq(Notices) /\ proc[p].inner \in Seq(Notices)
      /\ proc[p].todo \in Seq(Notices)
      /\ proc[p].cur \in Notices \cup {None} /\ proc[p].order \in OrderIds \cup {None}
  BY <1>1 DEF Process
<1>3. None \notin Notices /\ None \notin OrderIds
  BY NoticeAssumption DEF NoticeAssumption
<1>. QED  BY <1>1, <1>2, <1>3, HeldBySequence

\* A process that ends, or gives its transaction up.
LEMMA Resets ==
    ASSUME NoticeInv, NEW p \in Processes, proc' = [proc EXCEPT ![p] = Resting],
           UNCHANGED <<failedOnly, row, mails>>,
           excuse' \in [Notices -> SUBSET {"overlap", "crash"}]
    PROVE  NoticeInv'
<1>1. /\ Tied(p)' /\ Heard'
      /\ mails' \in [Notices -> 0 .. 2] /\ row' \in [Notices -> RowStatus]
  <2>1. proc'[p] = Resting
    BY Rests, OneProcess DEF NoticeInv
  <2>2. Resting.at # "tx" /\ Resting.at # "accepted"
    BY Rests
  <2>3. Tied(p)'
    BY <2>1, <2>2, Rests DEF Tied
  <2>. QED  BY <2>3 DEF NoticeInv, NoticeTypes, Heard
<1>. QED  BY <1>1, Rests, StepOwes

\* The rows of r are those of the transaction of p, or may join them.
Joins(r, p) ==
    \A n \in ToSet(r.made) \cup ToSet(r.inner) :
       \/ n \in ToSet(proc[p].made) \cup ToSet(proc[p].inner)
       \/ n[1] = proc[p].order /\ n \in Addressed /\ row[n] = "absent"

\* A step that only moves between the rows of its open transaction.
LEMMA InTransaction ==
    ASSUME NoticeInv, NEW p \in Web, NEW r \in Process, proc' = [proc EXCEPT ![p] = r],
           UNCHANGED <<failedOnly, row, mails, excuse>>,
           proc[p].at = "tx", r.at = "tx", r.order = proc[p].order,
           r.todo = proc[p].todo, r.cur = proc[p].cur,
           ToSet(r.made) \cap ToSet(r.inner) = {}, IsInjective(r.made), IsInjective(r.inner),
           Joins(r, p)
    PROVE  NoticeInv' /\ Plain(p)
<1>0. p \in Processes /\ Tidy(proc[p]) /\ Tied(p)
  BY FieldsOf DEF Processes
<1>1. proc'[p] = r
  BY <1>0, OneProcess DEF NoticeInv
<1>2. Tidy(r)
  BY <1>0 DEF Tidy
<1>3. Load(r) = Load(proc[p])
  BY DEF Load
<1>4. Tied(p)'
  BY <1>0, <1>1, <1>3 DEF Tied, Joins
<1>5. Heard' /\ NoticeTypes
  BY DEF NoticeInv, Heard
<1>6. NoticeInv'
  <2>1. /\ row' \in [Notices -> RowStatus] /\ mails' \in [Notices -> 0 .. 2]
        /\ excuse' \in [Notices -> SUBSET {"overlap", "crash"}]
    BY <1>5 DEF NoticeTypes
  <2>. QED  BY <1>0, <1>2, <1>4, <1>5, <2>1, StepOwes
<1>7. Plain(p)
  BY <1>3 DEF Plain
<1>. QED  BY <1>6, <1>7
\* Savepoints and new rows.
LEMMA TransactionSteps ==
    ASSUME NoticeInv, NEW p \in Web,
           Savepoint(p) \/ Release(p) \/ RollbackTo(p) \/ \E n \in Notices : Announce(p, n)
    PROVE  NoticeInv' /\ Plain(p)
<1>0. p \in Processes
  BY DEF Processes
<1>1. /\ proc[p] \in Process /\ Tidy(proc[p]) /\ Tied(p) /\ NoticeTypes
      /\ proc[p].made \in Seq(Notices) /\ proc[p].inner \in Seq(Notices)
      /\ ToSet(proc[p].made) \subseteq Notices /\ ToSet(proc[p].inner) \subseteq Notices
  BY <1>0, FieldsOf DEF NoticeInv
<1>2. <<>> \in Seq(Notices) /\ ToSet(<<>>) = {} /\ IsInjective(<<>>)
  BY DEF ToSet, IsInjective
<1>3. /\ UNCHANGED <<failedOnly, row, mails, excuse>>
      /\ proc[p].at = "tx"
  BY <1>1 DEF Savepoint, Release, RollbackTo, Announce, Database, History, Tidy
<1>4. CASE Savepoint(p)
  <2>1. PICK r : r = [proc[p] EXCEPT !.nested = TRUE]
    OBVIOUS
  <2>2. /\ r \in Process /\ r.at = "tx" /\ r.order = proc[p].order /\ r.todo = proc[p].todo
        /\ r.cur = proc[p].cur /\ r.made = proc[p].made /\ r.inner = proc[p].inner
    BY <1>1, <1>3, <2>1 DEF Process
  <2>3. proc' = [proc EXCEPT ![p] = r]
    BY <1>0, <1>1, <1>4, <2>1 DEF Savepoint, NoticeTypes
  <2>. QED  BY <1>1, <1>3, <2>2, <2>3, InTransaction DEF Tidy, Joins
<1>5. CASE Release(p)
  <2>1. PICK made \in Seq(Notices) : made = proc[p].made \o proc[p].inner
    BY <1>1, HeldByBoth
  <2>2. ToSet(made) = ToSet(proc[p].made) \cup ToSet(proc[p].inner) /\ IsInjective(made)
    BY <1>1, <2>1, HeldByBoth DEF Tidy
  <2>3. PICK r : r = [proc[p] EXCEPT !.nested = FALSE, !.inner = <<>>, !.made = made]
    OBVIOUS
  <2>4. /\ r \in Process /\ r.at = "tx" /\ r.order = proc[p].order /\ r.todo = proc[p].todo
        /\ r.cur = proc[p].cur /\ r.made = made /\ r.inner = <<>>
    BY <1>1, <1>2, <1>3, <2>3 DEF Process
  <2>5. proc' = [proc EXCEPT ![p] = r]
    BY <1>0, <1>1, <1>5, <2>1, <2>3 DEF Release, NoticeTypes
  <2>6. Joins(r, p)
    BY <1>2, <2>2, <2>4 DEF Joins
  <2>. QED  BY <1>2, <1>3, <2>2, <2>4, <2>5, <2>6, InTransaction
<1>6. CASE RollbackTo(p)
  <2>1. PICK r : r = [proc[p] EXCEPT !.nested = FALSE, !.inner = <<>>]
    OBVIOUS
  <2>2. /\ r \in Process /\ r.at = "tx" /\ r.order = proc[p].order /\ r.todo = proc[p].todo
        /\ r.cur = proc[p].cur /\ r.made = proc[p].made /\ r.inner = <<>>
    BY <1>1, <1>2, <1>3, <2>1 DEF Process
  <2>3. proc' = [proc EXCEPT ![p] = r]
    BY <1>0, <1>1, <1>6, <2>1 DEF RollbackTo, NoticeTypes
  <2>4. Joins(r, p)
    BY <1>2, <2>2 DEF Joins
  <2>. QED  BY <1>1, <1>2, <1>3, <2>2, <2>3, <2>4, InTransaction DEF Tidy
<1>7. ASSUME NEW n \in Notices, Announce(p, n)
      PROVE  NoticeInv' /\ Plain(p)
  <2>1. /\ n[1] = proc[p].order /\ n \in Addressed /\ row[n] = "absent"
        /\ n \notin ToSet(proc[p].made) /\ n \notin ToSet(proc[p].inner)
    BY <1>1, <1>7, HeldBySequence DEF Announce, Creates, Committed
  <2>2. CASE proc[p].nested
    <3>1. PICK inner \in Seq(Notices) : inner = Append(proc[p].inner, n)
      BY <1>1, HeldBySequence
    <3>2. ToSet(inner) = ToSet(proc[p].inner) \cup {n} /\ IsInjective(inner)
      BY <1>1, <2>1, <3>1, HeldBySequence DEF Tidy
    <3>3. PICK r : r = [proc[p] EXCEPT !.inner = inner]
      OBVIOUS
    <3>4. /\ r \in Process /\ r.at = "tx" /\ r.order = proc[p].order /\ r.todo = proc[p].todo
          /\ r.cur = proc[p].cur /\ r.made = proc[p].made /\ r.inner = inner
      BY <1>1, <1>3, <3>3 DEF Process
    <3>5. proc' = [proc EXCEPT ![p] = r]
      BY <1>0, <1>1, <1>7, <2>2, <3>1, <3>3 DEF Announce, NoticeTypes
    <3>6. ToSet(r.made) \cap ToSet(r.inner) = {} /\ IsInjective(r.made) /\ IsInjective(r.inner)
      BY <1>1, <2>1, <3>2, <3>4 DEF Tidy
    <3>7. Joins(r, p)
      BY <2>1, <3>2, <3>4 DEF Joins
    <3>. QED  BY <1>3, <3>4, <3>5, <3>6, <3>7, InTransaction
  <2>3. CASE ~proc[p].nested
    <3>1. PICK made \in Seq(Notices) : made = Append(proc[p].made, n)
      BY <1>1, HeldBySequence
    <3>2. ToSet(made) = ToSet(proc[p].made) \cup {n} /\ IsInjective(made)
      BY <1>1, <2>1, <3>1, HeldBySequence DEF Tidy
    <3>3. PICK r : r = [proc[p] EXCEPT !.made = made]
      OBVIOUS
    <3>4. /\ r \in Process /\ r.at = "tx" /\ r.order = proc[p].order /\ r.todo = proc[p].todo
          /\ r.cur = proc[p].cur /\ r.made = made /\ r.inner = proc[p].inner
      BY <1>1, <1>3, <3>3 DEF Process
    <3>5. proc' = [proc EXCEPT ![p] = r]
      BY <1>0, <1>1, <1>7, <2>3, <3>1, <3>3 DEF Announce, NoticeTypes
    <3>6. ToSet(r.made) \cap ToSet(r.inner) = {} /\ IsInjective(r.made) /\ IsInjective(r.inner)
      BY <1>1, <2>1, <3>2, <3>4 DEF Tidy
    <3>7. Joins(r, p)
      BY <2>1, <3>2, <3>4 DEF Joins
    <3>. QED  BY <1>3, <3>4, <3>5, <3>6, <3>7, InTransaction
  <2>. QED  BY <2>2, <2>3
<1>. QED  BY <1>4, <1>5, <1>6, <1>7

\* A transaction opens, is given up, or a process is done.
LEMMA OpeningAndClosing ==
    ASSUME NoticeInv, NEW p \in Processes,
           Abort(p) \/ Finish(p) \/ \E o \in OrderIds : Begin(p, o)
    PROVE  NoticeInv' /\ Plain(p)
<1>1. /\ proc[p] \in Process /\ Tidy(proc[p]) /\ Tied(p) /\ NoticeTypes
  BY FieldsOf DEF NoticeInv
<1>2. /\ UNCHANGED <<failedOnly, row, mails, excuse>>
      /\ row' \in [Notices -> RowStatus] /\ mails' \in [Notices -> 0 .. 2]
      /\ excuse' \in [Notices -> SUBSET {"overlap", "crash"}]
  BY <1>1 DEF Begin, Abort, Finish, Database, History, NoticeTypes
<1>3. CASE Abort(p) \/ Finish(p)
  <2>1. proc' = [proc EXCEPT ![p] = Resting] /\ proc[p].at # "accepted"
    BY <1>3 DEF Abort, Finish
  <2>2. NoticeInv'
    BY <1>2, <2>1, Resets
  <2>3. Plain(p)
    BY <1>2, <2>1, Rests DEF Plain
  <2>. QED  BY <2>2, <2>3
<1>4. ASSUME NEW o \in OrderIds, Begin(p, o)
      PROVE  NoticeInv' /\ Plain(p)
  <2>1. PICK r : r = [Resting EXCEPT !.at = "tx", !.order = o]
    OBVIOUS
  <2>2. /\ r \in Process /\ r.at = "tx" /\ r.order = o /\ r.todo = <<>> /\ r.cur = None
        /\ r.made = <<>> /\ r.inner = <<>>
    BY <2>1, Rests DEF Process, Resting, Phases
  <2>3. /\ proc' = [proc EXCEPT ![p] = r] /\ p \in Web /\ proc[p].at = "idle"
        /\ \A q \in Web : proc[q].order # r.order
    BY <1>4, <2>1, <2>2 DEF Begin
  <2>4. ToSet(<<>>) = {} /\ IsInjective(<<>>) /\ None \notin Notices
    BY NoticeAssumption DEF ToSet, IsInjective, NoticeAssumption
  <2>5. Tidy(r) /\ Load(r) = {}
    BY <2>2, <2>4 DEF Tidy, Load
  <2>6. proc'[p] = r
    BY <1>1, <2>2, <2>3, OneProcess
  <2>7. Tied(p)'
    BY <2>2, <2>3, <2>4, <2>5, <2>6 DEF Tied
  <2>8. Heard'
    BY <1>2 DEF NoticeInv, Heard
  <2>9. NoticeInv'
    BY <1>2, <2>2, <2>3, <2>5, <2>7, <2>8, StepOwes
  <2>10. Plain(p)
    BY <1>1, <1>2, <2>2, <2>3, <2>5 DEF Plain
  <2>. QED  BY <2>9, <2>10
<1>. QED  BY <1>3, <1>4
\* The process at its mail server or its row: its notice, and the steps that
\* only change that.
LEMMA SendingSteps ==
    ASSUME MailInv, NEW p \in Processes, MailAccepted(p) \/ MailRefused(p) \/ Record(p)
    PROVE  MailInv'
<1>0. NoticeInv /\ Single /\ Alone /\ NoticeTypes
  BY DEF MailInv, NoticeInv
<1>1. /\ proc[p] \in Process /\ Tidy(proc[p]) /\ Tied(p)
      /\ proc[p].todo \in Seq(Notices) /\ None \notin Notices
      /\ ToSet(proc[p].todo) \subseteq Notices
  BY <1>0, FieldsOf
<1>2. proc[p].at \in {"mail", "accepted", "refused"}
  BY DEF MailAccepted, MailRefused, Record
<1>3. PICK n \in Notices : n = proc[p].cur
  BY <1>1, <1>2 DEF Tidy, Process
<1>4. n \in Load(proc[p]) /\ row[n] # "absent"
  BY <1>1, <1>3 DEF Load, Tied
<1>5. ToSet(proc[p].made) = {} /\ ToSet(proc[p].inner) = {}
  BY <1>1, <1>2 DEF Tidy, ToSet
<1>6. CASE MailAccepted(p) \/ MailRefused(p)
  <2>1. PICK at \in {"accepted", "refused"} :
           /\ proc' = [proc EXCEPT ![p].at = at]
           /\ mails' = IF at = "accepted"
                       THEN [mails EXCEPT ![n] = IF mails[n] < 2 THEN mails[n] + 1 ELSE mails[n]]
                       ELSE mails
    BY <1>0, <1>3, <1>6 DEF MailAccepted, MailRefused, History, NoticeTypes
  <2>2. /\ UNCHANGED <<failedOnly, row, excuse>> /\ proc[p].at = "mail"
    BY <1>6 DEF MailAccepted, MailRefused, Database, History
  <2>3. PICK r : r = [proc[p] EXCEPT !.at = at]
    OBVIOUS
  <2>4. /\ r \in Process /\ r.at = at /\ r.todo = proc[p].todo /\ r.cur = proc[p].cur
        /\ r.made = proc[p].made /\ r.inner = proc[p].inner /\ r.order = proc[p].order
        /\ r.nested = proc[p].nested
    BY <1>1, <2>3 DEF Process, Phases
  <2>5. proc' = [proc EXCEPT ![p] = r]
    BY <1>0, <2>1, <2>3 DEF NoticeTypes
  <2>6. proc'[p] = r /\ \A q \in Processes : q # p => proc'[q] = proc[q]
    BY <1>0, <2>4, <2>5, OneProcess
  <2>7. /\ mails' \in [Notices -> 0 .. 2]
        /\ \A m \in Notices : m # n => mails'[m] = mails[m]
        /\ mails'[n] = IF at = "accepted" /\ mails[n] < 2 THEN mails[n] + 1 ELSE mails[n]
        /\ mails[n] \in 0 .. 2
    BY <1>0, <2>1 DEF NoticeTypes
  <2>8. /\ \A m \in Notices : mails[m] > 0 => mails'[m] > 0
        /\ at = "accepted" => mails'[n] > 0
    BY <1>0, <2>7 DEF NoticeTypes
  <2>9. Load(r) = Load(proc[p]) /\ Tidy(r)
    BY <1>1, <2>2, <2>4 DEF Load, Tidy
  <2>10. Tied(p)'
    BY <1>1, <1>2, <1>3, <1>5, <2>2, <2>4, <2>6, <2>8, <2>9 DEF Tied
  <2>11. Heard'
    BY <1>0, <1>4, <2>2, <2>7, <2>8 DEF NoticeInv, Heard
  <2>12. NoticeInv'
    <3>1. /\ row' \in [Notices -> RowStatus]
          /\ excuse' \in [Notices -> SUBSET {"overlap", "crash"}]
      BY <1>0, <2>2 DEF NoticeTypes
    <3>. QED  BY <1>0, <2>2, <2>4, <2>5, <2>7, <2>8, <2>9, <2>10, <2>11, <3>1, StepOwes
  <2>13. Single'
    <3> SUFFICES ASSUME NEW m \in Notices, excuse[m] = {}
                 PROVE  /\ \A x, q \in Processes : proc'[x].cur = m /\ proc'[q].cur = m => x = q
                        /\ mails'[m] > 0 =>
                              /\ mails'[m] = 1
                              /\ \/ row[m] = "sent" /\ \A q \in Processes : proc'[q].cur # m
                                 \/ \E q \in Processes : proc'[q].cur = m
                                                         /\ proc'[q].at = "accepted"
      BY <2>2 DEF Single
    <3>1. \A q \in Processes : proc'[q].cur = proc[q].cur
      BY <2>4, <2>6
    <3>2. /\ \A x, q \in Processes : proc[x].cur = m /\ proc[q].cur = m => x = q
          /\ mails[m] > 0 =>
                /\ mails[m] = 1
                /\ \/ row[m] = "sent" /\ \A q \in Processes : proc[q].cur # m
                   \/ \E q \in Processes : proc[q].cur = m /\ proc[q].at = "accepted"
      BY <1>0 DEF Single
    <3>3. CASE m # n
      BY <1>3, <2>6, <2>7, <3>1, <3>2, <3>3
    <3>4. CASE m = n
      <4>1. ~(mails[n] > 0)
        BY <1>3, <2>2, <3>2, <3>4
      <4>2. mails[n] = 0
        BY <2>7, <4>1
      <4>. QED  BY <1>3, <2>4, <2>6, <2>7, <3>1, <3>2, <3>4, <4>2
    <3>. QED  BY <3>3, <3>4
  <2>14. Alone'
    BY <1>0, <2>2, <2>4, <2>5, <2>9, LoadShrinks
  <2>. QED  BY <2>12, <2>13, <2>14 DEF MailInv
<1>7. CASE Record(p)
  <2>1. PICK status \in {"sent", "failed"} :
           /\ row' = [row EXCEPT ![n] = status]
           /\ status = "sent" <=> proc[p].at = "accepted"
    BY <1>3, <1>7 DEF Record
  <2>2. UNCHANGED <<failedOnly, mails, excuse>> /\ proc[p].at \in {"accepted", "refused"}
    BY <1>7 DEF Record, History
  <2>3. PICK r : r = [proc[p] EXCEPT !.at = "run", !.cur = None]
    OBVIOUS
  <2>4. /\ r \in Process /\ r.at = "run" /\ r.todo = proc[p].todo /\ r.cur = None
        /\ r.made = proc[p].made /\ r.inner = proc[p].inner /\ r.order = proc[p].order
        /\ r.nested = proc[p].nested
    BY <1>1, <2>3 DEF Process, Phases
  <2>5. proc' = [proc EXCEPT ![p] = r]
    BY <1>0, <1>7, <2>3 DEF Record, NoticeTypes
  <2>6. proc'[p] = r /\ \A q \in Processes : q # p => proc'[q] = proc[q]
    BY <1>0, <2>4, <2>5, OneProcess
  <2>7. /\ row' \in [Notices -> RowStatus] /\ row'[n] = status
        /\ \A m \in Notices : m # n => row'[m] = row[m]
    BY <1>0, <2>1 DEF NoticeTypes, RowStatus
  <2>8. Load(r) = ToSet(proc[p].todo) /\ Load(r) \subseteq Load(proc[p]) /\ Tidy(r)
    BY <1>1, <2>2, <2>4 DEF Load, Tidy
  <2>9. \A m \in Notices : row[m] # "absent" => row'[m] # "absent"
    BY <2>7
  <2>10. Tied(p)'
    BY <1>1, <1>5, <2>4, <2>6, <2>8, <2>9 DEF Tied
  <2>11. status = "sent" => mails[n] > 0
    BY <1>1, <1>3, <2>1 DEF Tied
  <2>12. Heard'
    BY <1>0, <1>4, <2>2, <2>7, <2>9, <2>11 DEF NoticeInv, Heard
  <2>13. ASSUME NEW q \in Processes \ {p}, NEW m \in ToSet(proc[q].made) \cup ToSet(proc[q].inner)
         PROVE  row'[m] = row[m]
    BY <1>0, <1>4, <2>7, <2>13, FieldsOf DEF Tied
  <2>14. NoticeInv'
    <3>1. /\ mails' \in [Notices -> 0 .. 2]
          /\ excuse' \in [Notices -> SUBSET {"overlap", "crash"}]
          /\ mails' = mails
      BY <1>0, <2>2 DEF NoticeTypes
    <3>. QED  BY <1>0, <2>2, <2>4, <2>5, <2>7, <2>8, <2>9, <2>10, <2>12, <2>13, <3>1, StepOwes
  <2>15. Single'
    <3> SUFFICES ASSUME NEW m \in Notices, excuse[m] = {}
                 PROVE  /\ \A x, q \in Processes : proc'[x].cur = m /\ proc'[q].cur = m => x = q
                        /\ mails[m] > 0 =>
                              /\ mails[m] = 1
                              /\ \/ row'[m] = "sent" /\ \A q \in Processes : proc'[q].cur # m
                                 \/ \E q \in Processes : proc'[q].cur = m
                                                         /\ proc'[q].at = "accepted"
      BY <2>2 DEF Single
    <3>1. \A q \in Processes : proc'[q].cur = IF q = p THEN None ELSE proc[q].cur
      BY <2>4, <2>6
    <3>2. /\ \A x, q \in Processes : proc[x].cur = m /\ proc[q].cur = m => x = q
          /\ mails[m] > 0 =>
                /\ mails[m] = 1
                /\ \/ row[m] = "sent" /\ \A q \in Processes : proc[q].cur # m
                   \/ \E q \in Processes : proc[q].cur = m /\ proc[q].at = "accepted"
      BY <1>0 DEF Single
    <3>3. CASE m # n
      BY <1>1, <1>3, <2>6, <2>7, <3>1, <3>2, <3>3
    <3>4. CASE m = n
      <4>1. \A q \in Processes : proc'[q].cur # m
        BY <1>1, <1>3, <3>1, <3>2, <3>4
      <4>2. mails[m] > 0 => proc[p].at = "accepted"
        BY <1>3, <3>2, <3>4
      <4>. QED  BY <2>1, <2>7, <3>2, <3>4, <4>1, <4>2
    <3>. QED  BY <3>3, <3>4
  <2>16. Alone'
    <3> SUFFICES ASSUME Scheduled
                 PROVE  /\ \A m \in Notices : "overlap" \notin excuse[m]
                        /\ \A q \in Web :
                              /\ IsInjective(proc'[q].todo)
                              /\ proc'[q].cur \notin ToSet(proc'[q].todo)
                              /\ \A m \in Load(proc'[q]) :
                                    /\ row'[m] = "pending"
                                    /\ \A x \in Processes \ {q} : m \notin Load(proc'[x])
      BY <2>2 DEF Alone, Scheduled
    <3>1. \A x \in Processes : Load(proc'[x]) \subseteq Load(proc[x]) /\ proc'[x].todo = proc[x].todo
      BY <2>4, <2>6, <2>8
    <3>2. ASSUME NEW q \in Web
          PROVE  /\ IsInjective(proc'[q].todo) /\ proc'[q].cur \notin ToSet(proc'[q].todo)
                 /\ \A m \in Load(proc'[q]) :
                       /\ row'[m] = "pending"
                       /\ \A x \in Processes \ {q} : m \notin Load(proc'[x])
      <4>1. /\ q \in Processes /\ ToSet(proc[q].todo) \subseteq Notices
            /\ Load(proc[q]) \subseteq Notices
        BY <1>0, FieldsOf DEF Processes, Load
      <4>2. /\ IsInjective(proc[q].todo) /\ proc[q].cur \notin ToSet(proc[q].todo)
            /\ \A m \in Load(proc[q]) :
                  /\ row[m] = "pending"
                  /\ \A x \in Processes \ {q} : m \notin Load(proc[x])
        BY <1>0 DEF Alone
      <4>3. proc'[q].cur \notin ToSet(proc'[q].todo)
        BY <1>1, <2>4, <2>6, <3>1, <4>1, <4>2
      <4>4. n \notin Load(proc'[q])
        <5>1. CASE q = p
          BY <1>3, <2>6, <2>8, <4>2, <5>1
        <5>2. CASE q # p
          BY <1>4, <2>6, <4>1, <4>2, <5>2
        <5>. QED  BY <5>1, <5>2
      <4>. QED  BY <2>7, <3>1, <4>1, <4>2, <4>3, <4>4
    <3>. QED  BY <1>0, <3>2 DEF Alone
  <2>. QED  BY <2>14, <2>15, <2>16 DEF MailInv
<1>. QED  BY <1>6, <1>7
\* A dispatch begins: with one scheduled run at a time, never beside another.
LEMMA PickStep ==
    ASSUME MailInv, NEW p \in Processes, Pick(p)
    PROVE  MailInv'
<1>0. NoticeInv /\ Single /\ Alone /\ NoticeTypes
  BY DEF MailInv, NoticeInv
<1>1. /\ proc[p] \in Process /\ Tidy(proc[p]) /\ Tied(p)
      /\ proc[p].todo \in Seq(Notices) /\ None \notin Notices
      /\ ToSet(proc[p].todo) \subseteq Notices
      /\ proc[p].at = "run" /\ proc[p].cur = None /\ proc[p].todo # <<>>
  BY <1>0, FieldsOf DEF Pick, Tidy
<1>2. PICK n \in Notices, rest \in Seq(Notices) :
         n = Head(proc[p].todo) /\ rest = Tail(proc[p].todo)
  BY <1>1, HeldByRest
<1>3. /\ ToSet(proc[p].todo) = ToSet(rest) \cup {n}
      /\ IsInjective(proc[p].todo) => IsInjective(rest) /\ n \notin ToSet(rest)
  BY <1>1, <1>2, HeldByRest
<1>4. ToSet(proc[p].made) = {} /\ ToSet(proc[p].inner) = {}
  BY <1>1 DEF Tidy, ToSet
<1>5. UNCHANGED <<failedOnly, row, mails>>
  BY DEF Pick, Database
<1>6. PICK at \in {"run", "mail"}, cur \in {None, n} :
         /\ proc' = [proc EXCEPT ![p].todo = rest, ![p].at = at, ![p].cur = cur]
         /\ cur = n <=> at = "mail"
         /\ at = "mail" => row[n] # "sent"
         /\ excuse' = IF at = "mail" /\ Dispatching(n, p)
                      THEN [excuse EXCEPT ![n] = @ \cup {"overlap"}] ELSE excuse
  <2>1. CASE row[n] = "sent"
    <3>1. proc' = [proc EXCEPT ![p].todo = rest] /\ excuse' = excuse
      BY <1>2, <2>1 DEF Pick
    <3>2. [proc EXCEPT ![p].todo = rest] =
             [proc EXCEPT ![p].todo = rest, ![p].at = "run", ![p].cur = None]
      <4>1. [proc[p] EXCEPT !.todo = rest] =
               [proc[p] EXCEPT !.todo = rest, !.at = "run", !.cur = None]
        BY <1>1 DEF Process
      <4>. QED  BY <1>0, <4>1 DEF NoticeTypes
    <3>. QED  BY <1>1, <3>1, <3>2
  <2>2. CASE row[n] # "sent"
    BY <1>2, <2>2 DEF Pick
  <2>. QED  BY <2>1, <2>2
<1>7. PICK r : r = [proc[p] EXCEPT !.todo = rest, !.at = at, !.cur = cur]
  OBVIOUS
<1>8. /\ r \in Process /\ r.at = at /\ r.todo = rest /\ r.cur = cur
      /\ r.made = proc[p].made /\ r.inner = proc[p].inner /\ r.order = proc[p].order
      /\ r.nested = proc[p].nested
  BY <1>1, <1>7 DEF Process, Phases
<1>9. proc' = [proc EXCEPT ![p] = r]
  BY <1>0, <1>6, <1>7 DEF NoticeTypes
<1>10. proc'[p] = r /\ \A q \in Processes : q # p => proc'[q] = proc[q]
  BY <1>0, <1>8, <1>9, OneProcess
<1>11. /\ Load(r) = ToSet(rest) \cup ({cur} \cap Notices)
       /\ Load(r) \subseteq Load(proc[p]) /\ n \in Load(proc[p]) /\ Tidy(r)
  BY <1>1, <1>3, <1>6, <1>8 DEF Load, Tidy
<1>12. /\ excuse' \in [Notices -> SUBSET {"overlap", "crash"}]
       /\ \A m \in Notices : m # n => excuse'[m] = excuse[m]
       /\ excuse'[n] = IF at = "mail" /\ Dispatching(n, p) THEN excuse[n] \cup {"overlap"}
                                                           ELSE excuse[n]
  BY <1>0, <1>6 DEF NoticeTypes
<1>13. NoticeInv'
  <2>1. Tied(p)'
    BY <1>1, <1>4, <1>5, <1>8, <1>10, <1>11 DEF Tied
  <2>2. Heard' /\ row' \in [Notices -> RowStatus] /\ mails' \in [Notices -> 0 .. 2]
    BY <1>0, <1>5 DEF NoticeInv, NoticeTypes, Heard
  <2>. QED  BY <1>0, <1>5, <1>8, <1>9, <1>11, <1>12, <2>1, <2>2, StepOwes
<1>14. Single'
  <2> SUFFICES ASSUME NEW m \in Notices, excuse'[m] = {}
               PROVE  /\ \A x, q \in Processes : proc'[x].cur = m /\ proc'[q].cur = m => x = q
                      /\ mails[m] > 0 =>
                            /\ mails[m] = 1
                            /\ \/ row[m] = "sent" /\ \A q \in Processes : proc'[q].cur # m
                               \/ \E q \in Processes : proc'[q].cur = m
                                                       /\ proc'[q].at = "accepted"
    BY <1>5 DEF Single
  <2>1. excuse[m] = {}
    BY <1>12
  <2>2. /\ \A x, q \in Processes : proc[x].cur = m /\ proc[q].cur = m => x = q
        /\ mails[m] > 0 =>
              /\ mails[m] = 1
              /\ \/ row[m] = "sent" /\ \A q \in Processes : proc[q].cur # m
                 \/ \E q \in Processes : proc[q].cur = m /\ proc[q].at = "accepted"
    BY <1>0, <2>1 DEF Single
  <2>3. \A q \in Processes : proc'[q].cur = IF q = p THEN cur ELSE proc[q].cur
    BY <1>8, <1>10
  <2>4. CASE m # cur
    BY <1>1, <1>10, <2>2, <2>3, <2>4
  <2>5. CASE m = cur
    <3>1. at = "mail" /\ m = n /\ row[n] # "sent" /\ ~Dispatching(n, p)
      BY <1>1, <1>6, <1>12, <2>5
    <3>2. \A q \in Processes : q # p => proc[q].cur # n
      BY <3>1 DEF Dispatching
    <3>3. ~(mails[m] > 0)
      BY <1>1, <2>2, <3>1, <3>2
    <3>. QED  BY <2>3, <3>1, <3>2, <3>3
  <2>. QED  BY <2>4, <2>5
<1>15. Alone'
  <2> SUFFICES ASSUME Scheduled
               PROVE  /\ \A m \in Notices : "overlap" \notin excuse'[m]
                      /\ \A q \in Web :
                            /\ IsInjective(proc'[q].todo)
                            /\ proc'[q].cur \notin ToSet(proc'[q].todo)
                            /\ \A m \in Load(proc'[q]) :
                                  /\ row[m] = "pending"
                                  /\ \A x \in Processes \ {q} : m \notin Load(proc'[x])
    BY <1>5 DEF Alone, Scheduled
  <2>1. /\ \A m \in Notices : "overlap" \notin excuse[m]
        /\ \A q \in Web :
              /\ IsInjective(proc[q].todo) /\ proc[q].cur \notin ToSet(proc[q].todo)
              /\ \A m \in Load(proc[q]) :
                    /\ row[m] = "pending"
                    /\ \A x \in Processes \ {q} : m \notin Load(proc[x])
    BY <1>0 DEF Alone
  <2>2. ~Dispatching(n, p)
    <3> SUFFICES ASSUME NEW q \in Processes \ {p}, proc[q].cur = n PROVE FALSE
      BY DEF Dispatching
    <3>1. n \in Load(proc[q])
      BY DEF Load
    <3>2. p \notin Web /\ q \notin Web
      BY <1>11, <2>1, <3>1
    <3>3. PICK c : Cron = {c}
      BY NoticeAssumption, FS_Singleton DEF Scheduled, NoticeAssumption
    <3>. QED  BY <3>2, <3>3 DEF Processes
  <2>3. \A m \in Notices : "overlap" \notin excuse'[m]
    BY <1>12, <2>1, <2>2
  <2>4. \A x \in Processes : Load(proc'[x]) \subseteq Load(proc[x])
    BY <1>10, <1>11
  <2>5. ASSUME NEW q \in Web
        PROVE  IsInjective(proc'[q].todo) /\ proc'[q].cur \notin ToSet(proc'[q].todo)
    <3>1. CASE q = p
      BY <1>1, <1>3, <1>6, <1>8, <1>10, <2>1, <3>1
    <3>2. CASE q # p
      BY <1>10, <2>1, <3>2 DEF Processes
    <3>. QED  BY <3>1, <3>2
  <2>. QED  BY <2>1, <2>3, <2>4, <2>5 DEF Processes
<1>. QED  BY <1>13, <1>14, <1>15 DEF MailInv
\* The rows of a transaction become pending, and its process has them alone.
LEMMA CommitStep ==
    ASSUME MailInv, NEW p \in Web, Commit(p)
    PROVE  MailInv'
<1>0. NoticeInv /\ Single /\ Alone /\ NoticeTypes /\ p \in Processes
  BY DEF MailInv, NoticeInv, Processes
<1>1. /\ proc[p] \in Process /\ Tidy(proc[p]) /\ Tied(p)
      /\ None \notin Notices /\ None \notin OrderIds /\ proc[p].at = "tx"
      /\ proc[p].cur = None
  BY <1>0, FieldsOf DEF Commit, Tidy
<1>2. PICK made \in Seq(Notices) : made = proc[p].made
  BY <1>0, FieldsOf
<1>3. /\ ToSet(made) \subseteq Notices /\ IsInjective(made)
      /\ \A n \in Notices : Contains(made, n) <=> n \in ToSet(made)
      /\ \A n \in ToSet(made) : n[1] = proc[p].order /\ n \in Addressed /\ row[n] = "absent"
  BY <1>1, <1>2, HeldBySequence DEF Tidy, Tied
<1>4. /\ UNCHANGED <<failedOnly, mails, excuse>>
      /\ row' = [n \in Notices |-> IF n \in ToSet(made) THEN "pending" ELSE row[n]]
  BY <1>2, <1>3 DEF Commit, History
<1>5. PICK r : r = [Resting EXCEPT !.at = "run", !.todo = made]
  OBVIOUS
<1>6. /\ r \in Process /\ r.at = "run" /\ r.todo = made /\ r.cur = None /\ ~r.nested
      /\ r.made = <<>> /\ r.inner = <<>> /\ r.order = None
  BY <1>5, Rests DEF Process, Resting, Phases
<1>7. proc' = [proc EXCEPT ![p] = r]
  BY <1>2, <1>5 DEF Commit
<1>8. proc'[p] = r /\ \A q \in Processes : q # p => proc'[q] = proc[q]
  BY <1>0, <1>6, <1>7, OneProcess
<1>9. ToSet(<<>>) = {} /\ IsInjective(<<>>)
  BY DEF ToSet, IsInjective
<1>10. Load(r) = ToSet(made) /\ Tidy(r)
  BY <1>1, <1>6, <1>9 DEF Load, Tidy
<1>11. /\ row' \in [Notices -> RowStatus]
       /\ \A n \in ToSet(made) : row'[n] = "pending"
       /\ \A n \in Notices : n \notin ToSet(made) => row'[n] = row[n]
       /\ \A n \in Notices : row[n] # "absent" => row'[n] = row[n]
  BY <1>0, <1>3, <1>4 DEF NoticeTypes, RowStatus
<1>12. NoticeInv'
  <2>1. Tied(p)'
    BY <1>0, <1>6, <1>8, <1>9, <1>10, <1>11 DEF Tied
  <2>2. Heard'
    BY <1>0, <1>3, <1>4, <1>11 DEF NoticeInv, Heard
  <2>3. ASSUME NEW q \in Processes \ {p},
               NEW n \in ToSet(proc[q].made) \cup ToSet(proc[q].inner)
        PROVE  row'[n] = row[n]
    <3>1. /\ Tidy(proc[q]) /\ Tied(q) /\ n \in Notices /\ n[1] = proc[q].order
      BY <1>0, FieldsOf DEF Tied
    <3>2. q \in Web
      BY <1>9, <3>1 DEF Tidy, Tied
    <3>3. n[1] \in OrderIds
      BY <3>1, NoticeAssumption DEF Notices, NoticeAssumption
    <3>4. n \notin ToSet(made)
      BY <1>0, <1>1, <1>3, <3>1, <3>2, <3>3 DEF NoticeInv, Locked
    <3>. QED  BY <1>11, <3>1, <3>4
  <2>4. /\ mails' \in [Notices -> 0 .. 2]
        /\ excuse' \in [Notices -> SUBSET {"overlap", "crash"}] /\ mails' = mails
        /\ \A n \in Notices : row[n] # "absent" => row'[n] # "absent"
    BY <1>0, <1>4, <1>11 DEF NoticeTypes
  <2>. QED  BY <1>0, <1>4, <1>6, <1>7, <1>10, <1>11, <2>1, <2>2, <2>3, <2>4, StepOwes
<1>13. Single'
  <2>1. \A q \in Processes : /\ proc'[q].cur = proc[q].cur
                             /\ proc[q].at = "accepted" => proc'[q].at = "accepted"
    BY <1>1, <1>6, <1>8
  <2>2. \A n \in Notices : row[n] = "sent" => row'[n] = "sent"
    BY <1>11
  <2>. QED  BY <1>0, <1>4, <2>1, <2>2 DEF Single
<1>14. Alone'
  <2> SUFFICES ASSUME Scheduled
               PROVE  /\ \A n \in Notices : "overlap" \notin excuse[n]
                      /\ \A q \in Web :
                            /\ IsInjective(proc'[q].todo)
                            /\ proc'[q].cur \notin ToSet(proc'[q].todo)
                            /\ \A n \in Load(proc'[q]) :
                                  /\ row'[n] = "pending"
                                  /\ \A x \in Processes \ {q} : n \notin Load(proc'[x])
    BY <1>4 DEF Alone, Scheduled
  <2>1. /\ \A n \in Notices : "overlap" \notin excuse[n]
        /\ \A q \in Web :
              /\ IsInjective(proc[q].todo) /\ proc[q].cur \notin ToSet(proc[q].todo)
              /\ \A n \in Load(proc[q]) :
                    /\ row[n] = "pending"
                    /\ \A x \in Processes \ {q} : n \notin Load(proc[x])
    BY <1>0 DEF Alone
  <2>2. \A q \in Processes : Load(proc[q]) \subseteq Notices
                             /\ \A n \in Load(proc[q]) : row[n] # "absent"
    BY <1>0, FieldsOf DEF Load, Tied
  <2>3. ASSUME NEW q \in Web
        PROVE  /\ IsInjective(proc'[q].todo) /\ proc'[q].cur \notin ToSet(proc'[q].todo)
               /\ \A n \in Load(proc'[q]) :
                     /\ row'[n] = "pending"
                     /\ \A x \in Processes \ {q} : n \notin Load(proc'[x])
    <3>1. CASE q = p
      BY <1>1, <1>3, <1>6, <1>8, <1>10, <1>11, <2>2, <3>1
    <3>2. CASE q # p
      <4>1. proc'[q] = proc[q] /\ q \in Processes
        BY <1>8, <3>2 DEF Processes
      <4>2. \A n \in Load(proc[q]) : row'[n] = "pending" /\ n \notin ToSet(made)
        BY <1>3, <1>11, <2>1, <2>2, <4>1
      <4>. QED  BY <1>8, <1>10, <2>1, <4>1, <4>2
    <3>. QED  BY <3>1, <3>2
  <2>. QED  BY <2>1, <2>3
<1>. QED  BY <1>12, <1>13, <1>14 DEF MailInv

\* The command reads its rows: under --failed-only none that a request has.
LEMMA RetryStep ==
    ASSUME MailInv, NEW c \in Cron, Retry(c)
    PROVE  MailInv'
<1>0. NoticeInv /\ Single /\ Alone /\ NoticeTypes /\ c \in Processes /\ c \notin Web
  BY NoticeAssumption DEF MailInv, NoticeInv, Processes, NoticeAssumption
<1>1. PICK rows \in SeqOf(Unsent, Limit) :
         proc' = [proc EXCEPT ![c] = [Resting EXCEPT !.at = "run", !.todo = rows]]
  BY DEF Retry
<1>2. rows \in Seq(Notices) /\ ToSet(rows) \subseteq Unsent
  <2>1. PICK m \in 0 .. Limit : rows \in [1 .. m -> Unsent]
    BY <1>1 DEF SeqOf
  <2>2. Unsent \subseteq Notices /\ m \in Nat
    BY NoticeAssumption DEF Unsent, Notices, NoticeAssumption
  <2>3. rows \in [1 .. m -> Notices]
    BY <2>1, <2>2
  <2>. QED  BY <2>1, <2>2, <2>3 DEF ToSet
<1>3. /\ UNCHANGED <<failedOnly, row, mails, excuse>> /\ proc[c].at = "idle"
  BY DEF Retry, Database, History
<1>4. PICK r : r = [Resting EXCEPT !.at = "run", !.todo = rows]
  OBVIOUS
<1>5. /\ r \in Process /\ r.at = "run" /\ r.todo = rows /\ r.cur = None /\ ~r.nested
      /\ r.made = <<>> /\ r.inner = <<>> /\ r.order = None
  BY <1>2, <1>4, Rests DEF Process, Resting, Phases
<1>6. proc' = [proc EXCEPT ![c] = r]
  BY <1>1, <1>4
<1>7. proc'[c] = r /\ \A q \in Processes : q # c => proc'[q] = proc[q]
  BY <1>0, <1>5, <1>6, OneProcess
<1>8. ToSet(<<>>) = {} /\ IsInjective(<<>>) /\ None \notin Notices
  BY NoticeAssumption DEF ToSet, IsInjective, NoticeAssumption
<1>9. Load(r) = ToSet(rows) /\ Tidy(r)
  BY <1>5, <1>8 DEF Load, Tidy
<1>10. proc[c].cur = None
  BY <1>0, <1>3, FieldsOf DEF Tidy
<1>11. NoticeInv'
  <2>1. \A n \in ToSet(rows) : row[n] # "absent"
    BY <1>2 DEF Unsent, Committed
  <2>2. Tied(c)'
    BY <1>3, <1>5, <1>7, <1>8, <1>9, <2>1 DEF Tied
  <2>3. /\ Heard' /\ row' \in [Notices -> RowStatus] /\ mails' \in [Notices -> 0 .. 2]
        /\ excuse' \in [Notices -> SUBSET {"overlap", "crash"}]
    BY <1>0, <1>3 DEF NoticeInv, NoticeTypes, Heard
  <2>. QED  BY <1>0, <1>3, <1>5, <1>6, <1>9, <2>2, <2>3, StepOwes
<1>12. Single'
  <2>1. \A q \in Processes : /\ proc'[q].cur = proc[q].cur
                             /\ proc[q].at = "accepted" => proc'[q].at = "accepted"
    BY <1>3, <1>5, <1>7, <1>10
  <2>. QED  BY <1>0, <1>3, <2>1 DEF Single
<1>13. Alone'
  <2> SUFFICES ASSUME Scheduled, NEW q \in Web
               PROVE  /\ IsInjective(proc'[q].todo) /\ proc'[q].cur \notin ToSet(proc'[q].todo)
                      /\ \A n \in Load(proc'[q]) :
                            /\ row[n] = "pending"
                            /\ \A x \in Processes \ {q} : n \notin Load(proc'[x])
    BY <1>0, <1>3 DEF Alone, Scheduled
  <2>1. proc'[q] = proc[q]
    BY <1>0, <1>7 DEF Processes
  <2>2. \A n \in ToSet(rows) : row[n] = "failed"
    BY <1>2 DEF Unsent, Scheduled
  <2>3. /\ IsInjective(proc[q].todo) /\ proc[q].cur \notin ToSet(proc[q].todo)
        /\ \A n \in Load(proc[q]) :
              /\ row[n] = "pending"
              /\ \A x \in Processes \ {q} : n \notin Load(proc[x])
    BY <1>0 DEF Alone
  <2>. QED  BY <1>7, <1>9, <2>1, <2>2, <2>3
<1>. QED  BY <1>11, <1>12, <1>13 DEF MailInv

\* A process dies: between the mail and its row, that is an excuse.
LEMMA CrashStep ==
    ASSUME MailInv, NEW p \in Processes, Crash(p)
    PROVE  MailInv'
<1>0. NoticeInv /\ Single /\ Alone /\ NoticeTypes
  BY DEF MailInv, NoticeInv
<1>1. Tidy(proc[p]) /\ proc[p].cur \in Notices \cup {None} /\ None \notin Notices
  BY <1>0, FieldsOf
<1>2. /\ proc' = [proc EXCEPT ![p] = Resting] /\ UNCHANGED <<failedOnly, row, mails>>
      /\ excuse' = IF proc[p].at = "accepted"
                   THEN [excuse EXCEPT ![proc[p].cur] = @ \cup {"crash"}] ELSE excuse
  BY DEF Crash, Database
<1>3. /\ excuse' \in [Notices -> SUBSET {"overlap", "crash"}]
      /\ \A n \in Notices : excuse'[n] = IF proc[p].at = "accepted" /\ n = proc[p].cur
                                         THEN excuse[n] \cup {"crash"} ELSE excuse[n]
  BY <1>0, <1>1, <1>2 DEF NoticeTypes, Tidy
<1>4. NoticeInv'
  BY <1>0, <1>2, <1>3, Resets
<1>5. proc'[p] = Resting /\ \A q \in Processes : q # p => proc'[q] = proc[q]
  BY <1>0, <1>2, Rests, OneProcess
<1>6. Single'
  <2> SUFFICES ASSUME NEW n \in Notices, excuse'[n] = {}
               PROVE  /\ \A x, q \in Processes : proc'[x].cur = n /\ proc'[q].cur = n => x = q
                      /\ mails[n] > 0 =>
                            /\ mails[n] = 1
                            /\ \/ row[n] = "sent" /\ \A q \in Processes : proc'[q].cur # n
                               \/ \E q \in Processes : proc'[q].cur = n
                                                       /\ proc'[q].at = "accepted"
    BY <1>2 DEF Single
  <2>1. excuse[n] = {} /\ ~(proc[p].at = "accepted" /\ n = proc[p].cur)
    BY <1>3
  <2>2. /\ \A x, q \in Processes : proc[x].cur = n /\ proc[q].cur = n => x = q
        /\ mails[n] > 0 =>
              /\ mails[n] = 1
              /\ \/ row[n] = "sent" /\ \A q \in Processes : proc[q].cur # n
                 \/ \E q \in Processes : proc[q].cur = n /\ proc[q].at = "accepted"
    BY <1>0, <2>1 DEF Single
  <2>. QED  BY <1>1, <1>5, <2>1, <2>2, Rests
<1>7. Alone'
  <2>1. \A n \in Notices : "overlap" \in excuse'[n] => "overlap" \in excuse[n]
    BY <1>3
  <2>. QED  BY <1>0, <1>2, <2>1, Rests, LoadShrinks
<1>. QED  BY <1>4, <1>6, <1>7 DEF MailInv

\* Every step keeps MailInv.
LEMMA MailInvariance == Spec => []MailInv
<1>1. Init => MailInv
  <2> SUFFICES ASSUME Init PROVE MailInv
    OBVIOUS
  <2>1. /\ NoticeTypes /\ \A p \in Processes : proc[p] = Resting
        /\ \A n \in Notices : row[n] = "absent" /\ mails[n] = 0 /\ excuse[n] = {}
    BY Rests DEF Init, NoticeTypes, RowStatus
  <2>2. Locked /\ Heard
    BY <2>1, Rests DEF Locked, Heard, Processes
  <2>3. \A p \in Processes : Tidy(proc[p]) /\ Tied(p)
    BY <2>1, Rests DEF Tied
  <2>4. Single
    BY <2>1, Rests, NoticeAssumption DEF Single, NoticeAssumption
  <2>5. Alone
    BY <2>1, Rests DEF Alone, Processes, IsInjective, ToSet
  <2>. QED  BY <2>1, <2>2, <2>3, <2>4, <2>5 DEF MailInv, NoticeInv
<1>2. MailInv /\ [Next]_vars => MailInv'
  <2> SUFFICES ASSUME MailInv, [Next]_vars PROVE MailInv'
    OBVIOUS
  <2>0. NoticeInv /\ Single /\ Alone /\ NoticeTypes
    BY DEF MailInv, NoticeInv
  <2>1. ASSUME NEW p \in Processes, NoticeInv', Plain(p)
        PROVE  MailInv'
    BY <2>0, <2>1, PlainSingle, PlainAlone DEF MailInv
  <2>2. ASSUME NEW p \in Web, NEW o \in OrderIds, Begin(p, o)
        PROVE  MailInv'
    BY <2>0, <2>1, <2>2, OpeningAndClosing DEF Processes
  <2>3. ASSUME NEW p \in Web, NEW n \in Notices, Schedule(p, n) \/ ScheduleRefund(p, n)
        PROVE  MailInv'
    BY <2>0, <2>1, <2>3, TransactionSteps DEF Schedule, ScheduleRefund, Processes
  <2>4. ASSUME NEW p \in Web, Savepoint(p) \/ Release(p) \/ RollbackTo(p) \/ Abort(p)
        PROVE  MailInv'
    BY <2>0, <2>1, <2>4, TransactionSteps, OpeningAndClosing DEF Processes
  <2>5. ASSUME NEW p \in Web, Commit(p)
        PROVE  MailInv'
    BY <2>5, CommitStep
  <2>6. ASSUME NEW p \in Processes, Dispatch(p) \/ DispatchRefund(p)
        PROVE  MailInv'
    BY <2>6, SendingSteps DEF Dispatch, DispatchRefund
  <2>7. ASSUME NEW p \in Processes, Finish(p)
        PROVE  MailInv'
    BY <2>0, <2>1, <2>7, OpeningAndClosing
  <2>8. CASE UNCHANGED vars
    <3>1. NoticeInv'
      BY <2>0, <2>8 DEF vars, NoticeInv, NoticeTypes, Locked, Heard, Tied
    <3>2. Single' /\ Alone'
      BY <2>0, <2>8 DEF vars, Single, Alone, Scheduled
    <3>. QED  BY <3>1, <3>2 DEF MailInv
  <2>. QED  BY <2>2, <2>3, <2>4, <2>5, <2>6, <2>7, <2>8, PickStep, RetryStep, CrashStep
            DEF Next
<1>. QED  BY <1>1, <1>2, PTL DEF Spec

\* The customer hears only of events that were committed, and a second time of
\* one only if two dispatches of it overlapped or a sender died before it wrote
\* "sent"; with --failed-only and one scheduler none overlap.  For any number
\* of orders, notices, requests and crashes, and any limit of the command.
THEOREM RepeatsExcused == Spec => []RepeatNeedsExcuse
<1>1. MailInv => RepeatNeedsExcuse
  <2> SUFFICES ASSUME MailInv, NEW n \in Notices
               PROVE  /\ mails[n] > 0 => Committed(n) /\ n \in Addressed
                      /\ mails[n] > 1 => excuse[n] # {}
                      /\ (failedOnly /\ Cardinality(Cron) = 1) => "overlap" \notin excuse[n]
                      /\ (row[n] = "sent" => mails[n] > 0)
    BY DEF RepeatNeedsExcuse
  <2>1. NoticeTypes /\ Heard /\ Single /\ Alone
    BY DEF MailInv, NoticeInv
  <2>2. mails[n] > 0 => Committed(n) /\ n \in Addressed
    BY <2>1 DEF Heard, Committed
  <2>3. mails[n] > 1 => excuse[n] # {}
    BY <2>1 DEF Single, NoticeTypes
  <2>. QED  BY <2>1, <2>2, <2>3 DEF Alone, Scheduled, Heard
<1>. QED  BY <1>1, MailInvariance, PTL
===============================================================================
