---------------------------- MODULE Payments_proofs ----------------------------
(***************************************************************************)
(* Proofs about orders, payments and receipts: about OrderLifecycle,       *)
(* Payments and Receipts, for every set of orders, payments and variants,  *)
(* every supply and quantity limit and both kinds of deduplication keys.   *)
(*                                                                         *)
(* Orders.  RowInv says, per order row, which columns go with which        *)
(* status.  Each action changes one row, so it is enough that the row it   *)
(* writes satisfies RowInv (one lemma per action); the invariants and the  *)
(* action properties are read off RowInv.                                  *)
(*                                                                         *)
(* Payments.  The payment steps use the transitions of OrderLifecycle, so  *)
(* its IInv holds here too.  PInv ties the payments to their orders; the   *)
(* paid transition is the only step that sets consumed, and only Fulfil    *)
(* takes it, for a payment whose order has no other commercial payment.    *)
(***************************************************************************)
EXTENDS Receipts, Sums, FiniteSetTheorems


\* Which columns go with which status.
RowInv(r) ==
    /\ r.status = "cart" => /\ ~r.snapshot /\ ~r.reserved /\ ~r.released
                            /\ ~r.consumed /\ ~r.complete /\ r.stamps = {}
    /\ r.status \in Payable =>
          /\ r.snapshot /\ ~r.released /\ ~r.consumed /\ ~r.complete
          /\ r.stamps = {}
    /\ r.status \in {"cancelled", "expired"} =>
          ~r.consumed /\ r.complete /\ (r.reserved => r.released)
    /\ r.status \in Fulfilled => r.consumed
    /\ r.consumed => /\ ~r.released /\ "paid_at" \in r.stamps
                     /\ "cancelled_at" \notin r.stamps /\ "expired_at" \notin r.stamps
                     /\ r.status \in Fulfilled \cup (Refunding \ {"refund_required"})
    /\ ~r.consumed => r.stamps \cap {"paid_at", "preparation_started_at",
                                     "shipped_at", "delivered_at"} = {}
    /\ r.status \in {"preparing", "shipped", "delivered"} =>
          "preparation_started_at" \in r.stamps
    /\ r.status \in {"shipped", "delivered"} => "shipped_at" \in r.stamps
    /\ r.status \in {"refund_pending", "refunded", "refund_failed"} =>
          "refund_requested_at" \in r.stamps
    /\ "delivered_at" \in r.stamps => "shipped_at" \in r.stamps
    /\ "shipped_at" \in r.stamps => "preparation_started_at" \in r.stamps
    /\ "refunded_at" \in r.stamps => "refund_requested_at" \in r.stamps

IInv == TypeOK /\ \A o \in Orders : RowInv(orders[o])

-------------------------------------------------------------------------------
(* Tables and rows *)

\* The status table names statuses only, and the dates only date columns.
LEMMA TablesType ==
    /\ ALLOWED_ORDER_TRANSITIONS \in [Status -> SUBSET Status]
    /\ StampOf \in [Status -> SUBSET Stamps]
  BY DEF ALLOWED_ORDER_TRANSITIONS, StampOf, Stamps, Status, Payable, Fulfilled,
         Refunding

\* Cart rows and legacy rows are rows in good order.
LEMMA InitialRows ==
    /\ Cart \in Order /\ LegacyPending \in Order
    /\ RowInv(Cart) /\ RowInv(LegacyPending)
<1>1. NoLines \in Lines /\ LegacyLines \in Lines
  BY ConstantsAssumption DEF ConstantsAssumption, NoLines, Lines
<1>2. "cart" \in Status /\ "pending_payment" \in Status
  BY DEF Status, Payable
<1>3. Cart \in Order
  BY <1>1, <1>2 DEF Cart, Order
<1>4. LegacyPending \in Order
  BY <1>1, <1>2, <1>3 DEF LegacyPending, Cart, Order
<1>5. RowInv(Cart)
  BY DEF RowInv, Cart, Payable, Fulfilled
<1>6. RowInv(LegacyPending)
  BY DEF RowInv, LegacyPending, Cart, Payable, Fulfilled
<1>. QED  BY <1>3, <1>4, <1>5, <1>6

\* Entered changes the status, its date and complete, and nothing else.
LEMMA EnteredRow ==
    ASSUME NEW r \in Order, NEW t \in Status
    PROVE  /\ Entered(r, t) \in Order
           /\ Entered(r, t).status = t
           /\ Entered(r, t).stamps = r.stamps \cup StampOf[t]
           /\ Entered(r, t).complete = (r.complete \/ t \in {"paid", "cancelled", "expired"})
           /\ Entered(r, t).lines = r.lines
           /\ Entered(r, t).snapshot = r.snapshot
           /\ Entered(r, t).reserved = r.reserved
           /\ Entered(r, t).released = r.released
           /\ Entered(r, t).consumed = r.consumed
  BY TablesType DEF Entered, Order
-------------------------------------------------------------------------------
(* One step of one order *)

\* The units of order o move between shelf, hold and sale only, but for a line
\* that a deletion takes away.
Conserves(o) ==
    \A v \in Variants :
        /\ stock'[v] >= 0
        /\ stock'[v] + Held(orders'[o], v) + Sold(orders'[o], v)
                     + stranded'[v] + unlisted'[v]
               = stock[v] + Held(orders[o], v) + Sold(orders[o], v)
                     + stranded[v] + unlisted[v]
        /\ sales'[v] - Sold(orders'[o], v) - unlisted'[v]
               = sales[v] - Sold(orders[o], v) - unlisted[v]
        /\ stranded'[v] + unlisted'[v] # stranded[v] + unlisted[v] =>
              <<o, v>> \in deleting \ deleting'

\* Order o keeps what is frozen, but for the lines whose deletion was checked
\* before, and does not come back to an earlier phase.
Forward(o) ==
    /\ orders[o].snapshot =>
          /\ orders'[o].snapshot
          /\ \A v \in Variants :
                /\ <<o, v>> \in deleting' => <<o, v>> \in deleting
                /\ \/ orders'[o].lines[v] = orders[o].lines[v]
                   \/ orders'[o].lines[v] = 0 /\ <<o, v>> \in deleting \ deleting'
    /\ orders[o].status # "cart" => orders'[o].status # "cart"
    /\ orders[o].complete => orders'[o].status \notin {"cart"} \cup Payable

\* A step that writes the row of o only, and writes it well.
RowStep(o) ==
    /\ TypeOK'
    /\ \A x \in Orders \ {o} : orders'[x] = orders[x]
    /\ \A x \in Orders \ {o}, v \in Variants :
          <<x, v>> \in deleting' => <<x, v>> \in deleting
    /\ RowInv(orders'[o])
    /\ Conserves(o)
    /\ Forward(o)

\* Enter writes one row, of an allowed status.
LEMMA EnterStep ==
    ASSUME TypeOK, NEW o \in Orders, NEW target, NEW actor, NEW r \in Order,
           Enter(o, target, actor, r)
    PROVE  /\ target \in Status
           /\ target \in ALLOWED_ORDER_TRANSITIONS[orders[o].status]
           /\ orders' \in [Orders -> Order]
           /\ orders'[o] = Entered(r, target)
           /\ \A x \in Orders \ {o} : orders'[x] = orders[x]
<1>1. orders[o] \in Order /\ orders[o].status \in Status
  BY DEF TypeOK, Order
<1>2. target \in Status
  BY <1>1, TablesType DEF Enter
<1>3. Entered(r, target) \in Order
  BY <1>2, EnteredRow
<1>. QED  BY <1>1, <1>2, <1>3 DEF Enter, TypeOK

\* Editing a cart line touches no stock and no frozen order.
LEMMA EditCartStep ==
    ASSUME IInv, NEW o \in Orders, NEW v \in Variants, NEW q \in 0 .. MaxQuantity,
           EditCart(o, v, q)
    PROVE  RowStep(o)
<1>1. orders[o] \in Order /\ RowInv(orders[o]) /\ orders \in [Orders -> Order]
  BY DEF IInv, TypeOK
<1>2. orders' = [orders EXCEPT ![o] = [orders[o] EXCEPT !.lines = [orders[o].lines EXCEPT ![v] = q]]]
  BY <1>1 DEF EditCart, Order
<1>3. [orders[o].lines EXCEPT ![v] = q] \in Lines
  BY <1>1 DEF Order, Lines
<1>4. [orders[o] EXCEPT !.lines = [orders[o].lines EXCEPT ![v] = q]] \in Order
  BY <1>1, <1>3 DEF Order
<1>5. TypeOK'
  <2>1. orders' \in [Orders -> Order]
    BY <1>1, <1>2, <1>4
  <2>2. deleting' \subseteq Orders \X Variants
    BY DEF IInv, TypeOK, EditCart
  <2>. QED  BY <2>1, <2>2 DEF IInv, TypeOK, EditCart
<1>6. /\ orders'[o] = [orders[o] EXCEPT !.lines = [orders[o].lines EXCEPT ![v] = q]]
      /\ \A x \in Orders \ {o} : orders'[x] = orders[x]
  BY <1>1, <1>2
<1>7. /\ orders'[o].status = orders[o].status
      /\ orders'[o].snapshot = orders[o].snapshot
      /\ orders'[o].reserved = orders[o].reserved
      /\ orders'[o].released = orders[o].released
      /\ orders'[o].consumed = orders[o].consumed
      /\ orders'[o].complete = orders[o].complete
      /\ orders'[o].stamps = orders[o].stamps
  BY <1>1, <1>6 DEF Order
<1>8. RowInv(orders'[o])
  BY <1>1, <1>7 DEF RowInv
<1>9. /\ ~orders[o].consumed /\ ~orders[o].snapshot
      /\ orders[o].reserved => orders[o].released
      /\ orders[o].status \in {"cart", "cancelled"}
  <2>1. orders[o].status \in {"cart", "cancelled"} /\ ~orders[o].snapshot
    BY DEF EditCart
  <2>2. CASE orders[o].status = "cart"
    BY <1>1, <2>1, <2>2 DEF RowInv
  <2>3. CASE orders[o].status = "cancelled"
    BY <1>1, <2>1, <2>3 DEF RowInv
  <2>. QED  BY <2>1, <2>2, <2>3
<1>10. Conserves(o) /\ Forward(o)
  <2>1. \A v1 \in Variants : Held(orders[o], v1) = 0 /\ Sold(orders[o], v1) = 0
    BY <1>9 DEF Held, Sold, Backed
  <2>2. \A v1 \in Variants : Held(orders'[o], v1) = 0 /\ Sold(orders'[o], v1) = 0
    BY <1>7, <1>9 DEF Held, Sold, Backed
  <2>3. Conserves(o)
    BY <2>1, <2>2 DEF Conserves, EditCart, IInv, TypeOK
  <2>4. orders[o].status = "cart" => ~orders[o].complete
    BY <1>1 DEF RowInv
  <2>5. Forward(o)
    BY <1>7, <1>9, <2>4 DEF Forward, Payable
  <2>. QED  BY <2>3, <2>5
<1>11. deleting' \subseteq deleting
  BY DEF EditCart
<1>. QED  BY <1>5, <1>6, <1>8, <1>10, <1>11 DEF RowStep

\* A deletion request checks lines of an order that is not frozen only.
LEMMA DestroyCheckStep ==
    ASSUME IInv, NEW o \in Orders, NEW v \in Variants, DestroyCheck(o, v)
    PROVE  RowStep(o)
<1>1. orders[o] \in Order /\ RowInv(orders[o])
  BY DEF IInv, TypeOK
<1>2. TypeOK'
  BY DEF IInv, TypeOK, DestroyCheck
<1>3. /\ orders' = orders /\ stock' = stock /\ sales' = sales
      /\ stranded' = stranded /\ unlisted' = unlisted
      /\ deleting' = deleting \cup {<<o, v>>} /\ ~orders[o].snapshot
  BY DEF DestroyCheck
<1>4. Conserves(o)
  BY <1>3 DEF Conserves, IInv, TypeOK, Held, Sold, Backed
<1>5. Forward(o)
  BY <1>1, <1>3 DEF Forward, RowInv
<1>6. \A x \in Orders \ {o}, w \in Variants :
          <<x, w>> \in deleting' => <<x, w>> \in deleting
  BY <1>3
<1>. QED  BY <1>1, <1>2, <1>3, <1>4, <1>5, <1>6 DEF RowStep

\* A deletion takes its line away, whatever became of the order; the units the
\* line held or had sold are written off.
LEMMA DestroyStep ==
    ASSUME IInv, NEW o \in Orders, NEW v \in Variants, Destroy(o, v)
    PROVE  RowStep(o)
<1>1. orders[o] \in Order /\ RowInv(orders[o]) /\ orders \in [Orders -> Order]
  BY DEF IInv, TypeOK
<1>2. orders' = [orders EXCEPT ![o] = [orders[o] EXCEPT !.lines = [orders[o].lines EXCEPT ![v] = 0]]]
  BY <1>1 DEF Destroy, Order
<1>3. \A w \in Variants : orders[o].lines[w] \in Nat
  BY <1>1, ConstantsAssumption DEF ConstantsAssumption, Order, Lines
<1>4. [orders[o].lines EXCEPT ![v] = 0] \in Lines
  BY <1>1, ConstantsAssumption DEF ConstantsAssumption, Order, Lines
<1>5. orders' \in [Orders -> Order]
  <2>1. [orders[o] EXCEPT !.lines = [orders[o].lines EXCEPT ![v] = 0]] \in Order
    BY <1>1, <1>4 DEF Order
  <2>. QED  BY <1>1, <1>2, <2>1
<1>6. /\ \A x \in Orders \ {o} : orders'[x] = orders[x]
      /\ orders'[o].lines = [orders[o].lines EXCEPT ![v] = 0]
      /\ orders'[o].status = orders[o].status
      /\ orders'[o].snapshot = orders[o].snapshot
      /\ orders'[o].reserved = orders[o].reserved
      /\ orders'[o].released = orders[o].released
      /\ orders'[o].consumed = orders[o].consumed
      /\ orders'[o].complete = orders[o].complete
      /\ orders'[o].stamps = orders[o].stamps
  BY <1>1, <1>2 DEF Order
<1>7. /\ orders'[o].lines[v] = 0
      /\ \A w \in Variants \ {v} : orders'[o].lines[w] = orders[o].lines[w]
  BY <1>1, <1>6 DEF Order, Lines
<1>8. /\ Held(orders[o], v) \in Nat /\ Sold(orders[o], v) \in Nat
      /\ Held(orders'[o], v) = 0 /\ Sold(orders'[o], v) = 0
      /\ \A w \in Variants \ {v} : /\ Held(orders'[o], w) = Held(orders[o], w)
                                  /\ Sold(orders'[o], w) = Sold(orders[o], w)
  BY <1>3, <1>6, <1>7 DEF Held, Sold, Backed
<1>9. /\ stranded'[v] = stranded[v] + Held(orders[o], v)
      /\ unlisted'[v] = unlisted[v] + Sold(orders[o], v)
      /\ \A w \in Variants \ {v} : stranded'[w] = stranded[w] /\ unlisted'[w] = unlisted[w]
      /\ stock' = stock /\ sales' = sales
      /\ <<o, v>> \in deleting /\ deleting' = deleting \ {<<o, v>>}
  BY DEF Destroy, IInv, TypeOK
<1>10. stranded' \in [Variants -> Nat] /\ unlisted' \in [Variants -> Nat]
  <2>1. Held(orders[o], v) \in Nat /\ Sold(orders[o], v) \in Nat
    BY <1>8
  <2>2. stranded[v] + Held(orders[o], v) \in Nat /\ unlisted[v] + Sold(orders[o], v) \in Nat
    BY <2>1 DEF IInv, TypeOK
  <2>. QED  BY <2>2 DEF Destroy, IInv, TypeOK
<1>11. TypeOK'
  BY <1>5, <1>9, <1>10 DEF IInv, TypeOK, Destroy
<1>12. RowInv(orders'[o])
  BY <1>1, <1>6 DEF RowInv
<1>13. Conserves(o)
  <2> SUFFICES ASSUME NEW w \in Variants
               PROVE  /\ stock'[w] >= 0
                      /\ stock'[w] + Held(orders'[o], w) + Sold(orders'[o], w)
                                   + stranded'[w] + unlisted'[w]
                             = stock[w] + Held(orders[o], w) + Sold(orders[o], w)
                                   + stranded[w] + unlisted[w]
                      /\ sales'[w] - Sold(orders'[o], w) - unlisted'[w]
                             = sales[w] - Sold(orders[o], w) - unlisted[w]
                      /\ stranded'[w] + unlisted'[w] # stranded[w] + unlisted[w] =>
                            <<o, w>> \in deleting \ deleting'
    BY DEF Conserves
  <2>1. stock[w] \in Nat /\ sales[w] \in Nat /\ stranded[w] \in Nat /\ unlisted[w] \in Nat
    BY DEF IInv, TypeOK
  <2>2. CASE w = v
    BY <1>8, <1>9, <2>1, <2>2
  <2>3. CASE w # v
    BY <1>8, <1>9, <2>1, <2>3
  <2>. QED  BY <2>2, <2>3
<1>14. Forward(o)
  <2>1. orders[o].status = "cart" => ~orders[o].complete
    BY <1>1 DEF RowInv
  <2>2. orders[o].complete => orders[o].status \notin Payable
    BY <1>1 DEF RowInv
  <2>3. \A w \in Variants :
           /\ <<o, w>> \in deleting' => <<o, w>> \in deleting
           /\ \/ orders'[o].lines[w] = orders[o].lines[w]
              \/ orders'[o].lines[w] = 0 /\ <<o, w>> \in deleting \ deleting'
    BY <1>7, <1>9
  <2>. QED  BY <1>6, <2>1, <2>2, <2>3 DEF Forward
<1>. QED  BY <1>6, <1>9, <1>11, <1>12, <1>13, <1>14 DEF RowStep

\* The targets with no stock effect.
Quiet == {"payment_processing", "payment_failed", "preparing", "shipped",
          "delivered"} \cup Refunding

\* A quiet transition the table allows keeps the row in good order.
LEMMA QuietRow ==
    ASSUME NEW r \in Order, RowInv(r), NEW t \in Quiet,
           t \in ALLOWED_ORDER_TRANSITIONS[r.status],
           t = "preparing" => r.consumed
    PROVE  RowInv(Entered(r, t))
<1>1. t \in Status /\ r.status \in Status
  BY DEF Quiet, Status, Payable, Fulfilled, Refunding, Order
<1>2. /\ Entered(r, t).status = t
      /\ Entered(r, t).stamps = r.stamps \cup StampOf[t]
      /\ Entered(r, t).complete = (r.complete \/ t \in {"paid", "cancelled", "expired"})
      /\ Entered(r, t).snapshot = r.snapshot
      /\ Entered(r, t).reserved = r.reserved
      /\ Entered(r, t).released = r.released
      /\ Entered(r, t).consumed = r.consumed
  BY <1>1, EnteredRow
<1>3. CASE t \in {"payment_processing", "payment_failed"}
  <2>1. r.status \in Payable
    BY <1>1, <1>3 DEF ALLOWED_ORDER_TRANSITIONS, Status, Payable, Fulfilled, Refunding
  <2>2. StampOf[t] = {}
    BY <1>1, <1>3 DEF StampOf
  <2>. QED  BY <1>2, <1>3, <2>1, <2>2 DEF RowInv, Payable, Fulfilled
<1>4. CASE t \in {"preparing", "shipped", "delivered"}
  <2>1. /\ t = "preparing" => r.status = "paid"
        /\ t = "shipped" => r.status = "preparing"
        /\ t = "delivered" => r.status = "shipped"
    BY <1>1, <1>4 DEF ALLOWED_ORDER_TRANSITIONS, Status, Payable, Fulfilled, Refunding
  <2>2. /\ t = "preparing" => StampOf[t] = {"preparation_started_at"}
        /\ t = "shipped" => StampOf[t] = {"shipped_at"}
        /\ t = "delivered" => StampOf[t] = {"delivered_at"}
    BY <1>1, <1>4 DEF StampOf
  <2>3. r.consumed
    BY <1>4, <2>1 DEF RowInv, Fulfilled
  <2>. QED  BY <1>2, <1>4, <2>1, <2>2, <2>3 DEF RowInv, Payable, Fulfilled
<1>5. CASE t \in Refunding
  <2>1. /\ t = "refund_required" => r.status \in Payable \cup {"cancelled", "expired"}
        /\ t \in {"refunded", "refund_failed"} => r.status = "refund_pending"
    BY <1>1, <1>5 DEF ALLOWED_ORDER_TRANSITIONS, Status, Payable, Fulfilled, Refunding
  <2>2. /\ t \in {"refund_required", "refund_failed"} => StampOf[t] = {}
        /\ t = "refund_pending" => StampOf[t] = {"refund_requested_at"}
        /\ t = "refunded" => StampOf[t] = {"refunded_at"}
    BY <1>1, <1>5 DEF StampOf, Refunding
  <2>3. t = "refund_required" => ~r.consumed
    BY <2>1 DEF RowInv
  <2>. QED  BY <1>2, <1>5, <2>1, <2>2, <2>3 DEF RowInv, Payable, Fulfilled, Refunding
<1>. QED  BY <1>3, <1>4, <1>5 DEF Quiet

\* A quiet transition is a good step of its order.
LEMMA QuietStep ==
    ASSUME IInv, NEW o \in Orders, NEW t \in Quiet, NEW actor,
           t = "preparing" => orders[o].consumed,
           Enter(o, t, actor, orders[o]), NoStockEffect
    PROVE  RowStep(o)
<1>1. orders[o] \in Order /\ RowInv(orders[o])
  BY DEF IInv, TypeOK
<1>2. /\ t \in Status
      /\ t \in ALLOWED_ORDER_TRANSITIONS[orders[o].status]
      /\ orders' \in [Orders -> Order]
      /\ orders'[o] = Entered(orders[o], t)
      /\ \A x \in Orders \ {o} : orders'[x] = orders[x]
  BY <1>1, EnterStep DEF IInv
<1>3. RowInv(orders'[o])
  BY <1>1, <1>2, QuietRow
<1>4. TypeOK'
  BY <1>2 DEF IInv, TypeOK, NoStockEffect, Rest
<1>5. /\ orders'[o].lines = orders[o].lines /\ orders'[o].snapshot = orders[o].snapshot
      /\ orders'[o].reserved = orders[o].reserved
      /\ orders'[o].released = orders[o].released
      /\ orders'[o].consumed = orders[o].consumed
      /\ orders'[o].status = t
  BY <1>1, <1>2, EnteredRow
<1>6. Conserves(o)
  BY <1>5 DEF Conserves, Held, Sold, Backed, NoStockEffect, Rest, IInv, TypeOK
<1>7. orders[o].complete => t \notin {"cart"} \cup Payable
  <2>1. orders[o].status \in Status
    BY <1>1 DEF Order
  <2>2. t \in Payable => orders[o].status \in Payable \cup {"cart"}
    BY <1>2, <2>1 DEF ALLOWED_ORDER_TRANSITIONS, Status, Payable, Fulfilled, Refunding
  <2>. QED  BY <1>1, <2>2 DEF RowInv, Quiet, Refunding
<1>8. t # "cart"
  BY DEF Quiet, Refunding
<1>9. deleting' = deleting
  BY DEF NoStockEffect, Rest
<1>10. Forward(o)
  BY <1>5, <1>7, <1>8, <1>9 DEF Forward
<1>. QED  BY <1>2, <1>3, <1>4, <1>6, <1>9, <1>10 DEF RowStep

\* Checkout freezes the cart and moves its units from the shelf to the hold.
LEMMA CreateOrderStep ==
    ASSUME IInv, NEW o \in Orders, CreateOrder(o)
    PROVE  RowStep(o)
<1> DEFINE r == orders[o]
           n == [r EXCEPT !.snapshot = TRUE, !.reserved = TRUE, !.released = FALSE]
           t == "pending_payment"
<1>1. r \in Order /\ RowInv(r) /\ r.status = "cart"
  BY DEF IInv, TypeOK, CreateOrder
<1>2. /\ n \in Order /\ n.lines = r.lines /\ n.snapshot /\ n.reserved /\ ~n.released
      /\ n.consumed = r.consumed /\ n.complete = r.complete /\ n.stamps = r.stamps
  BY <1>1 DEF Order
<1>3. Enter(o, t, "owner", n)
  BY DEF CreateOrder
<1>4. /\ t \in Status
      /\ orders' \in [Orders -> Order]
      /\ orders'[o] = Entered(n, t)
      /\ \A x \in Orders \ {o} : orders'[x] = orders[x]
  <2>. HIDE DEF n, t
  <2>. QED  BY <1>2, <1>3, EnterStep DEF IInv
<1>5. /\ orders'[o].status = t
      /\ orders'[o].stamps = r.stamps \cup StampOf[t]
      /\ orders'[o].complete = (r.complete \/ t \in {"paid", "cancelled", "expired"})
      /\ orders'[o].lines = r.lines
      /\ orders'[o].snapshot /\ orders'[o].reserved /\ ~orders'[o].released
      /\ orders'[o].consumed = r.consumed
  <2>. HIDE DEF n
  <2>. QED  BY <1>2, <1>4, EnteredRow
<1>6. StampOf[t] = {}
  BY <1>4 DEF StampOf
<1>7. RowInv(orders'[o])
  BY <1>1, <1>5, <1>6 DEF RowInv, Payable, Fulfilled
<1>8. \A v \in Variants : /\ r.lines[v] \in Nat /\ stock[v] \in Nat
                          /\ r.lines[v] <= stock[v]
                          /\ stock'[v] = stock[v] - r.lines[v]
  <2>1. \A v \in Variants : r.lines[v] \in Nat /\ stock[v] \in Nat
    BY <1>1, ConstantsAssumption DEF ConstantsAssumption, Order, Lines, IInv, TypeOK
  <2>2. \A v \in Variants : r.lines[v] <= stock[v]
    BY <2>1 DEF CreateOrder, Available, LinesOf
  <2>. QED  BY <2>1, <2>2 DEF CreateOrder
<1>9. stock' \in [Variants -> Nat]
  BY <1>8 DEF CreateOrder
<1>10. TypeOK'
  BY <1>4, <1>9 DEF IInv, TypeOK, CreateOrder, Rest
<1>11. ~r.snapshot /\ ~r.reserved /\ ~r.consumed /\ ~r.complete
  BY <1>1 DEF RowInv
<1>12. \A v \in Variants : /\ Held(orders'[o], v) = r.lines[v] /\ Held(r, v) = 0
                           /\ Sold(orders'[o], v) = 0 /\ Sold(r, v) = 0
  BY <1>5, <1>11 DEF Held, Sold, Backed
<1>13. Conserves(o)
  BY <1>8, <1>12 DEF Conserves, CreateOrder, Rest, IInv, TypeOK
<1>14. Forward(o)
  BY <1>5, <1>11 DEF Forward
<1>15. deleting' = deleting
  BY DEF CreateOrder, Rest
<1>. QED  BY <1>4, <1>7, <1>10, <1>13, <1>14, <1>15 DEF RowStep

\* The reservation's deadline passes: only due changes.
LEMMA ReservationDueStep ==
    ASSUME IInv, NEW o \in Orders, ReservationDue(o)
    PROVE  RowStep(o)
<1>1. orders[o] \in Order /\ RowInv(orders[o]) /\ orders \in [Orders -> Order]
  BY DEF IInv, TypeOK
<1>2. orders' = [orders EXCEPT ![o] = [orders[o] EXCEPT !.due = TRUE]]
  BY <1>1 DEF ReservationDue, Order
<1>3. [orders[o] EXCEPT !.due = TRUE] \in Order
  BY <1>1 DEF Order
<1>4. TypeOK'
  BY <1>1, <1>2, <1>3 DEF IInv, TypeOK, ReservationDue, NoStockEffect, Rest
<1>5. /\ orders'[o] = [orders[o] EXCEPT !.due = TRUE]
      /\ \A x \in Orders \ {o} : orders'[x] = orders[x]
  BY <1>1, <1>2
<1>6. /\ orders'[o].status = orders[o].status /\ orders'[o].lines = orders[o].lines
      /\ orders'[o].snapshot = orders[o].snapshot
      /\ orders'[o].reserved = orders[o].reserved
      /\ orders'[o].released = orders[o].released
      /\ orders'[o].consumed = orders[o].consumed
      /\ orders'[o].complete = orders[o].complete
      /\ orders'[o].stamps = orders[o].stamps
  BY <1>1, <1>5 DEF Order
<1>7. RowInv(orders'[o])
  BY <1>1, <1>6 DEF RowInv
<1>8. Conserves(o)
  BY <1>6 DEF Conserves, Held, Sold, Backed, ReservationDue, NoStockEffect, Rest, IInv, TypeOK
<1>9. deleting' = deleting
  BY DEF ReservationDue, NoStockEffect, Rest
<1>10. Forward(o)
  BY <1>1, <1>6, <1>9 DEF Forward, RowInv
<1>. QED  BY <1>4, <1>5, <1>7, <1>8, <1>9, <1>10 DEF RowStep

\* Payment turns a hold, or units of the shelf, into a sale.
LEMMA PayStep ==
    ASSUME IInv, NEW o \in Orders, NEW evidence, Pay(o, evidence)
    PROVE  RowStep(o)
<1> DEFINE r == orders[o]
           n == [r EXCEPT !.consumed = TRUE]
           t == "paid"
<1>1. r \in Order /\ RowInv(r) /\ r.status \in Status
  BY DEF IInv, TypeOK, Order
<1>2. r.status \in {"cart", "pending_payment", "payment_processing"}
  BY <1>1 DEF Pay, CanPay, ALLOWED_ORDER_TRANSITIONS, Status, Payable, Fulfilled,
              Refunding
<1>3. /\ n \in Order /\ n.lines = r.lines /\ n.snapshot = r.snapshot
      /\ n.reserved = r.reserved /\ n.released = r.released /\ n.consumed = TRUE
      /\ n.complete = r.complete /\ n.stamps = r.stamps
  BY <1>1 DEF Order
<1>4. Enter(o, t, "system", n)
  BY DEF Pay
<1>5. /\ t \in Status
      /\ orders' \in [Orders -> Order]
      /\ orders'[o] = Entered(n, t)
      /\ \A x \in Orders \ {o} : orders'[x] = orders[x]
  <2>. HIDE DEF n, t
  <2>. QED  BY <1>3, <1>4, EnterStep DEF IInv
<1>6. /\ orders'[o].status = t
      /\ orders'[o].stamps = r.stamps \cup StampOf[t]
      /\ orders'[o].complete = (r.complete \/ t \in {"paid", "cancelled", "expired"})
      /\ orders'[o].lines = r.lines /\ orders'[o].snapshot = r.snapshot
      /\ orders'[o].reserved = r.reserved /\ orders'[o].released = r.released
      /\ orders'[o].consumed = TRUE
  <2>. HIDE DEF n
  <2>. QED  BY <1>3, <1>5, EnteredRow
<1>7. StampOf[t] = {"paid_at"}
  BY <1>5 DEF StampOf
<1>8. /\ ~r.consumed /\ ~r.released /\ ~r.complete
      /\ r.stamps = {}
  BY <1>1, <1>2 DEF RowInv, Payable
<1>9. RowInv(orders'[o])
  BY <1>6, <1>7, <1>8 DEF RowInv, Payable, Fulfilled
<1>10. \A v \in Variants : r.lines[v] \in Nat /\ stock[v] \in Nat /\ sales[v] \in Nat
  BY <1>1, ConstantsAssumption DEF ConstantsAssumption, Order, Lines, IInv, TypeOK
<1>11. \A v \in Variants : ~Backed(r) => r.lines[v] <= stock[v]
  BY <1>10 DEF Pay, CanPay, Available, LinesOf
<1>12. /\ stock' = [v \in Variants |->
                       IF Backed(r) THEN stock[v] ELSE stock[v] - r.lines[v]]
       /\ sales' = [v \in Variants |-> sales[v] + r.lines[v]]
       /\ active' = active /\ deleting' = deleting
       /\ stranded' = stranded /\ unlisted' = unlisted
  BY DEF Pay, Rest
<1>13. stock' \in [Variants -> Nat] /\ sales' \in [Variants -> Nat]
  BY <1>10, <1>11, <1>12
<1>14. TypeOK'
  BY <1>5, <1>12, <1>13 DEF IInv, TypeOK
<1>15. \A v \in Variants :
          /\ Held(r, v) = IF Backed(r) THEN r.lines[v] ELSE 0
          /\ Held(orders'[o], v) = 0
          /\ Sold(r, v) = 0 /\ Sold(orders'[o], v) = r.lines[v]
  BY <1>6, <1>8 DEF Held, Sold
<1>16. Conserves(o)
  <2>1. \A v \in Variants : stock'[v] \in Nat /\ stranded[v] \in Nat /\ unlisted[v] \in Nat
    BY <1>13 DEF IInv, TypeOK
  <2>. QED  BY <1>10, <1>12, <1>15, <2>1 DEF Conserves
<1>17. Forward(o)
  BY <1>6, <1>8, <1>12 DEF Forward, Payable
<1>. QED  BY <1>5, <1>9, <1>12, <1>14, <1>16, <1>17 DEF RowStep

\* Cancelling or expiring an unpaid order puts its hold back on the shelf.
LEMMA CloseStep ==
    ASSUME IInv, NEW o \in Orders, NEW t \in {"cancelled", "expired"}, NEW actor,
           ~orders[o].consumed, Close(o, t, actor)
    PROVE  RowStep(o)
<1> DEFINE r == orders[o]
           n == [r EXCEPT !.released = @ \/ (Backed(r) /\ ~r.consumed)]
<1>1. r \in Order /\ RowInv(r) /\ r.status \in Status
  BY DEF IInv, TypeOK, Order
<1>2. /\ n \in Order /\ n.lines = r.lines /\ n.snapshot = r.snapshot
      /\ n.reserved = r.reserved /\ n.released = (r.released \/ r.reserved)
      /\ n.consumed = r.consumed /\ n.complete = r.complete /\ n.stamps = r.stamps
  BY <1>1 DEF Order, Backed
<1>3. Enter(o, t, actor, n)
  BY DEF Close
<1>4. /\ t \in Status
      /\ t \in ALLOWED_ORDER_TRANSITIONS[r.status]
      /\ orders' \in [Orders -> Order]
      /\ orders'[o] = Entered(n, t)
      /\ \A x \in Orders \ {o} : orders'[x] = orders[x]
  <2>. HIDE DEF n
  <2>. QED  BY <1>2, <1>3, EnterStep DEF IInv
<1>5. /\ orders'[o].status = t
      /\ orders'[o].stamps = r.stamps \cup StampOf[t]
      /\ orders'[o].complete = (r.complete \/ t \in {"paid", "cancelled", "expired"})
      /\ orders'[o].lines = r.lines /\ orders'[o].snapshot = r.snapshot
      /\ orders'[o].reserved = r.reserved
      /\ orders'[o].released = (r.released \/ r.reserved)
      /\ orders'[o].consumed = r.consumed
  <2>. HIDE DEF n
  <2>. QED  BY <1>2, <1>4, EnteredRow
<1>6. StampOf[t] \subseteq {"cancelled_at", "expired_at"}
  BY <1>4 DEF StampOf
<1>7. r.status \in {"cart"} \cup Payable
  BY <1>1, <1>4 DEF ALLOWED_ORDER_TRANSITIONS, Status, Payable, Fulfilled, Refunding
<1>8. ~r.consumed /\ ~r.complete /\ ~r.released
      /\ r.stamps = {}
  BY <1>1, <1>7 DEF RowInv
<1>9. RowInv(orders'[o])
  BY <1>5, <1>6, <1>8 DEF RowInv, Payable, Fulfilled
<1>10. \A v \in Variants : r.lines[v] \in Nat /\ stock[v] \in Nat /\ sales[v] \in Nat
  BY <1>1, ConstantsAssumption DEF ConstantsAssumption, Order, Lines, IInv, TypeOK
<1>11. /\ stock' = [v \in Variants |-> stock[v] + Held(r, v)]
       /\ sales' = sales /\ active' = active /\ deleting' = deleting
       /\ stranded' = stranded /\ unlisted' = unlisted
  BY DEF Close, Rest
<1>12. \A v \in Variants :
          /\ Held(r, v) \in Nat /\ Held(orders'[o], v) = 0
          /\ Sold(r, v) = 0 /\ Sold(orders'[o], v) = 0
  BY <1>5, <1>8, <1>10 DEF Held, Sold, Backed
<1>13. stock' \in [Variants -> Nat]
  BY <1>10, <1>11, <1>12
<1>14. TypeOK'
  BY <1>4, <1>11, <1>13 DEF IInv, TypeOK
<1>15. Conserves(o)
  <2>1. \A v \in Variants : stock'[v] \in Nat /\ stranded[v] \in Nat /\ unlisted[v] \in Nat
    BY <1>13 DEF IInv, TypeOK
  <2>. QED  BY <1>10, <1>11, <1>12, <2>1 DEF Conserves
<1>16. Forward(o)
  <2>1. t \notin {"cart"} \cup Payable
    BY DEF Payable
  <2>. QED  BY <1>5, <1>8, <1>11, <2>1 DEF Forward
<1>. QED  BY <1>4, <1>9, <1>11, <1>14, <1>15, <1>16 DEF RowStep

-------------------------------------------------------------------------------
(* The invariant *)

\* A step that touches no order, no unit and no deletion.
Idle == TypeOK' /\ UNCHANGED <<orders, stock, sales, deleting, stranded, unlisted>>

\* Every step of the system is a good step of one order, or touches none.
LEMMA NextStep ==
    ASSUME IInv, Next
    PROVE  (\E o \in Orders : RowStep(o)) \/ Idle
<1>1. ASSUME NEW o \in Orders, NEW v \in Variants, NEW q \in 0 .. MaxQuantity,
             EditCart(o, v, q)
      PROVE  RowStep(o)
  BY <1>1, EditCartStep
<1>2. ASSUME NEW o \in Orders, CreateOrder(o)  PROVE RowStep(o)
  BY <1>2, CreateOrderStep
<1>3. ASSUME NEW o \in Orders, ReservationDue(o)  PROVE RowStep(o)
  BY <1>3, ReservationDueStep
<1>4. ASSUME NEW o \in Orders, Expire(o)  PROVE RowStep(o)
  BY <1>4, CloseStep DEF Expire
<1>5. ASSUME NEW o \in Orders, RefundRequired(o)  PROVE RowStep(o)
  BY <1>5, QuietStep DEF RefundRequired, Quiet, Refunding
<1>6. ASSUME NEW o \in Orders, NEW evidence, PaymentProcessing(o, evidence)  PROVE RowStep(o)
  BY <1>6, QuietStep DEF PaymentProcessing, Quiet
<1>7. ASSUME NEW o \in Orders, NEW evidence, PaymentFailed(o, evidence)  PROVE RowStep(o)
  BY <1>7, QuietStep DEF PaymentFailed, Quiet
<1>8. ASSUME NEW o \in Orders, NEW evidence, Pay(o, evidence)  PROVE RowStep(o)
  BY <1>8, PayStep
<1>9. ASSUME NEW o \in Orders, NEW actor, Prepare(o, actor)  PROVE RowStep(o)
  BY <1>9, QuietStep DEF Prepare, Quiet
<1>10. ASSUME NEW o \in Orders, NEW actor, Ship(o, actor)  PROVE RowStep(o)
  BY <1>10, QuietStep DEF Ship, Quiet
<1>11. ASSUME NEW o \in Orders, NEW actor, Deliver(o, actor)  PROVE RowStep(o)
  BY <1>11, QuietStep DEF Deliver, Quiet
<1>12. ASSUME NEW o \in Orders, NEW actor, Cancel(o, actor)  PROVE RowStep(o)
  BY <1>12, CloseStep DEF Cancel
<1>13. ASSUME NEW o \in Orders, NEW actor, NEW evidence, RefundPending(o, actor, evidence)
       PROVE  RowStep(o)
  BY <1>13, QuietStep DEF RefundPending, Quiet, Refunding
<1>14. ASSUME NEW o \in Orders, Refunded(o)  PROVE RowStep(o)
  BY <1>14, QuietStep DEF Refunded, Quiet, Refunding
<1>15. ASSUME NEW o \in Orders, RefundFailed(o)  PROVE RowStep(o)
  BY <1>15, QuietStep DEF RefundFailed, Quiet, Refunding
<1>16. ASSUME NEW v \in Variants, SetActive(v)
       PROVE  Idle
  BY <1>16 DEF SetActive, IInv, TypeOK, Idle
<1>17. ASSUME NEW o \in Orders, NEW v \in Variants, DestroyCheck(o, v) \/ Destroy(o, v)
       PROVE  RowStep(o)
  BY <1>17, DestroyCheckStep, DestroyStep
<1>. QED
  BY <1>1, <1>2, <1>3, <1>4, <1>5, <1>6, <1>7, <1>8, <1>9, <1>10, <1>11, <1>12,
     <1>13, <1>14, <1>15, <1>16, <1>17 DEF Next

\* The first rows are in good order.
LEMMA InitInv == Init => IInv
<1> SUFFICES ASSUME Init PROVE IInv
  OBVIOUS
<1>1. orders = [o \in Orders |-> IF o \in LegacyOrders THEN LegacyPending ELSE Cart]
  BY DEF Init
<1>2. \A o \in Orders : orders[o] \in Order /\ RowInv(orders[o])
  BY <1>1, InitialRows
<1>3. orders \in [Orders -> Order]
  BY <1>1, <1>2
<1>4. stock \in [Variants -> Nat] /\ sales \in [Variants -> Nat]
      /\ active \in [Variants -> BOOLEAN] /\ deleting \subseteq Orders \X Variants
      /\ stranded \in [Variants -> Nat] /\ unlisted \in [Variants -> Nat]
  BY ConstantsAssumption DEF Init, ConstantsAssumption
<1>. QED  BY <1>2, <1>3, <1>4 DEF IInv, TypeOK

\* Every step keeps every row in good order.
LEMMA StepInv == IInv /\ [Next]_vars => IInv'
<1> SUFFICES ASSUME IInv, [Next]_vars PROVE IInv'
  OBVIOUS
<1>1. CASE UNCHANGED vars
  BY <1>1 DEF vars, IInv, TypeOK
<1>2. CASE Next
  <2>1. CASE Idle
    BY <2>1 DEF IInv, Idle
  <2>2. ASSUME NEW o \in Orders, RowStep(o) PROVE IInv'
    <3>1. \A x \in Orders : RowInv(orders'[x])
      BY <2>2 DEF RowStep, IInv
    <3>. QED  BY <2>2, <3>1 DEF RowStep, IInv
  <2>. QED  BY <1>2, <2>1, <2>2, NextStep
<1>. QED  BY <1>1, <1>2

\* IInv always holds: which columns go with which status.
THEOREM Invariance == Spec => []IInv
  BY InitInv, StepInv, PTL DEF Spec

-------------------------------------------------------------------------------
(* The properties *)

\* For any number of orders and any stock, no interleaving of reservations,
\* direct consumptions and releases drives a variant's stock below zero, and
\* every row keeps its columns' types.
THEOREM TypeCorrect == Spec => []TypeOK
<1>1. IInv => TypeOK
  BY DEF IInv
<1>. QED  BY <1>1, Invariance, PTL

\* An order in fulfilment has consumed its stock exactly once, and an order
\* whose units went back to the shelf never sells them, whatever late payment
\* or refund follows.
THEOREM FulfilmentBacked == Spec => []FulfilmentBackedByStock
<1>1. IInv => FulfilmentBackedByStock
  BY DEF IInv, FulfilmentBackedByStock, RowInv
<1>. QED  BY <1>1, Invariance, PTL

\* A cancelled or expired order holds no stock.
THEOREM ClosedHoldNothing == Spec => []ClosedOrdersHoldNothing
<1>1. IInv => ClosedOrdersHoldNothing
  BY DEF IInv, ClosedOrdersHoldNothing, RowInv, Held, Backed
<1>. QED  BY <1>1, Invariance, PTL

\* The dates of the logistic chain and of a refund appear in order, and never
\* next to a cancellation or an expiry on an order that was paid.
THEOREM DatesInOrder == Spec => []DatesFollowTheChain
<1>1. IInv => DatesFollowTheChain
  BY DEF IInv, DatesFollowTheChain, RowInv
<1>. QED  BY <1>1, Invariance, PTL

\* Each transaction moves units between the shelf, one order's hold and its
\* sale, creates none and leaves no shelf below zero; the only units it writes
\* off are those of a line whose deletion was checked before the checkout.
THEOREM UnitsConserved == Spec => StepConservesUnits
<1> DEFINE A == \E o \in Orders :
              /\ \A x \in Orders \ {o} : orders'[x] = orders[x]
              /\ \A v \in Variants :
                    /\ stock'[v] >= 0
                    /\ stock'[v] + Held(orders'[o], v) + Sold(orders'[o], v)
                                 + stranded'[v] + unlisted'[v]
                           = stock[v] + Held(orders[o], v) + Sold(orders[o], v)
                                 + stranded[v] + unlisted[v]
                    /\ sales'[v] - Sold(orders'[o], v) - unlisted'[v]
                           = sales[v] - Sold(orders[o], v) - unlisted[v]
                    /\ stranded'[v] + unlisted'[v] # stranded[v] + unlisted[v] =>
                          <<o, v>> \in deleting \ deleting'
<1>1. IInv /\ [Next]_vars => [A]_<<orders, stock, sales, stranded, unlisted>>
  BY NextStep DEF RowStep, Conserves, Idle, vars
<1>. HIDE DEF A
<1>2. Spec => [][A]_<<orders, stock, sales, stranded, unlisted>>
  BY <1>1, Invariance, PTL DEF Spec
<1>. QED  BY <1>2 DEF A, StepConservesUnits

\* After checkout an order's lines are frozen, but for those a deletion checked
\* before and takes away whole, and no order goes back to an earlier phase of
\* its life.
THEOREM Frozen == Spec => FrozenAndForward
<1> DEFINE A == \A o \in Orders :
              /\ orders[o].snapshot =>
                    /\ orders'[o].snapshot
                    /\ \A v \in Variants :
                          /\ <<o, v>> \in deleting' => <<o, v>> \in deleting
                          /\ \/ orders'[o].lines[v] = orders[o].lines[v]
                             \/ orders'[o].lines[v] = 0 /\ <<o, v>> \in deleting \ deleting'
              /\ orders[o].status # "cart" => orders'[o].status # "cart"
              /\ orders[o].complete => orders'[o].status \notin {"cart"} \cup Payable
<1>1. IInv /\ [Next]_vars => [A]_vars
  <2> SUFFICES ASSUME IInv, Next, NEW o \in Orders PROVE Forward(o)
    BY DEF Forward
  <2>1. ASSUME orders'[o] = orders[o],
               \A v \in Variants : <<o, v>> \in deleting' => <<o, v>> \in deleting
        PROVE  Forward(o)
    BY <2>1 DEF Forward, IInv, RowInv
  <2>2. ASSUME NEW x \in Orders, RowStep(x) PROVE Forward(o)
    BY <2>1, <2>2 DEF RowStep
  <2>3. CASE Idle
    BY <2>1, <2>3 DEF Idle
  <2>. QED  BY <2>2, <2>3, NextStep
<1>. HIDE DEF A
<1>2. Spec => [][A]_vars
  BY <1>1, Invariance, PTL DEF Spec
<1>. QED  BY <1>2 DEF A, FrozenAndForward
-------------------------------------------------------------------------------
(* Sales *)

\* What the orders sold of v.
SoldOf(v) == [o \in Orders |-> Sold(orders[o], v)]

\* An order sells a natural number of units of each variant.
LEMMA SoldType ==
    ASSUME TypeOK, NEW v \in Variants
    PROVE  \A o \in Orders : SoldOf(v)[o] \in Nat
<1>1. \A o \in Orders : orders[o].lines[v] \in Nat
  BY ConstantsAssumption DEF ConstantsAssumption, TypeOK, Order, Lines
<1>. QED  BY <1>1 DEF SoldOf, Sold

\* The first sales: no order sold anything.
LEMMA InitSales == Init => SalesCountPaidOrders
<1> SUFFICES ASSUME Init, NEW v \in Variants
             PROVE  sales[v] = unlisted[v] + SumFunctionOnSet(SoldOf(v), Orders)
  BY DEF SalesCountPaidOrders, SoldOf
<1>1. IsFiniteSet(Orders)
  BY ConstantsAssumption DEF ConstantsAssumption
<1>2. \A o \in Orders : SoldOf(v)[o] = 0
  BY DEF Init, SoldOf, Sold, LegacyPending, Cart
<1>3. SumFunctionOnSet(SoldOf(v), Orders) = 0
  <2> DEFINE w == SoldOf(v)
  <2>1. \A o \in Orders : w[o] = 0
    BY <1>2
  <2>. HIDE DEF w
  <2>2. SumFunctionOnSet(w, Orders) = 0
    BY <1>1, <2>1, SumZero
  <2>. QED  BY <2>2 DEF w
<1>4. sales[v] = 0 /\ unlisted[v] = 0
  BY DEF Init
<1>. QED  BY <1>3, <1>4

\* A good step of one order changes sales_count by what the order sold, or
\* writes off a line that was sold.
LEMMA RowStepSales ==
    ASSUME TypeOK, SalesCountPaidOrders, NEW o \in Orders, RowStep(o)
    PROVE  SalesCountPaidOrders'
<1> SUFFICES ASSUME NEW v \in Variants
             PROVE  sales'[v] = unlisted'[v] + SumFunctionOnSet(SoldOf(v)', Orders)
  BY DEF SalesCountPaidOrders, SoldOf
<1> DEFINE old == SoldOf(v)
           new == SoldOf(v)'
<1>1. IsFiniteSet(Orders)
  BY ConstantsAssumption DEF ConstantsAssumption
<1>2. \A x \in Orders : old[x] \in Int
  BY SoldType
<1>3. new[o] \in Int
  <2>1. orders'[o].lines[v] \in Nat
    BY ConstantsAssumption DEF ConstantsAssumption, RowStep, TypeOK, Order, Lines
  <2>. QED  BY <2>1 DEF SoldOf, Sold
<1>4. \A x \in Orders \ {o} : new[x] = old[x]
  BY DEF RowStep, SoldOf, Sold
<1>5. sales[v] = unlisted[v] + SumFunctionOnSet(old, Orders)
  BY DEF SalesCountPaidOrders, SoldOf
<1>6. /\ sales'[v] - new[o] - unlisted'[v] = sales[v] - old[o] - unlisted[v]
      /\ sales[v] \in Int /\ sales'[v] \in Int
      /\ unlisted[v] \in Int /\ unlisted'[v] \in Int
  <2>1. sales'[v] - Sold(orders'[o], v) - unlisted'[v]
            = sales[v] - Sold(orders[o], v) - unlisted[v]
    BY DEF RowStep, Conserves
  <2>2. /\ sales[v] \in Int /\ sales'[v] \in Int
        /\ unlisted[v] \in Int /\ unlisted'[v] \in Int
    BY DEF RowStep, TypeOK
  <2>3. new[o] = Sold(orders'[o], v) /\ old[o] = Sold(orders[o], v)
    BY DEF SoldOf
  <2>. QED  BY <2>1, <2>2, <2>3
<1>. HIDE DEF old, new
<1>7. SumFunctionOnSet(new, Orders) = SumFunctionOnSet(old, Orders) + new[o] - old[o]
  BY <1>1, <1>2, <1>3, <1>4, SumUpdate
<1>8. sales'[v] = unlisted'[v] + SumFunctionOnSet(new, Orders)
  <2>1. \E n \in Int : sales[v] = unlisted[v] + SumFunctionOnSet(old, Orders)
                        /\ n = SumFunctionOnSet(old, Orders)
    BY <1>1, <1>2, <1>5, SumInt
  <2>. QED  BY <1>2, <1>3, <1>6, <1>7, <2>1
<1>. QED  BY <1>8 DEF new

\* The sales of a variant are the units of it in the paid orders' lines and in
\* the lines deleted from them afterwards: an order is counted once, whether its
\* stock was reserved or taken when it was paid.
THEOREM SalesCounted == Spec => []SalesCountPaidOrders
<1>1. Init => SalesCountPaidOrders
  BY InitSales
<1>2. IInv /\ SalesCountPaidOrders /\ [Next]_vars => SalesCountPaidOrders'
  <2> SUFFICES ASSUME IInv, SalesCountPaidOrders, [Next]_vars
               PROVE  SalesCountPaidOrders'
    OBVIOUS
  <2>1. TypeOK
    BY DEF IInv
  <2>2. CASE UNCHANGED <<orders, sales, unlisted>>
    BY <2>2 DEF SalesCountPaidOrders, Sold
  <2>3. ASSUME NEW o \in Orders, RowStep(o) PROVE SalesCountPaidOrders'
    BY <2>1, <2>3, RowStepSales
  <2>. QED  BY <2>2, <2>3, NextStep DEF vars, Idle
<1>. QED  BY <1>1, <1>2, Invariance, PTL DEF Spec

-------------------------------------------------------------------------------
(* Every payment step is a lifecycle step *)

\* Following a payment's outcome is a transition or nothing.
LEMMA FollowRefines ==
    ASSUME NEW o \in Orders, NEW target, FollowPayment(o, target)
    PROVE  Next \/ UNCHANGED vars
<1>1. Confirmed \in PaymentEvidence
  BY DEF Confirmed, PaymentEvidence
<1>. QED  BY <1>1 DEF FollowPayment, Next

\* The verdict on a confirmed payment is a transition or nothing.
LEMMA CaptureRefines ==
    ASSUME NEW p \in Payments, pay[p].order \in Orders, Capture(p)
    PROVE  Next \/ UNCHANGED vars
<1>1. Confirmed \in PaymentEvidence
  BY DEF Confirmed, PaymentEvidence
<1>. QED  BY <1>1 DEF Capture, Duplicate, Late, Fulfil, Unfulfillable, Next

\* The shape of the payment rows, which no step breaks.
Rows ==
    /\ pay \in [Payments -> Payment]
    /\ \A p \in Payments : pay[p].status # "absent" => pay[p].order \in Orders
    /\ \A p \in Payments : pay[p].status = "absent" =>
          pay[p].processed = FALSE /\ pay[p].failure = ""

\* The columns of an absent payment.
LEMMA AbsentRow ==
    /\ Absent \in Payment
    /\ Absent.status = "absent" /\ Absent.order = NoOrder
    /\ Absent.processed = FALSE /\ Absent.failure = ""
  BY DEF Absent, Payment, PayStatus, Failure

\* A row built from its columns.
LEMMA RowType ==
    ASSUME NEW st \in PayStatus, NEW ord \in Orders \cup {NoOrder},
           NEW pr \in BOOLEAN, NEW f \in Failure
    PROVE  [status |-> st, order |-> ord, processed |-> pr, failure |-> f] \in Payment
  BY DEF Payment

\* Rows survive a step that writes one row, of a known order.
LEMMA RowsAgain ==
    ASSUME Rows, NEW p \in Payments, pay' \in [Payments -> Payment],
           \A q \in Payments \ {p} : pay'[q] = pay[q],
           pay'[p].status # "absent", pay'[p].order \in Orders
    PROVE  Rows'
<1>1. ASSUME NEW q \in Payments
      PROVE  /\ pay'[q].status # "absent" => pay'[q].order \in Orders
             /\ pay'[q].status = "absent" => pay'[q].processed = FALSE /\ pay'[q].failure = ""
  <2>1. CASE q = p
    BY <2>1
  <2>2. CASE q # p
    BY <2>2 DEF Rows
  <2>. QED  BY <2>1, <2>2
<1>. QED  BY <1>1 DEF Rows

\* The only ways a step changes the payment rows.
LEMMA RowsKept ==
    ASSUME Rows, NEW p \in Payments, pay[p].status # "absent",
           NEW st \in PayStatus \ {"absent"}, NEW pr \in BOOLEAN, NEW f \in Failure,
           pay' = [pay EXCEPT ![p].status = st, ![p].processed = pr, ![p].failure = f]
    PROVE  /\ Rows'
           /\ pay'[p] = [status |-> st, order |-> pay[p].order,
                         processed |-> pr, failure |-> f]
           /\ \A q \in Payments \ {p} : pay'[q] = pay[q]
<1>1. pay'[p] = [status |-> st, order |-> pay[p].order, processed |-> pr, failure |-> f]
  BY DEF Rows, Payment
<1>2. \A q \in Payments \ {p} : pay'[q] = pay[q]
  BY DEF Rows
<1>3. pay[p].order \in Orders
  BY DEF Rows
<1>4. pay'[p] \in Payment
  BY <1>1, <1>3, RowType
<1>5. pay' \in [Payments -> Payment]
  BY <1>2, <1>4 DEF Rows
<1>6. pay'[p].status # "absent" /\ pay'[p].order \in Orders
  BY <1>1, <1>3
<1>7. Rows'
  BY <1>2, <1>5, <1>6, RowsAgain
<1>. QED  BY <1>1, <1>2, <1>7
-------------------------------------------------------------------------------
(* What every order step but the paid transition leaves alone *)

\* The order will not be fulfilled any more.
ShutRow(r) == r.status \in {"cancelled", "expired"} \cup Refunding /\ ~r.consumed

\* A step of order o that neither pays it nor reopens it.
Stay(o) ==
    /\ \A x \in Orders \ {o} : orders'[x] = orders[x]
    /\ orders'[o].consumed = orders[o].consumed
    /\ orders[o].status \in Refunding => orders'[o].status \in Refunding
    /\ ShutRow(orders[o]) => ShutRow(orders'[o])

\* No transition leaves the refund statuses, and a cancelled or expired order
\* can only go there.
LEMMA EnterStays ==
    ASSUME TypeOK, NEW o \in Orders, NEW target, NEW actor, NEW r \in Order,
           r.consumed = orders[o].consumed, Enter(o, target, actor, r)
    PROVE  Stay(o) /\ orders'[o].status = target
<1>1. orders[o] \in Order /\ orders[o].status \in Status
  BY DEF TypeOK, Order
<1>2. /\ target \in Status
      /\ target \in ALLOWED_ORDER_TRANSITIONS[orders[o].status]
      /\ orders'[o] = Entered(r, target)
      /\ \A x \in Orders \ {o} : orders'[x] = orders[x]
  BY EnterStep
<1>3. orders'[o].status = target /\ orders'[o].consumed = orders[o].consumed
  BY <1>2, EnteredRow
<1>4. /\ orders[o].status \in Refunding => target \in Refunding
      /\ orders[o].status \in {"cancelled", "expired"} => target \in Refunding
  BY <1>1, <1>2 DEF ALLOWED_ORDER_TRANSITIONS, Status, Payable, Fulfilled, Refunding
<1>. QED  BY <1>2, <1>3, <1>4 DEF Stay, ShutRow

\* Editing a cart, a deletion and the passing of a deadline keep status and
\* consumed.
LEMMA SameStatusStays ==
    ASSUME TypeOK, NEW o \in Orders,
           \/ \E v \in Variants, q \in 0 .. MaxQuantity : EditCart(o, v, q)
           \/ \E v \in Variants : DestroyCheck(o, v) \/ Destroy(o, v)
           \/ ReservationDue(o)
    PROVE  Stay(o)
<1>1. orders[o] \in Order /\ orders \in [Orders -> Order]
  BY DEF TypeOK
<1>2. /\ \A x \in Orders \ {o} : orders'[x] = orders[x]
      /\ orders'[o].status = orders[o].status
      /\ orders'[o].consumed = orders[o].consumed
  <2>1. ASSUME NEW v \in Variants, NEW q, orders' = [orders EXCEPT ![o].lines[v] = q]
        PROVE  /\ \A x \in Orders \ {o} : orders'[x] = orders[x]
               /\ orders'[o].status = orders[o].status
               /\ orders'[o].consumed = orders[o].consumed
    BY <1>1, <2>1 DEF Order
  <2>2. CASE \E v \in Variants, q \in 0 .. MaxQuantity : EditCart(o, v, q)
    BY <2>1, <2>2 DEF EditCart
  <2>3. CASE \E v \in Variants : DestroyCheck(o, v) \/ Destroy(o, v)
    BY <2>1, <2>3 DEF DestroyCheck, Destroy
  <2>4. CASE ReservationDue(o)
    BY <1>1, <2>4 DEF ReservationDue, Order
  <2>. QED  BY <2>2, <2>3, <2>4
<1>. QED  BY <1>2 DEF Stay, ShutRow

\* Cancelling or expiring neither pays nor reopens an order.
LEMMA CloseStays ==
    ASSUME TypeOK, NEW o \in Orders, NEW target, NEW actor, Close(o, target, actor)
    PROVE  Stay(o)
<1> DEFINE r == orders[o]
           n == [r EXCEPT !.released = @ \/ (Backed(r) /\ ~r.consumed)]
<1>1. r \in Order /\ n \in Order /\ n.consumed = r.consumed
  BY DEF TypeOK, Order, Backed
<1>2. Enter(o, target, actor, n)
  BY DEF Close
<1>. HIDE DEF n
<1>. QED  BY <1>1, <1>2, EnterStays

\* Checkout neither pays nor reopens an order.
LEMMA CreateOrderStays ==
    ASSUME TypeOK, NEW o \in Orders, CreateOrder(o)
    PROVE  Stay(o)
<1> DEFINE r == orders[o]
           n == [r EXCEPT !.snapshot = TRUE, !.reserved = TRUE, !.released = FALSE]
<1>1. r \in Order /\ n \in Order /\ n.consumed = r.consumed
  BY DEF TypeOK, Order
<1>2. Enter(o, "pending_payment", "owner", n)
  BY DEF CreateOrder
<1>. HIDE DEF n
<1>. QED  BY <1>1, <1>2, EnterStays

\* The transitions without a stock effect neither pay nor reopen an order.
LEMMA PlainStays ==
    ASSUME TypeOK, NEW o \in Orders, NEW target, NEW actor,
           Enter(o, target, actor, orders[o])
    PROVE  Stay(o) /\ orders'[o].status = target
<1>1. orders[o] \in Order
  BY DEF TypeOK
<1>. QED  BY <1>1, EnterStays

\* The order steps of the payment module change one order, and pay none.
LEMMA OrderStepStays ==
    ASSUME TypeOK,
           \/ OrderStep
           \/ \E o \in Orders : ExpireUnpaid(o) \/ RefundOrder(o)
    PROVE  UNCHANGED payVars /\ (orders' = orders \/ \E o \in Orders : Stay(o))
<1>1. ASSUME NEW o \in Orders, ExpireUnpaid(o) PROVE Stay(o)
  BY <1>1, CloseStays DEF ExpireUnpaid, Expire
<1>2. ASSUME NEW o \in Orders, RefundOrder(o) PROVE Stay(o)
  BY <1>2, PlainStays DEF RefundOrder, RefundPending, Refunded, RefundFailed
<1>3. ASSUME NEW o \in Orders, NEW actor,
             Prepare(o, actor) \/ Ship(o, actor) \/ Deliver(o, actor)
      PROVE  Stay(o)
  BY <1>3, PlainStays DEF Prepare, Ship, Deliver
<1>4. ASSUME NEW o \in Orders, NEW actor, Cancel(o, actor) PROVE Stay(o)
  BY <1>4, CloseStays DEF Cancel
<1>5. ASSUME OrderStep PROVE orders' = orders \/ \E o \in Orders : Stay(o)
  BY <1>3, <1>4, <1>5, SameStatusStays, CreateOrderStays DEF OrderStep, SetActive
<1>6. UNCHANGED payVars
  BY DEF OrderStep, ExpireUnpaid, RefundOrder
<1>. QED  BY <1>1, <1>2, <1>5, <1>6

\* Following a payment's outcome pays no order.
LEMMA FollowStays ==
    ASSUME TypeOK, NEW o \in Orders, NEW target, FollowPayment(o, target)
    PROVE  orders' = orders \/ Stay(o)
  BY PlainStays DEF FollowPayment, PaymentFailed, PaymentProcessing, vars

\* The paid transition consumes the stock of one order, which was not shut.
LEMMA PayPays ==
    ASSUME TypeOK, NEW o \in Orders, NEW evidence, Pay(o, evidence)
    PROVE  /\ orders'[o].consumed = TRUE
           /\ orders'[o].status = "paid"
           /\ \A x \in Orders \ {o} : orders'[x] = orders[x]
           /\ ~orders[o].consumed
           /\ orders[o].status \notin Refunding \cup {"cancelled", "expired"}
<1> DEFINE n == [orders[o] EXCEPT !.consumed = TRUE]
<1>1. orders[o] \in Order /\ orders[o].status \in Status
  BY DEF TypeOK, Order
<1>2. n \in Order /\ n.consumed = TRUE
  BY <1>1 DEF Order
<1>3. Enter(o, "paid", "system", n)
  BY DEF Pay
<1>4. /\ "paid" \in Status /\ orders'[o] = Entered(n, "paid")
      /\ \A x \in Orders \ {o} : orders'[x] = orders[x]
  <2>. HIDE DEF n
  <2>. QED  BY <1>2, <1>3, EnterStep
<1>5. orders'[o].consumed = n.consumed /\ orders'[o].status = "paid"
  <2>. HIDE DEF n
  <2>. QED  BY <1>2, <1>4, EnteredRow
<1>6. /\ ~orders[o].consumed
      /\ orders[o].status \notin Refunding \cup {"cancelled", "expired"}
  BY <1>1 DEF Pay, CanPay, ALLOWED_ORDER_TRANSITIONS, Status, Payable, Fulfilled,
              Refunding
<1>. QED  BY <1>2, <1>4, <1>5, <1>6

-------------------------------------------------------------------------------
(* The invariant *)

\* How the payment rows and the order rows go together.
PInv ==
    /\ IInv /\ Rows
    /\ \A p \in Payments :
          /\ pay[p].processed <=> pay[p].status \in {"completed", "refund_required"}
          /\ ~pay[p].processed => pay[p].failure = ""
          /\ pay[p].status = "refund_required" <=> pay[p].failure = "duplicate_payment"
          /\ pay[p].status = "refund_required" => HasPrimary(p)
          /\ pay[p].status = "completed" /\ pay[p].failure # "" =>
                orders[pay[p].order].status \in Refunding /\ ~orders[pay[p].order].consumed
          /\ Commercial(p) => orders[pay[p].order].consumed
    /\ \A p, q \in Payments :
          Commercial(p) /\ Commercial(q) /\ pay[p].order = pay[q].order => p = q
    /\ \A o \in Orders :
          orders[o].consumed => \E p \in Payments : Commercial(p) /\ pay[p].order = o

\* A step that decides nothing: decided rows stay, the others stay undecided.
Undecided ==
    /\ Rows'
    /\ \A q \in Payments :
          /\ pay[q].processed => pay'[q] = pay[q]
          /\ ~pay[q].processed => /\ ~pay'[q].processed /\ pay'[q].failure = ""
                                  /\ pay'[q].status \notin {"completed", "refund_required"}
    /\ orders' = orders \/ \E o \in Orders : Stay(o)

\* Deciding nothing breaks nothing.
LEMMA UndecidedStep ==
    ASSUME PInv, IInv', Undecided
    PROVE  PInv'
<1>1. \A o \in Orders :
         /\ orders'[o].consumed = orders[o].consumed
         /\ orders[o].status \in Refunding => orders'[o].status \in Refunding
  BY DEF Undecided, Stay
<1>2. \A p \in Payments : Commercial(p)' <=> Commercial(p)
  BY DEF Undecided, Commercial
<1>3. \A p \in Payments : pay[p].processed => pay'[p] = pay[p] /\ pay[p].order \in Orders
  BY DEF Undecided, PInv, Rows
<1>4. \A p \in Payments : Commercial(p) => pay[p].processed
  BY DEF Commercial
<1>5. ASSUME NEW p \in Payments, pay'[p].status = "refund_required" PROVE HasPrimary(p)'
  <2>1. pay[p].processed /\ pay'[p] = pay[p]
    BY <1>5 DEF Undecided
  <2>2. PICK q \in Payments \ {p} : pay[q].order = pay[p].order /\ Commercial(q)
    BY <1>5, <2>1 DEF PInv, HasPrimary, PaymentsOf
  <2>. QED  BY <1>2, <1>3, <1>4, <2>1, <2>2 DEF HasPrimary, PaymentsOf
<1>6. ASSUME NEW p \in Payments
      PROVE  /\ pay'[p].processed <=> pay'[p].status \in {"completed", "refund_required"}
             /\ ~pay'[p].processed => pay'[p].failure = ""
             /\ pay'[p].status = "refund_required" <=> pay'[p].failure = "duplicate_payment"
             /\ pay'[p].status = "completed" /\ pay'[p].failure # "" =>
                   /\ orders'[pay'[p].order].status \in Refunding
                   /\ ~orders'[pay'[p].order].consumed
             /\ Commercial(p)' => orders'[pay'[p].order].consumed
  <2>1. CASE pay[p].processed
    <3>1. pay'[p] = pay[p] /\ pay[p].order \in Orders
      BY <1>3, <2>1
    <3>2. /\ orders'[pay[p].order].consumed = orders[pay[p].order].consumed
          /\ orders[pay[p].order].status \in Refunding =>
                orders'[pay[p].order].status \in Refunding
      BY <1>1, <3>1
    <3>3. /\ pay[p].processed <=> pay[p].status \in {"completed", "refund_required"}
          /\ ~pay[p].processed => pay[p].failure = ""
          /\ pay[p].status = "refund_required" <=> pay[p].failure = "duplicate_payment"
          /\ pay[p].status = "completed" /\ pay[p].failure # "" =>
                orders[pay[p].order].status \in Refunding /\ ~orders[pay[p].order].consumed
          /\ Commercial(p) => orders[pay[p].order].consumed
      BY DEF PInv
    <3>4. Commercial(p)' <=> Commercial(p)
      BY <1>2
    <3>. QED  BY <3>1, <3>2, <3>3, <3>4
  <2>2. CASE ~pay[p].processed
    BY <1>2, <1>4, <2>2 DEF Undecided, Commercial
  <2>. QED  BY <2>1, <2>2
<1>7. ASSUME NEW p \in Payments, NEW q \in Payments, Commercial(p)', Commercial(q)',
             pay'[p].order = pay'[q].order
      PROVE  p = q
  <2>1. Commercial(p) /\ Commercial(q)
    BY <1>2, <1>7
  <2>2. pay'[p] = pay[p] /\ pay'[q] = pay[q]
    BY <1>3, <1>4, <2>1
  <2>3. pay[p].order = pay[q].order
    BY <1>7, <2>2
  <2>. QED  BY <2>1, <2>3 DEF PInv
<1>8. ASSUME NEW o \in Orders, orders'[o].consumed
      PROVE  \E p \in Payments : Commercial(p)' /\ pay'[p].order = o
  <2>1. PICK p \in Payments : Commercial(p) /\ pay[p].order = o
    BY <1>1, <1>8 DEF PInv
  <2>. QED  BY <1>2, <1>3, <1>4, <2>1
<1>. QED  BY <1>5, <1>6, <1>7, <1>8 DEF PInv, Undecided
\* Payment p, undecided so far, is decided; the other rows stay.
Decided(p, st, f) ==
    /\ Rows' /\ pay[p].order \in Orders
    /\ pay'[p].status = st /\ pay'[p].order = pay[p].order
    /\ pay'[p].processed = TRUE /\ pay'[p].failure = f
    /\ \A q \in Payments \ {p} : pay'[q] = pay[q]

\* SetPay decides one payment.
LEMMA SetPayDecides ==
    ASSUME Rows, NEW p \in Payments, pay[p].status # "absent",
           NEW st \in {"completed", "refund_required"}, NEW f \in Failure,
           SetPay(p, st, TRUE, f)
    PROVE  Decided(p, st, f)
<1>1. st \in PayStatus \ {"absent"}
  BY DEF PayStatus
<1>2. pay[p].order \in Orders
  BY DEF Rows
<1>3. /\ Rows'
      /\ pay'[p] = [status |-> st, order |-> pay[p].order, processed |-> TRUE, failure |-> f]
      /\ \A q \in Payments \ {p} : pay'[q] = pay[q]
  BY <1>1, RowsKept DEF SetPay
<1>. QED  BY <1>2, <1>3 DEF Decided

\* A second capture is flagged, and changes no order.
LEMMA DuplicateStep ==
    ASSUME PInv, IInv', NEW p \in Payments, ~pay[p].processed,
           HasPrimary(p), UNCHANGED vars,
           Decided(p, "refund_required", "duplicate_payment")
    PROVE  PInv'
<1>1. orders' = orders
  BY DEF vars
<1>2. ~Commercial(p) /\ ~Commercial(p)'
  BY DEF Commercial, Decided
<1>3. \A q \in Payments : /\ Commercial(q)' <=> Commercial(q)
                          /\ pay'[q].order = pay[q].order
                          /\ q # p => pay'[q] = pay[q]
  BY <1>2 DEF Commercial, Decided
<1>4. \A q \in Payments : HasPrimary(q)' <=> HasPrimary(q)
  BY <1>3 DEF HasPrimary, PaymentsOf
<1>5. ASSUME NEW q \in Payments
      PROVE  /\ pay'[q].processed <=> pay'[q].status \in {"completed", "refund_required"}
             /\ ~pay'[q].processed => pay'[q].failure = ""
             /\ pay'[q].status = "refund_required" <=> pay'[q].failure = "duplicate_payment"
             /\ pay'[q].status = "refund_required" => HasPrimary(q)'
             /\ pay'[q].status = "completed" /\ pay'[q].failure # "" =>
                   /\ orders'[pay'[q].order].status \in Refunding
                   /\ ~orders'[pay'[q].order].consumed
             /\ Commercial(q)' => orders'[pay'[q].order].consumed
  <2>1. CASE q = p
    BY <1>2, <1>4, <2>1 DEF Decided
  <2>2. CASE q # p
    BY <1>1, <1>3, <1>4, <2>2 DEF PInv
  <2>. QED  BY <2>1, <2>2
<1>6. ASSUME NEW q \in Payments, NEW r \in Payments, Commercial(q)', Commercial(r)',
             pay'[q].order = pay'[r].order
      PROVE  q = r
  <2>1. Commercial(q) /\ Commercial(r) /\ pay[q].order = pay[r].order
    BY <1>3, <1>6
  <2>. QED  BY <2>1 DEF PInv
<1>7. ASSUME NEW o \in Orders, orders'[o].consumed
      PROVE  \E q \in Payments : Commercial(q)' /\ pay'[q].order = o
  <2>1. PICK q \in Payments : Commercial(q) /\ pay[q].order = o
    BY <1>1, <1>7 DEF PInv
  <2>. QED  BY <1>3, <2>1
<1>. QED  BY <1>5, <1>6, <1>7 DEF PInv, Decided

\* A capture that cannot pay its order sends the order to a refund.
LEMMA GiveBackStep ==
    ASSUME PInv, IInv', NEW p \in Payments, ~pay[p].processed, ~HasPrimary(p),
           orders[pay[p].order].status \in Payable \cup {"cancelled", "expired"},
           RefundRequired(pay[p].order),
           NEW f \in {"late_payment_refund_required", "payment_refund_required"},
           Decided(p, "completed", f)
    PROVE  PInv'
<1> DEFINE o == pay[p].order
<1>1. o \in Orders
  BY DEF Decided
<1>2. Stay(o) /\ orders'[o].status = "refund_required"
  <2>1. TypeOK /\ Enter(o, "refund_required", "system", orders[o])
    BY DEF RefundRequired, PInv, IInv
  <2>. HIDE DEF o
  <2>. QED  BY <1>1, <2>1, PlainStays
<1>3. ~orders[o].consumed
  BY <1>1 DEF PInv, IInv, RowInv
<1>4. ~Commercial(p) /\ ~Commercial(p)'
  BY DEF Commercial, Decided
<1>5. \A q \in Payments : /\ Commercial(q)' <=> Commercial(q)
                          /\ pay'[q].order = pay[q].order
                          /\ q # p => pay'[q] = pay[q]
  BY <1>4 DEF Commercial, Decided
<1>6. \A q \in Payments : HasPrimary(q)' <=> HasPrimary(q)
  BY <1>5 DEF HasPrimary, PaymentsOf
<1>7. \A x \in Orders :
         /\ orders'[x].consumed = orders[x].consumed
         /\ orders[x].status \in Refunding => orders'[x].status \in Refunding
  BY <1>2 DEF Stay
<1>8. ASSUME NEW q \in Payments
      PROVE  /\ pay'[q].processed <=> pay'[q].status \in {"completed", "refund_required"}
             /\ ~pay'[q].processed => pay'[q].failure = ""
             /\ pay'[q].status = "refund_required" <=> pay'[q].failure = "duplicate_payment"
             /\ pay'[q].status = "refund_required" => HasPrimary(q)'
             /\ pay'[q].status = "completed" /\ pay'[q].failure # "" =>
                   /\ orders'[pay'[q].order].status \in Refunding
                   /\ ~orders'[pay'[q].order].consumed
             /\ Commercial(q)' => orders'[pay'[q].order].consumed
  <2>1. CASE q = p
    <3>1. orders'[o].status \in Refunding /\ ~orders'[o].consumed
      BY <1>1, <1>2, <1>3, <1>7 DEF Refunding
    <3>. QED  BY <1>4, <2>1, <3>1 DEF Decided
  <2>2. CASE q # p
    <3>1. pay'[q] = pay[q]
      BY <1>5, <2>2
    <3>2. /\ pay[q].processed <=> pay[q].status \in {"completed", "refund_required"}
          /\ ~pay[q].processed => pay[q].failure = ""
          /\ pay[q].status = "refund_required" <=> pay[q].failure = "duplicate_payment"
          /\ pay[q].status = "refund_required" => HasPrimary(q)
          /\ pay[q].status = "completed" /\ pay[q].failure # "" =>
                orders[pay[q].order].status \in Refunding /\ ~orders[pay[q].order].consumed
          /\ Commercial(q) => orders[pay[q].order].consumed
      BY DEF PInv
    <3>3. pay[q].processed => pay[q].order \in Orders
      BY DEF PInv, Rows
    <3>4. Commercial(q) => pay[q].processed
      BY DEF Commercial
    <3>. QED  BY <1>5, <1>6, <1>7, <3>1, <3>2, <3>3, <3>4
  <2>. QED  BY <2>1, <2>2
<1>9. ASSUME NEW q \in Payments, NEW r \in Payments, Commercial(q)', Commercial(r)',
             pay'[q].order = pay'[r].order
      PROVE  q = r
  <2>1. Commercial(q) /\ Commercial(r) /\ pay[q].order = pay[r].order
    BY <1>5, <1>9
  <2>. QED  BY <2>1 DEF PInv
<1>10. ASSUME NEW x \in Orders, orders'[x].consumed
       PROVE  \E q \in Payments : Commercial(q)' /\ pay'[q].order = x
  <2>1. PICK q \in Payments : Commercial(q) /\ pay[q].order = x
    BY <1>7, <1>10 DEF PInv
  <2>. QED  BY <1>5, <2>1
<1>. QED  BY <1>8, <1>9, <1>10 DEF PInv, Decided
\* The commercial payment pays its order: the order had none before.
LEMMA PayOrderStep ==
    ASSUME PInv, IInv', NEW p \in Payments, ~pay[p].processed, ~HasPrimary(p),
           Pay(pay[p].order, Confirmed), Decided(p, "completed", "")
    PROVE  PInv'
<1> DEFINE o == pay[p].order
<1>1. o \in Orders /\ TypeOK
  BY DEF Decided, PInv, IInv
<1>2. /\ orders'[o].consumed = TRUE
      /\ \A x \in Orders \ {o} : orders'[x] = orders[x]
  BY <1>1, PayPays
<1>3. orders[o].status \notin Refunding
  BY <1>1, PayPays
<1>4. ~Commercial(p) /\ Commercial(p)'
  BY DEF Commercial, Decided
<1>5. \A q \in Payments : pay'[q].order = pay[q].order
  BY DEF Decided
<1>6. \A q \in Payments \ {p} : pay'[q] = pay[q] /\ (Commercial(q)' <=> Commercial(q))
  BY DEF Commercial, Decided
<1>7. \A q \in Payments \ {p} : Commercial(q) => pay[q].order # o
  BY DEF HasPrimary, PaymentsOf
<1>8. ASSUME NEW q \in Payments
      PROVE  /\ pay'[q].processed <=> pay'[q].status \in {"completed", "refund_required"}
             /\ ~pay'[q].processed => pay'[q].failure = ""
             /\ pay'[q].status = "refund_required" <=> pay'[q].failure = "duplicate_payment"
             /\ pay'[q].status = "refund_required" => HasPrimary(q)'
             /\ pay'[q].status = "completed" /\ pay'[q].failure # "" =>
                   /\ orders'[pay'[q].order].status \in Refunding
                   /\ ~orders'[pay'[q].order].consumed
             /\ Commercial(q)' => orders'[pay'[q].order].consumed
  <2>1. CASE q = p
    BY <1>2, <1>5, <2>1 DEF Decided
  <2>2. CASE q # p
    <3>1. pay'[q] = pay[q] /\ (Commercial(q)' <=> Commercial(q))
      BY <1>6, <2>2
    <3>2. /\ pay[q].processed <=> pay[q].status \in {"completed", "refund_required"}
          /\ ~pay[q].processed => pay[q].failure = ""
          /\ pay[q].status = "refund_required" <=> pay[q].failure = "duplicate_payment"
          /\ pay[q].status = "refund_required" => HasPrimary(q)
          /\ pay[q].status = "completed" /\ pay[q].failure # "" =>
                orders[pay[q].order].status \in Refunding /\ ~orders[pay[q].order].consumed
          /\ Commercial(q) => orders[pay[q].order].consumed
      BY DEF PInv
    <3>3. pay[q].processed => pay[q].order \in Orders
      BY DEF PInv, Rows
    <3>4. pay[q].status = "completed" /\ pay[q].failure # "" => pay[q].order # o
      BY <1>3, <3>2
    <3>5. Commercial(q) => pay[q].order # o /\ pay[q].processed
      BY <1>7, <2>2 DEF Commercial
    <3>6. ASSUME pay[q].status = "refund_required" PROVE HasPrimary(q)'
      <4>1. PICK r \in Payments \ {q} : pay[r].order = pay[q].order /\ Commercial(r)
        BY <3>2, <3>6 DEF HasPrimary, PaymentsOf
      <4>2. Commercial(r)' /\ pay'[r].order = pay'[q].order
        BY <1>4, <1>5, <1>6, <4>1
      <4>. QED  BY <4>1, <4>2 DEF HasPrimary, PaymentsOf
    <3>7. pay[q].processed /\ pay[q].order # o =>
             orders'[pay[q].order] = orders[pay[q].order]
      BY <1>2, <3>3
    <3>. QED  BY <3>1, <3>2, <3>4, <3>5, <3>6, <3>7
  <2>. QED  BY <2>1, <2>2
<1>9. ASSUME NEW q \in Payments, NEW r \in Payments, Commercial(q)', Commercial(r)',
             pay'[q].order = pay'[r].order
      PROVE  q = r
  <2>1. pay[q].order = pay[r].order
    BY <1>5, <1>9
  <2>2. CASE q # p /\ r # p
    <3>1. Commercial(q) /\ Commercial(r)
      BY <1>6, <1>9, <2>2
    <3>. QED  BY <2>1, <3>1 DEF PInv
  <2>3. CASE q = p \/ r = p
    BY <1>6, <1>7, <1>9, <2>1, <2>3
  <2>. QED  BY <2>2, <2>3
<1>10. ASSUME NEW x \in Orders, orders'[x].consumed
       PROVE  \E q \in Payments : Commercial(q)' /\ pay'[q].order = x
  <2>1. CASE x = o
    BY <1>4, <1>5, <2>1
  <2>2. CASE x # o
    <3>1. PICK q \in Payments : Commercial(q) /\ pay[q].order = x
      BY <1>2, <1>10, <2>2 DEF PInv
    <3>2. q # p
      BY <1>4, <3>1
    <3>. QED  BY <1>5, <1>6, <3>1, <3>2
  <2>. QED  BY <2>1, <2>2
<1>. QED  BY <1>8, <1>9, <1>10 DEF PInv, Decided
-------------------------------------------------------------------------------
(* The kinds of step *)

\* What handle_payment_completed may decide about payment p.
Verdict(p) ==
    \/ HasPrimary(p) /\ UNCHANGED vars /\ Decided(p, "refund_required", "duplicate_payment")
    \/ /\ ~HasPrimary(p) /\ RefundRequired(pay[p].order)
       /\ orders[pay[p].order].status \in Payable \cup {"cancelled", "expired"}
       /\ \E f \in {"late_payment_refund_required", "payment_refund_required"} :
             Decided(p, "completed", f)
    \/ ~HasPrimary(p) /\ Pay(pay[p].order, Confirmed) /\ Decided(p, "completed", "")

\* handle_payment_completed reaches one of the three verdicts; the paid order
\* of fulfill_order's early return always has a commercial payment already.
LEMMA CaptureDecides ==
    ASSUME PInv, NEW p \in Payments, pay[p].status # "absent", ~pay[p].processed,
           Capture(p)
    PROVE  Verdict(p)
<1>1. Rows /\ pay[p].order \in Orders
  BY DEF PInv, Rows
<1>2. Failure = {"", "duplicate_payment", "late_payment_refund_required",
                 "payment_refund_required"}
  BY DEF Failure
<1>3. CASE Duplicate(p)
  <2>1. Decided(p, "refund_required", "duplicate_payment")
    BY <1>1, <1>2, <1>3, SetPayDecides DEF Duplicate
  <2>. QED  BY <1>3, <2>1 DEF Duplicate, Verdict
<1>4. CASE Late(p)
  <2>1. Decided(p, "completed", "late_payment_refund_required")
    BY <1>1, <1>2, <1>4, SetPayDecides DEF Late
  <2>. QED  BY <1>4, <2>1 DEF Late, Verdict
<1>5. CASE Fulfil(p)
  <2>1. Decided(p, "completed", "")
    BY <1>1, <1>2, <1>5, SetPayDecides DEF Fulfil
  <2>2. orders[pay[p].order].status # "paid"
    <3>1. SUFFICES ASSUME orders[pay[p].order].status = "paid" PROVE FALSE
      OBVIOUS
    <3>2. orders[pay[p].order].consumed
      BY <1>1, <3>1 DEF PInv, IInv, RowInv, Fulfilled
    <3>3. PICK q \in Payments : Commercial(q) /\ pay[q].order = pay[p].order
      BY <1>1, <3>2 DEF PInv
    <3>4. q # p
      BY <3>3 DEF Commercial
    <3>. QED  BY <1>5, <3>3, <3>4 DEF Fulfil, HasPrimary, PaymentsOf
  <2>. QED  BY <1>5, <2>1, <2>2 DEF Fulfil, Verdict
<1>6. CASE Unfulfillable(p)
  <2>1. Decided(p, "completed", "payment_refund_required")
    BY <1>1, <1>2, <1>6, SetPayDecides DEF Unfulfillable
  <2>. QED  BY <1>6, <2>1 DEF Unfulfillable, Verdict
<1>. QED  BY <1>3, <1>4, <1>5, <1>6 DEF Capture

\* Rows that are only marked failed or processing stay undecided.
LEMMA MarkUndecided ==
    ASSUME PInv, NEW p \in Payments, pay[p].status # "absent", ~pay[p].processed,
           NEW st \in {"failed", "processing"},
           pay' = [pay EXCEPT ![p].status = st],
           orders' = orders \/ \E o \in Orders : Stay(o)
    PROVE  Undecided
<1>1. pay[p] \in Payment /\ pay \in [Payments -> Payment] /\ pay[p].order \in Orders
  BY DEF PInv, Rows
<1>2. /\ pay'[p].status = st /\ pay'[p].order = pay[p].order
      /\ pay'[p].processed = pay[p].processed /\ pay'[p].failure = pay[p].failure
      /\ \A q \in Payments \ {p} : pay'[q] = pay[q]
  BY <1>1 DEF Payment
<1>3. st \in PayStatus /\ st # "absent"
  BY DEF PayStatus, Reconcilable
<1>4. pay' \in [Payments -> Payment]
  BY <1>1, <1>3 DEF Payment
<1>5. Rows'
  BY <1>1, <1>2, <1>3, <1>4, RowsAgain DEF PInv
<1>6. pay[p].failure = ""
  BY DEF PInv
<1>. QED  BY <1>2, <1>5, <1>6 DEF Undecided, PInv

\* A callback or a refresh decides a payment, or leaves all undecided.
LEMMA AnswerStep ==
    ASSUME PInv, NEW p \in Payments,
           (\E hint \in Hints : Webhook(p, hint)) \/ Refresh(p)
    PROVE  /\ Next \/ UNCHANGED vars
           /\ Undecided \/ (~pay[p].processed /\ Verdict(p))
<1>1. pay[p].status # "absent" /\ pay[p].order \in Orders
  BY DEF Webhook, Refresh, PInv, Rows
<1>2. Refresh(p) => ~pay[p].processed
  BY DEF Refresh, PInv
<1>3. CASE UNCHANGED <<vars, pay>>
  BY <1>3 DEF vars, Undecided, PInv, Rows
<1>4. CASE ~pay[p].processed /\ Capture(p)
  BY <1>1, <1>4, CaptureDecides, CaptureRefines
<1>5. ASSUME ~pay[p].processed, NEW st \in {"failed", "processing"}, NEW target,
             pay' = [pay EXCEPT ![p].status = st], FollowPayment(pay[p].order, target)
      PROVE  (Next \/ UNCHANGED vars) /\ Undecided
  <2>1. orders' = orders \/ Stay(pay[p].order)
    BY <1>1, <1>5, FollowStays DEF PInv, IInv
  <2>2. Undecided
    BY <1>1, <1>5, <2>1, MarkUndecided
  <2>. QED  BY <1>1, <1>5, <2>2, FollowRefines
<1>. QED  BY <1>2, <1>3, <1>4, <1>5 DEF Webhook, Refresh

\* Every step of the payment module is a lifecycle step or none, and decides
\* at most one payment.
LEMMA StepKinds ==
    ASSUME PInv, PayNext
    PROVE  /\ Next \/ UNCHANGED vars
           /\ Undecided \/ \E p \in Payments : ~pay[p].processed /\ Verdict(p)
<1>1. ASSUME NEW o \in Orders, NEW p \in Payments, Initialize(o, p)
      PROVE  UNCHANGED vars /\ Undecided
  <2> DEFINE n == [Absent EXCEPT !.status = "redirect_required", !.order = o]
  <2>1. pay[p].processed = FALSE /\ pay \in [Payments -> Payment]
    BY <1>1 DEF Initialize, PInv, Rows
  <2>2. /\ n.status = "redirect_required" /\ n.order = o
        /\ n.processed = FALSE /\ n.failure = "" /\ n \in Payment
    BY AbsentRow DEF Payment, PayStatus, Reconcilable
  <2>3. pay' = [pay EXCEPT ![p] = n] /\ UNCHANGED vars
    BY <1>1 DEF Initialize
  <2>. HIDE DEF n
  <2>4. pay'[p] = n /\ \A q \in Payments \ {p} : pay'[q] = pay[q]
    BY <2>1, <2>3
  <2>5. pay' \in [Payments -> Payment]
    BY <2>1, <2>2, <2>3
  <2>6. Rows'
    BY <2>2, <2>4, <2>5, RowsAgain DEF PInv
  <2>. QED  BY <2>1, <2>2, <2>3, <2>4, <2>6 DEF Undecided, PInv, vars
<1>2. ASSUME UNCHANGED <<orders, pay>> PROVE Undecided
  BY <1>2 DEF Undecided, PInv, Rows
<1>3. ASSUME NEW o \in Orders, InitializeLost(o)  PROVE UNCHANGED vars /\ Undecided
  BY <1>2, <1>3 DEF InitializeLost, vars
<1>4. ASSUME NEW p \in Payments, NEW answer \in Answers, Settle(p, answer)
      PROVE  UNCHANGED vars /\ Undecided
  BY <1>2, <1>4 DEF Settle, vars
<1>5. ASSUME OrderStep \/ \E o \in Orders : ExpireUnpaid(o) \/ RefundOrder(o)
      PROVE  Next /\ Undecided
  <2>1. /\ UNCHANGED payVars
        /\ orders' = orders \/ \E o \in Orders : Stay(o)
    BY <1>5, OrderStepStays DEF PInv, IInv
  <2>2. Undecided
    BY <2>1 DEF payVars, Undecided, PInv, Rows
  <2>3. \A p \in Payments : EvidenceOf(p) \in PaymentEvidence
    BY DEF EvidenceOf, PaymentEvidence
  <2>4. "staff" \in Actors
    BY DEF Actors
  <2>5. ASSUME NEW o \in Orders, ExpireUnpaid(o) PROVE Next
    BY <2>5 DEF ExpireUnpaid, Next
  <2>6. ASSUME NEW o \in Orders, RefundOrder(o) PROVE Next
    BY <2>3, <2>4, <2>6 DEF RefundOrder, PaymentsOf, Next
  <2>7. ASSUME OrderStep PROVE Next
    BY <2>7 DEF OrderStep, Next
  <2>. QED  BY <1>5, <2>2, <2>5, <2>6, <2>7
<1>. QED
  BY <1>1, <1>3, <1>4, <1>5, AnswerStep DEF PayNext

\* The first state satisfies the invariant.
LEMMA PayInitInv == PayInit => PInv
<1> SUFFICES ASSUME PayInit PROVE PInv
  OBVIOUS
<1>1. IInv
  BY InitInv DEF PayInit
<1>2. \A p \in Payments : pay[p] = Absent
  BY DEF PayInit
<1>3. \A p \in Payments : /\ pay[p].status = "absent" /\ pay[p].processed = FALSE
                          /\ pay[p].failure = "" /\ pay[p] \in Payment
  BY <1>2, AbsentRow
<1>4. Rows
  BY <1>3 DEF PayInit, Rows
<1>5. \A p \in Payments : ~Commercial(p)
  BY <1>3 DEF Commercial
<1>6. \A o \in Orders : ~orders[o].consumed
  BY DEF PayInit, Init, LegacyPending, Cart
<1>. QED  BY <1>1, <1>3, <1>4, <1>5, <1>6 DEF PInv

\* Every step keeps the invariant.
LEMMA PayStepInv == PInv /\ [PayNext]_allVars => PInv'
<1> SUFFICES ASSUME PInv, [PayNext]_allVars PROVE PInv'
  OBVIOUS
<1>1. CASE UNCHANGED allVars
  <2>1. IInv' /\ Undecided
    BY <1>1, StepInv DEF allVars, payVars, vars, PInv, Undecided, Rows
  <2>. QED  BY <2>1, UndecidedStep
<1>2. CASE PayNext
  <2>1. IInv'
    BY <1>2, StepKinds, StepInv DEF PInv
  <2>2. CASE Undecided
    BY <2>1, <2>2, UndecidedStep
  <2>3. ASSUME NEW p \in Payments, ~pay[p].processed, Verdict(p) PROVE PInv'
    BY <2>1, <2>3, DuplicateStep, GiveBackStep, PayOrderStep DEF Verdict
  <2>. QED  BY <1>2, <2>2, <2>3, StepKinds
<1>. QED  BY <1>1, <1>2

\* PInv always holds.
THEOREM PayInvariance == PaySpec => []PInv
  BY PayInitInv, PayStepInv, PTL DEF PaySpec
-------------------------------------------------------------------------------
(* The order of a payment *)

\* An opened payment keeps its order; only Initialize gives one.
LEMMA OwnersKept ==
    ASSUME Rows, PayNext
    PROVE  /\ \A p \in Payments : pay[p].status # "absent" => pay'[p].order = pay[p].order
           /\ \/ \A p \in Payments : pay'[p].order = pay[p].order
              \/ \E o \in Orders, p \in Payments : Initialize(o, p)
<1>1. pay \in [Payments -> Payment]
  BY DEF Rows
<1>2. ASSUME NEW p \in Payments, NEW st, NEW pr, NEW f,
             \/ pay' = [pay EXCEPT ![p].status = st]
             \/ pay' = [pay EXCEPT ![p].status = st, ![p].processed = pr,
                                   ![p].failure = f]
      PROVE  \A q \in Payments : pay'[q].order = pay[q].order
  BY <1>1, <1>2 DEF Payment
<1>3. ASSUME NEW p \in Payments, Capture(p)
      PROVE  \A q \in Payments : pay'[q].order = pay[q].order
  <2>1. PICK st, f : SetPay(p, st, TRUE, f)
    BY <1>3 DEF Capture, Duplicate, Late, Fulfil, Unfulfillable
  <2>. QED  BY <1>2, <2>1 DEF SetPay
<1>4. ASSUME NEW p \in Payments, NEW hint \in Hints, Webhook(p, hint)
      PROVE  \A q \in Payments : pay'[q].order = pay[q].order
  BY <1>2, <1>3, <1>4 DEF Webhook
<1>5. ASSUME NEW p \in Payments, Refresh(p)
      PROVE  \A q \in Payments : pay'[q].order = pay[q].order
  BY <1>2, <1>3, <1>5 DEF Refresh
<1>6. ASSUME NEW o \in Orders, NEW p \in Payments, Initialize(o, p)
      PROVE  \A q \in Payments : pay[q].status # "absent" => pay'[q] = pay[q]
  BY <1>1, <1>6 DEF Initialize
<1>7. CASE pay' = pay
  BY <1>7
<1>8. PayNext => \/ \E o \in Orders, p \in Payments : Initialize(o, p)
                 \/ \E p \in Payments, hint \in Hints : Webhook(p, hint)
                 \/ \E p \in Payments : Refresh(p)
                 \/ pay' = pay
  BY DEF PayNext, InitializeLost, ExpireUnpaid, RefundOrder, Settle, OrderStep, payVars
<1>. QED  BY <1>4, <1>5, <1>6, <1>7, <1>8

-------------------------------------------------------------------------------
(* The properties *)

\* Orders, payments, sessions and deduplication keys keep their types; stock
\* stays a natural number under any interleaving of payments.
THEOREM PayTypes == PaySpec => []PayTypeOK
<1> DEFINE Others == /\ prov \in [Payments -> {"none"} \cup Answers]
                   /\ orphans \in [Orders -> 0 .. MaxOrphans]
                   /\ seen \in SUBSET Keys
<1>1. PayInit => Others
  BY PaymentsAssumption DEF PayInit
<1>2. Others /\ [PayNext]_allVars => Others'
  <2> SUFFICES ASSUME Others, PayNext PROVE Others'
    BY DEF allVars, payVars
  <2>1. ASSUME NEW o \in Orders, NEW p \in Payments, Initialize(o, p) PROVE Others'
    BY <2>1 DEF Initialize, Answers
  <2>2. ASSUME NEW o \in Orders, InitializeLost(o) PROVE Others'
    <3>1. orphans[o] \in 0 .. MaxOrphans /\ orphans[o] < MaxOrphans
      BY <2>2 DEF InitializeLost
    <3>2. orphans[o] + 1 \in 0 .. MaxOrphans
      BY <3>1, PaymentsAssumption DEF PaymentsAssumption
    <3>. QED  BY <2>2, <3>2 DEF InitializeLost
  <2>3. ASSUME NEW p \in Payments, NEW answer \in Answers, Settle(p, answer) PROVE Others'
    BY <2>3 DEF Settle
  <2>4. ASSUME NEW p \in Payments, NEW hint \in Hints, Webhook(p, hint) PROVE Others'
    <3>1. KeyOf(p, hint) \in Keys
      BY DEF Keys
    <3>. QED  BY <2>4, <3>1 DEF Webhook
  <2>5. ASSUME NEW p \in Payments, Refresh(p) PROVE Others'
    BY <2>5 DEF Refresh
  <2>6. ASSUME UNCHANGED payVars PROVE Others'
    BY <2>6 DEF payVars
  <2>. QED  BY <2>1, <2>2, <2>3, <2>4, <2>5, <2>6
            DEF PayNext, ExpireUnpaid, RefundOrder, OrderStep
<1>3. PInv /\ Others => PayTypeOK
  BY DEF PInv, IInv, Rows, PayTypeOK
<1>. HIDE DEF Others
<1>. QED  BY <1>1, <1>2, <1>3, PayInvariance, PTL DEF PaySpec

\* Every step of the payment flow, followed on its orders, is a step of
\* OrderLifecycle: payments use the state machine and never bypass it.
THEOREM LifecycleRefinement == PaySpec => ImplementsLifecycle
<1>1. PayInit => Init
  BY DEF PayInit
<1>2. PInv /\ [PayNext]_allVars => [Next]_vars
  BY StepKinds DEF allVars
<1>. QED  BY <1>1, <1>2, PayInvariance, PTL DEF PaySpec, Spec, ImplementsLifecycle

\* However many callbacks, polls and cron runs hit the payments of an order,
\* it is paid exactly if it has a commercial payment, and by one only.
THEOREM OneCommercial == PaySpec => []OneCommercialPayment
<1>1. PInv => OneCommercialPayment
  <2> SUFFICES ASSUME PInv, NEW o \in Orders
               PROVE  LET paid == {p \in PaymentsOf(o) : Commercial(p)}
                      IN  Cardinality(paid) <= 1 /\ (orders[o].consumed <=> paid # {})
    BY DEF OneCommercialPayment
  <2> DEFINE paid == {p \in PaymentsOf(o) : Commercial(p)}
  <2>1. orders[o].consumed <=> paid # {}
    BY DEF PInv, PaymentsOf
  <2>2. \A p, q \in paid : p = q
    BY DEF PInv, PaymentsOf
  <2>. HIDE DEF paid
  <2>3. Cardinality(paid) <= 1
    <3>1. CASE paid = {}
      BY <3>1, FS_EmptySet
    <3>2. ASSUME NEW p \in paid PROVE Cardinality(paid) <= 1
      <4>1. paid = {p}
        BY <2>2
      <4>2. Cardinality({p}) = 1
        BY FS_Singleton
      <4>. QED  BY <4>1, <4>2
    <3>. QED  BY <3>1, <3>2
  <2>. QED  BY <2>1, <2>3 DEF paid
<1>. QED  BY <1>1, PayInvariance, PTL

\* A confirmed payment is decided in the transaction that confirms it, and the
\* one that did not pay its order has left it on the way to a refund.
THEOREM CapturesAccounted == PaySpec => []CapturesAreAccounted
<1>1. PInv => CapturesAreAccounted
  BY DEF PInv, CapturesAreAccounted, Commercial
<1>. QED  BY <1>1, PayInvariance, PTL

\* A decided payment is never touched again by the payment flow, and no
\* payment moves to another order.
THEOREM DecisionsFinal == PaySpec => DecisionsAreFinal
<1> DEFINE A == \A p \in Payments :
              /\ pay[p].processed => pay'[p] = pay[p]
              /\ pay[p].status # "absent" => pay'[p].order = pay[p].order
<1>1. PInv /\ [PayNext]_allVars => [A]_allVars
  <2> SUFFICES ASSUME PInv, PayNext, NEW p \in Payments
               PROVE  /\ pay[p].processed => pay'[p] = pay[p]
                      /\ pay[p].status # "absent" => pay'[p].order = pay[p].order
    OBVIOUS
  <2>1. pay[p].processed => pay'[p] = pay[p]
    BY StepKinds DEF Undecided, Verdict, Decided
  <2>2. pay[p].status # "absent" => pay'[p].order = pay[p].order
    BY OwnersKept DEF PInv
  <2>. QED  BY <2>1, <2>2
<1>. HIDE DEF A
<1>2. PaySpec => [][A]_allVars
  BY <1>1, PayInvariance, PTL DEF PaySpec
<1>. QED  BY <1>2 DEF A, DecisionsAreFinal
-------------------------------------------------------------------------------
(* Receipts *)

\* Payment p is the commercial payment of order o.
Names(o, p) ==
    /\ pay[p].status = "completed" /\ pay[p].processed /\ pay[p].failure = ""
    /\ pay[p].order = o

\* An issued receipt names a commercial payment; so does the one a download
\* has read, of an order whose columns were frozen.
RInv ==
    /\ PInv
    /\ receipt \in [Orders -> Payments \cup {NoPayment}]
    /\ asked \in [Orders -> Payments \cup {NoPayment}]
    /\ \A o \in Orders, p \in Payments :
          /\ receipt[o] = p => Names(o, p)
          /\ asked[o] = p => Names(o, p) /\ orders[o].snapshot

SnapshotsStay == \A o \in Orders : orders[o].snapshot => orders'[o].snapshot

\* With its receipts, the payment flow is still the payment flow.
THEOREM ReceiptRefinement == ReceiptSpec => PaySpec
<1>1. ReceiptInit => PayInit
  BY DEF ReceiptInit
<1>2. [ReceiptNext]_everything => [PayNext]_allVars
  BY DEF ReceiptNext, Business, Deploy, AskReceipt, Issue, everything, allVars, payVars, vars
<1>. QED  BY <1>1, <1>2, PTL DEF ReceiptSpec, PaySpec

\* A commercial payment is never changed again.
LEMMA NamesKept ==
    ASSUME PInv, [PayNext]_allVars, NEW o \in Orders, NEW p \in Payments, Names(o, p)
    PROVE  pay'[p] = pay[p]
<1>1. CASE PayNext
  BY <1>1, StepKinds DEF Names, Undecided, Verdict, Decided
<1>2. CASE UNCHANGED allVars
  BY <1>2 DEF allVars, payVars
<1>. QED  BY <1>1, <1>2

\* The step that pays an order changes one payment: the one that paid it.
LEMMA PaidByOne ==
    ASSUME PInv, PInv', PayNext, NEW o \in Orders, NewlyPaid(o)
    PROVE  \E p \in Payments : /\ Names(o, p)' /\ pay'[p] # pay[p]
                               /\ \A q \in Payments : pay'[q] # pay[q] => q = p
<1>1. \E p \in Payments : Commercial(p)' /\ pay'[p].order = o
  BY DEF NewlyPaid, PInv
<1>2. PICK p \in Payments : /\ pay'[p].status = "completed" /\ pay'[p].processed
                            /\ pay'[p].failure = "" /\ pay'[p].order = o
  BY <1>1 DEF Commercial
<1>3. pay'[p] # pay[p]
  <2>1. SUFFICES ASSUME pay'[p] = pay[p] PROVE FALSE
    OBVIOUS
  <2>2. Commercial(p) /\ pay[p].order = o
    BY <1>2, <2>1 DEF Commercial
  <2>3. orders[o].consumed
    BY <2>2 DEF PInv
  <2>. QED  BY <2>3 DEF NewlyPaid
<1>4. ~Undecided
  BY <1>2, <1>3 DEF Undecided
<1>5. PICK w \in Payments : Verdict(w)
  BY <1>4, StepKinds
<1>6. \A q \in Payments : pay'[q] # pay[q] => q = w
  BY <1>5 DEF Verdict, Decided
<1>7. p = w
  BY <1>3, <1>6
<1>. QED  BY <1>2, <1>3, <1>6, <1>7 DEF Names

\* What the view and issue check of order and payment makes the payment the
\* commercial one: the money of a late payment never was an order's consumption.
LEMMA IssuableNames ==
    ASSUME PInv, NEW o \in Orders, NEW p \in Payments, Issuable(o, p)
    PROVE  Names(o, p) /\ orders[o].snapshot
<1>1. orders[o].consumed
  BY DEF Issuable, PInv, IInv, RowInv
<1>2. pay[p].failure = "" /\ pay[p].processed
  BY <1>1 DEF Issuable, PInv
<1>. QED  BY <1>2 DEF Issuable, Names

\* The receipts the paid transition issues.
LEMMA IssuePaidNames ==
    ASSUME RInv, PInv', PayNext, IssuePaid, NEW o \in Orders
    PROVE  \/ receipt'[o] = receipt[o] /\ ~(issuing /\ NewlyPaid(o) /\ receipt[o] = NoPayment)
           \/ \E p \in Payments : receipt'[o] = p /\ receipt[o] = NoPayment /\ Names(o, p)'
<1>1. CASE issuing /\ NewlyPaid(o) /\ receipt[o] = NoPayment
  <2>1. PICK p \in Payments : /\ Names(o, p)' /\ pay'[p] # pay[p]
                              /\ \A q \in Payments : pay'[q] # pay[q] => q = p
    BY <1>1, PaidByOne DEF RInv
  <2>2. receipt'[o] = CHOOSE q \in Payments : pay'[q].order = o /\ pay'[q] # pay[q]
    BY <1>1 DEF IssuePaid
  <2>3. pay'[p].order = o
    BY <2>1 DEF Names
  <2>4. \E q \in Payments : pay'[q].order = o /\ pay'[q] # pay[q]
    BY <2>1, <2>3
  <2>5. receipt'[o] \in Payments /\ pay'[receipt'[o]] # pay[receipt'[o]]
    BY <2>2, <2>4
  <2>6. receipt'[o] = p
    BY <2>1, <2>5
  <2>. QED  BY <1>1, <2>1, <2>6
<1>2. CASE ~(issuing /\ NewlyPaid(o) /\ receipt[o] = NoPayment)
  BY <1>2 DEF IssuePaid
<1>. QED  BY <1>1, <1>2

\* RInv is inductive, given that snapshots stay.
LEMMA ReceiptStepInv == RInv /\ [ReceiptNext]_everything /\ SnapshotsStay => RInv'
<1> SUFFICES ASSUME RInv, [ReceiptNext]_everything, SnapshotsStay PROVE RInv'
  OBVIOUS
<1>1. [PayNext]_allVars
  BY DEF ReceiptNext, Business, Deploy, AskReceipt, Issue, everything, allVars, payVars, vars
<1>2. PInv'
  BY <1>1, PayStepInv DEF RInv
<1>3. \A o \in Orders, p \in Payments : Names(o, p) => pay'[p] = pay[p]
  BY <1>1, NamesKept DEF RInv
<1>4. \A o \in Orders, p \in Payments : Names(o, p) => Names(o, p)'
  BY <1>3 DEF Names
<1>5. CASE Business
  <2>1. asked' = asked /\ PayNext /\ IssuePaid
    BY <1>5 DEF Business
  <2>2. ASSUME NEW o \in Orders
        PROVE  \/ receipt'[o] = receipt[o]
               \/ \E p \in Payments : receipt'[o] = p /\ Names(o, p)'
    BY <1>2, <2>1, IssuePaidNames
  <2>3. receipt' = [o \in Orders |-> receipt'[o]]
    BY <2>1 DEF IssuePaid
  <2>4. \A o \in Orders : receipt'[o] \in Payments \cup {NoPayment}
    BY <2>2 DEF RInv
  <2>5. receipt' \in [Orders -> Payments \cup {NoPayment}]
    BY <2>3, <2>4
  <2>6. ASSUME NEW o \in Orders, NEW p \in Payments, receipt'[o] = p PROVE Names(o, p)'
    BY <1>4, <2>2, <2>6 DEF RInv
  <2>7. ASSUME NEW o \in Orders, NEW p \in Payments, asked'[o] = p
        PROVE  Names(o, p)' /\ orders'[o].snapshot
    BY <1>4, <2>1, <2>7 DEF RInv, SnapshotsStay
  <2>. QED  BY <1>2, <2>1, <2>5, <2>6, <2>7 DEF RInv
<1>6. CASE Deploy \/ UNCHANGED everything
  <2>1. asked' = asked /\ receipt' = receipt
    BY <1>6 DEF Deploy, everything, receiptVars
  <2>. QED  BY <1>2, <1>4, <2>1 DEF RInv, SnapshotsStay
<1>7. ASSUME NEW o \in Orders, NEW p \in Payments, AskReceipt(o, p) PROVE RInv'
  <2>1. asked' = [asked EXCEPT ![o] = p] /\ receipt' = receipt /\ Issuable(o, p)
    BY <1>7 DEF AskReceipt
  <2>2. Names(o, p) /\ orders[o].snapshot
    BY <2>1, IssuableNames DEF RInv
  <2>3. ASSUME NEW x \in Orders, NEW q \in Payments, asked'[x] = q
        PROVE  Names(x, q)' /\ orders'[x].snapshot
    <3>1. CASE x = o
      <4>1. q = p
        BY <2>1, <2>3, <3>1 DEF RInv
      <4>. QED  BY <1>4, <2>2, <3>1, <4>1 DEF SnapshotsStay
    <3>2. CASE x # o
      <4>1. asked[x] = q
        BY <2>1, <2>3, <3>2 DEF RInv
      <4>. QED  BY <1>4, <4>1 DEF RInv, SnapshotsStay
    <3>. QED  BY <3>1, <3>2
  <2>4. ASSUME NEW x \in Orders, NEW q \in Payments, receipt'[x] = q PROVE Names(x, q)'
    BY <1>4, <2>1, <2>4 DEF RInv
  <2>5. asked' \in [Orders -> Payments \cup {NoPayment}]
    BY <2>1 DEF RInv
  <2>. QED  BY <1>2, <2>1, <2>3, <2>4, <2>5 DEF RInv
<1>8. ASSUME NEW o \in Orders, Issue(o) PROVE RInv'
  <2>1. /\ asked' = [asked EXCEPT ![o] = NoPayment] /\ asked[o] # NoPayment
        /\ receipt' = receipt \/ receipt' = [receipt EXCEPT ![o] = asked[o]]
    BY <1>8 DEF Issue
  <2>2. asked[o] \in Payments
    BY <2>1 DEF RInv
  <2>3. ASSUME NEW x \in Orders, NEW q \in Payments, asked'[x] = q
        PROVE  Names(x, q)' /\ orders'[x].snapshot
    <3>1. asked[x] = q
      BY <2>1, <2>3, ReceiptsAssumption DEF RInv, ReceiptsAssumption
    <3>. QED  BY <1>4, <3>1 DEF RInv, SnapshotsStay
  <2>4. ASSUME NEW x \in Orders, NEW q \in Payments, receipt'[x] = q PROVE Names(x, q)'
    <3>1. receipt[x] = q \/ (x = o /\ asked[x] = q)
      BY <2>1, <2>4 DEF RInv
    <3>. QED  BY <1>4, <3>1 DEF RInv
  <2>5. /\ receipt' \in [Orders -> Payments \cup {NoPayment}]
        /\ asked' \in [Orders -> Payments \cup {NoPayment}]
    BY <2>1, <2>2 DEF RInv
  <2>. QED  BY <1>2, <2>3, <2>4, <2>5 DEF RInv
<1>. QED  BY <1>5, <1>6, <1>7, <1>8 DEF ReceiptNext

\* The columns a receipt copies stay frozen: FrozenAndForward, followed on the
\* orders of the payment flow.
LEMMA ReceiptSnapshots == ReceiptSpec => [][SnapshotsStay]_vars
<1> DEFINE A == \A o \in Orders :
              /\ orders[o].snapshot =>
                    /\ orders'[o].snapshot
                    /\ \A v \in Variants :
                          /\ <<o, v>> \in deleting' => <<o, v>> \in deleting
                          /\ \/ orders'[o].lines[v] = orders[o].lines[v]
                             \/ orders'[o].lines[v] = 0 /\ <<o, v>> \in deleting \ deleting'
              /\ orders[o].status # "cart" => orders'[o].status # "cart"
              /\ orders[o].complete => orders'[o].status \notin {"cart"} \cup Payable
<1>1. A => SnapshotsStay
  BY DEF SnapshotsStay
<1>2. [A]_vars => [SnapshotsStay]_vars
  BY <1>1
<1>3. PaySpec => Spec
  BY LifecycleRefinement DEF ImplementsLifecycle
<1>4. Spec => [][A]_vars
  BY Frozen DEF FrozenAndForward
<1>. HIDE DEF A
<1>. QED  BY <1>2, <1>3, <1>4, ReceiptRefinement, PTL

\* RInv always holds.
THEOREM ReceiptInvariance == ReceiptSpec => []RInv
<1>1. ReceiptInit => RInv
  BY PayInitInv, ReceiptsAssumption DEF ReceiptInit, RInv, ReceiptsAssumption
<1>2. RInv /\ [ReceiptNext]_everything /\ [SnapshotsStay]_vars => RInv'
  <2>1. UNCHANGED vars => SnapshotsStay
    BY DEF SnapshotsStay, vars
  <2>. QED  BY <2>1, ReceiptStepInv
<1>. QED  BY <1>1, <1>2, ReceiptSnapshots, PTL DEF ReceiptSpec

\* A receipt names the one payment that paid its order, whoever issued it.
THEOREM ReceiptCommercial == ReceiptSpec => []ReceiptNamesCommercial
<1>1. RInv => ReceiptNamesCommercial
  <2> SUFFICES ASSUME RInv, NEW o \in Orders, receipt[o] # NoPayment
               PROVE  /\ orders[o].consumed
                      /\ receipt[o] \in PaymentsOf(o) /\ Commercial(receipt[o])
    BY DEF ReceiptNamesCommercial
  <2>1. receipt[o] \in Payments /\ Names(o, receipt[o])
    BY DEF RInv
  <2>2. Commercial(receipt[o]) /\ pay[receipt[o]].order = o
    BY <2>1 DEF Names, Commercial
  <2>. QED  BY <2>1, <2>2 DEF RInv, PInv, PaymentsOf
<1>. QED  BY <1>1, ReceiptInvariance, PTL

\* What the page offers is true: an order that a payment has paid is never
\* offered for payment or cancellation, one that none has paid has no receipt
\* to download, and an order offered for payment can be paid, unless a deletion
\* checked before the checkout has taken its last line away.
THEOREM OffersHold == ReceiptSpec => []OffersAreTrue
<1>1. PInv => OffersAreTrue
  <2> SUFFICES ASSUME PInv, NEW o \in Orders
               PROVE  LET paying == {p \in PaymentsOf(o) : Commercial(p)}
                      IN  /\ can_pay(o) =>
                              /\ paying = {}
                              /\ \/ MayInitialize(o) \/ LinesOf(orders[o]) = {}
                                 \/ \E p \in PaymentsOf(o) : pay[p].status \in Reconcilable
                          /\ can_cancel(o) => paying = {}
                          /\ can_download_receipt(o) =>
                              \A p \in PaymentsOf(o) : pay[p].status = "completed" => p \in paying
    BY DEF OffersAreTrue
  <2> DEFINE paying == {p \in PaymentsOf(o) : Commercial(p)}
  <2>1. RowInv(orders[o])
    BY DEF PInv, IInv
  <2>2. \A p \in PaymentsOf(o) : Commercial(p) => orders[o].consumed
    BY DEF PInv, PaymentsOf
  <2>3. can_pay(o) => paying = {}
    BY DEF can_pay, HasCompleted, Commercial
  <2>4. ASSUME can_pay(o), \A p \in PaymentsOf(o) : pay[p].status \notin Reconcilable
        PROVE  MayInitialize(o) \/ LinesOf(orders[o]) = {}
    <3>1. orders[o].status \in Payable /\ orders[o].snapshot
      BY <2>1, <2>4 DEF can_pay, RowInv
    <3>. QED  BY <2>4, <3>1 DEF can_pay, HasCompleted, MayInitialize
  <2>5. can_cancel(o) => paying = {}
    BY <2>2 DEF can_cancel
  <2>6. ASSUME can_download_receipt(o), NEW p \in PaymentsOf(o), pay[p].status = "completed"
        PROVE  p \in paying
    <3>1. orders[o].consumed
      BY <2>1, <2>6 DEF can_download_receipt, RowInv
    <3>2. pay[p].processed /\ pay[p].failure = ""
      BY <2>6, <3>1 DEF PInv, PaymentsOf
    <3>. QED  BY <2>6, <3>2 DEF Commercial
  <2>. HIDE DEF paying
  <2>7. /\ can_pay(o) =>
              /\ paying = {}
              /\ \/ MayInitialize(o) \/ LinesOf(orders[o]) = {}
                 \/ \E p \in PaymentsOf(o) : pay[p].status \in Reconcilable
        /\ can_cancel(o) => paying = {}
        /\ can_download_receipt(o) =>
              \A p \in PaymentsOf(o) : pay[p].status = "completed" => p \in paying
    BY <2>3, <2>4, <2>5, <2>6
  <2>. QED  BY <2>7 DEF paying
<1>2. PaySpec => []PInv
  BY PayInvariance
<1>. QED  BY <1>1, <1>2, ReceiptRefinement, PTL

\* A receipt stays as issued, a paid order has one from the start, and what a
\* download read keeps the order issuable whatever refund starts meanwhile.
THEOREM ReceiptStanding == ReceiptSpec => ReceiptStands
<1> DEFINE A == \A o \in Orders :
          /\ receipt[o] # NoPayment => receipt'[o] = receipt[o]
          /\ issuing /\ NewlyPaid(o) => receipt'[o] # NoPayment
          /\ asked[o] # NoPayment /\ asked'[o] = NoPayment => receipt'[o] # NoPayment
<1>1. ASSUME PInv, NEW o \in Orders, NEW p \in Payments, Names(o, p), orders[o].snapshot
      PROVE  Issuable(o, p)
  <2>1. orders[o].consumed
    BY <1>1 DEF Names, Commercial, PInv
  <2>2. "paid_at" \in orders[o].stamps /\ orders[o].status \in Fulfilled \cup Refunding
    BY <1>1, <2>1 DEF PInv, IInv, RowInv
  <2>. QED  BY <1>1, <2>2 DEF Issuable, Names, ELIGIBLE_RECEIPT_STATUSES
<1>2. ASSUME RInv, RInv', [ReceiptNext]_everything PROVE [A]_everything
  <2>1. CASE Business
    <3>1. asked' = asked /\ PayNext /\ IssuePaid /\ PInv'
      BY <1>2, <2>1 DEF Business, RInv
    <3>2. ASSUME NEW o \in Orders
          PROVE  /\ receipt[o] # NoPayment => receipt'[o] = receipt[o]
                 /\ issuing /\ NewlyPaid(o) => receipt'[o] # NoPayment
      BY <1>2, <3>1, IssuePaidNames, ReceiptsAssumption DEF ReceiptsAssumption
    <3>. QED  BY <3>1, <3>2
  <2>2. CASE Deploy \/ UNCHANGED everything
    BY <2>2 DEF Deploy, NewlyPaid, everything, allVars, vars
  <2>3. ASSUME NEW o \in Orders, NEW p \in Payments, AskReceipt(o, p) PROVE A
    BY <1>2, <2>3, ReceiptsAssumption
    DEF AskReceipt, NewlyPaid, allVars, vars, RInv, ReceiptsAssumption
  <2>4. ASSUME NEW o \in Orders, Issue(o) PROVE A
    <3>1. asked[o] \in Payments /\ asked' = [asked EXCEPT ![o] = NoPayment] /\ orders' = orders
      BY <1>2, <2>4 DEF Issue, RInv, allVars, vars
    <3>2. Issuable(o, asked[o])
      BY <1>1, <1>2, <3>1 DEF RInv
    <3>3. receipt' = IF receipt[o] = NoPayment
                     THEN [receipt EXCEPT ![o] = asked[o]] ELSE receipt
      BY <2>4, <3>2 DEF Issue
    <3>4. ASSUME NEW x \in Orders, x # o
          PROVE  receipt'[x] = receipt[x] /\ asked'[x] = asked[x]
      BY <1>2, <3>1, <3>3, <3>4 DEF RInv
    <3>5. /\ receipt'[o] # NoPayment
          /\ receipt[o] # NoPayment => receipt'[o] = receipt[o]
      BY <1>2, <3>1, <3>3, ReceiptsAssumption DEF RInv, ReceiptsAssumption
    <3>. QED  BY <3>1, <3>4, <3>5 DEF NewlyPaid
  <2>. QED  BY <1>2, <2>1, <2>2, <2>3, <2>4 DEF ReceiptNext
<1>3. RInv /\ RInv' /\ [ReceiptNext]_everything => [A]_everything
  BY <1>2
<1>. HIDE DEF A
<1>4. ReceiptSpec => [][A]_everything
  BY <1>3, ReceiptInvariance, PTL DEF ReceiptSpec
<1>. QED  BY <1>4 DEF A, ReceiptStands

-------------------------------------------------------------------------------
(* The payment flow implements Settlement: PInv says what a step finds, the    *)
(* lemmas below which step of Settlement each kind of payment step is, read    *)
(* through OwnerMap, VerdictMap and ShutMap.                                   *)

-------------------------------------------------------------------------------
(* Payments that were not opened *)

\* An absent payment belongs to no order.
Unopened == \A p \in Payments : pay[p].status = "absent" => pay[p].order = NoOrder

\* No step takes an opened payment back to absent.
LEMMA OpenedStays ==
    ASSUME Rows, PayNext, NEW q \in Payments, pay'[q].status = "absent"
    PROVE  pay[q].status = "absent"
<1>1. pay \in [Payments -> Payment]
  BY DEF Rows
<1>2. ASSUME NEW p \in Payments, NEW st, st # "absent", NEW pr, NEW f,
             \/ pay' = [pay EXCEPT ![p].status = st]
             \/ pay' = [pay EXCEPT ![p].status = st, ![p].processed = pr,
                                   ![p].failure = f]
      PROVE  pay[q].status = "absent"
  BY <1>1, <1>2 DEF Payment
<1>3. ASSUME NEW p \in Payments, Capture(p)
      PROVE  pay[q].status = "absent"
  <2>1. \/ \E f : SetPay(p, "completed", TRUE, f)
        \/ \E f : SetPay(p, "refund_required", TRUE, f)
    <3>1. CASE Duplicate(p)
      BY <3>1 DEF Duplicate
    <3>2. CASE Late(p)
      BY <3>2 DEF Late
    <3>3. CASE Fulfil(p)
      BY <3>3 DEF Fulfil
    <3>4. CASE Unfulfillable(p)
      BY <3>4 DEF Unfulfillable
    <3>. QED  BY <1>3, <3>1, <3>2, <3>3, <3>4 DEF Capture
  <2>. QED  BY <1>2, <2>1 DEF SetPay
<1>4. ASSUME NEW p \in Payments, NEW hint \in Hints, Webhook(p, hint)
      PROVE  pay[q].status = "absent"
  BY <1>2, <1>3, <1>4 DEF Webhook
<1>5. ASSUME NEW p \in Payments, Refresh(p)
      PROVE  pay[q].status = "absent"
  BY <1>2, <1>3, <1>5 DEF Refresh
<1>6. ASSUME NEW o \in Orders, NEW p \in Payments, Initialize(o, p)
      PROVE  pay[q].status = "absent"
  BY <1>1, <1>6 DEF Initialize
<1>7. PayNext => \/ \E o \in Orders, p \in Payments : Initialize(o, p)
                 \/ \E p \in Payments, hint \in Hints : Webhook(p, hint)
                 \/ \E p \in Payments : Refresh(p)
                 \/ pay' = pay
  BY DEF PayNext, InitializeLost, ExpireUnpaid, RefundOrder, Settle, OrderStep, payVars
<1>. QED  BY <1>4, <1>5, <1>6, <1>7

\* What Initialize writes.
LEMMA InitializeRow ==
    ASSUME Rows, NEW o \in Orders, NEW p \in Payments, Initialize(o, p)
    PROVE  /\ pay'[p].status = "redirect_required" /\ pay'[p].order = o
           /\ pay'[p].processed = FALSE /\ pay'[p].failure = ""
           /\ \A q \in Payments \ {p} : pay'[q] = pay[q]
           /\ orders' = orders
<1> DEFINE n == [Absent EXCEPT !.status = "redirect_required", !.order = o]
<1>1. /\ n.status = "redirect_required" /\ n.order = o
      /\ n.processed = FALSE /\ n.failure = ""
  BY DEF Absent
<1>2. pay \in [Payments -> Payment] /\ pay' = [pay EXCEPT ![p] = n]
  BY DEF Initialize, Rows
<1>. HIDE DEF n
<1>3. pay'[p] = n /\ \A q \in Payments \ {p} : pay'[q] = pay[q]
  BY <1>2
<1>. QED  BY <1>1, <1>3 DEF Initialize, vars

\* Absent payments never belong to an order.
LEMMA UnopenedAlways == PaySpec => []Unopened
<1>1. PayInit => Unopened
  <2> SUFFICES ASSUME PayInit, NEW p \in Payments PROVE pay[p].order = NoOrder
    BY DEF Unopened
  <2>1. pay[p] = Absent
    BY DEF PayInit
  <2>. QED  BY <2>1, AbsentRow
<1>2. PInv /\ Unopened /\ [PayNext]_allVars => Unopened'
  <2> SUFFICES ASSUME PInv, Unopened, PayNext, NEW q \in Payments,
                      pay'[q].status = "absent"
               PROVE  pay'[q].order = NoOrder
    BY DEF Unopened, allVars, payVars
  <2>1. pay[q].order = NoOrder
    BY OpenedStays DEF PInv, Unopened
  <2>2. CASE \A p \in Payments : pay'[p].order = pay[p].order
    BY <2>1, <2>2
  <2>3. ASSUME NEW o \in Orders, NEW p \in Payments, Initialize(o, p)
        PROVE  pay'[q].order = NoOrder
    <3>1. Rows
      BY DEF PInv
    <3>2. /\ pay'[p].status = "redirect_required"
          /\ \A x \in Payments \ {p} : pay'[x] = pay[x]
      BY <2>3, <3>1, InitializeRow
    <3>3. q # p
      BY <3>2
    <3>. QED  BY <2>1, <3>2, <3>3
  <2>. QED  BY <2>2, <2>3, OwnersKept DEF PInv
<1>. QED  BY <1>1, <1>2, PayInvariance, PTL DEF PaySpec

-------------------------------------------------------------------------------
(* The steps, read as steps of Settlement *)

\* The verdict depends on the row alone.
LEMMA VerdictKept ==
    ASSUME NEW q \in Payments,
           \/ pay'[q] = pay[q]
           \/ ~pay[q].processed /\ ~pay'[q].processed
    PROVE  VerdictMap'[q] = VerdictMap[q]
  BY DEF VerdictMap, Commercial

\* The commercial payments of Settlement are those of the rows.
LEMMA CommercialRead ==
    ASSUME NEW o \in Orders
    PROVE  S!CommercialOf(o) = {q \in Payments : pay[q].order = o /\ Commercial(q)}
<1>1. \A q \in Payments : VerdictMap[q] = "commercial" <=> Commercial(q)
  BY DEF VerdictMap, Commercial
<1>. QED  BY <1>1 DEF S!CommercialOf, OwnerMap

\* Only an order that consumed its stock has a commercial payment.
LEMMA NoneUnconsumed ==
    ASSUME PInv, NEW o \in Orders
    PROVE  S!CommercialOf(o) = {} <=> ~orders[o].consumed
<1>1. \A q \in Payments : Commercial(q) => orders[pay[q].order].consumed
  BY DEF PInv
<1>2. orders[o].consumed => \E q \in Payments : Commercial(q) /\ pay[q].order = o
  BY DEF PInv
<1>. QED  BY <1>1, <1>2, CommercialRead

\* A payment decided for the first time: an order with a commercial payment
\* has another one.
LEMMA CommercialOther ==
    ASSUME NEW p \in Payments, pay[p].order \in Orders, ~pay[p].processed
    PROVE  S!CommercialOf(pay[p].order) = {} <=> ~HasPrimary(p)
<1>1. ~Commercial(p)
  BY DEF Commercial
<1>. QED  BY <1>1, CommercialRead DEF HasPrimary, PaymentsOf

\* initialize opens a payment for an order that may still be paid.
LEMMA OpenStep ==
    ASSUME PInv, Unopened, NEW o \in Orders, NEW p \in Payments, Initialize(o, p)
    PROVE  S!Open(p, o)
<1>1. /\ pay'[p].order = o /\ pay'[p].processed = FALSE
      /\ \A q \in Payments \ {p} : pay'[q] = pay[q]
      /\ orders' = orders
  <2>1. Rows
    BY DEF PInv
  <2>. QED  BY <2>1, InitializeRow
<1>2. pay[p].order = NoOrder /\ ~pay[p].processed
  <2>1. pay[p].status = "absent"
    BY DEF Initialize
  <2>2. pay[p].order = NoOrder
    BY <2>1 DEF Unopened
  <2>3. pay[p].processed <=> pay[p].status \in {"completed", "refund_required"}
    BY DEF PInv
  <2>. QED  BY <2>1, <2>2, <2>3
<1>3. OwnerMap' = [OwnerMap EXCEPT ![p] = o] /\ OwnerMap[p] = NoOrder
  BY <1>1, <1>2 DEF OwnerMap
<1>4. \A q \in Payments : VerdictMap'[q] = VerdictMap[q]
  BY <1>1, <1>2, VerdictKept
<1>5. VerdictMap' = VerdictMap
  BY <1>4 DEF VerdictMap
<1>6. ShutMap' = ShutMap
  BY <1>1 DEF ShutMap
<1>7. o \notin ShutMap
  BY DEF Initialize, MayInitialize, ShutMap, Payable, Refunding
<1>. QED  BY <1>3, <1>5, <1>6, <1>7 DEF S!Open

\* A step that decides nothing and opens nothing may close one order.
LEMMA QuietSettlement ==
    ASSUME PInv, Undecided, \A q \in Payments : pay'[q].order = pay[q].order
    PROVE  S!SNext \/ UNCHANGED S!sVars
<1>1. OwnerMap' = OwnerMap
  BY DEF OwnerMap
<1>2. \A q \in Payments : VerdictMap'[q] = VerdictMap[q]
  BY VerdictKept DEF Undecided
<1>3. VerdictMap' = VerdictMap
  BY <1>2 DEF VerdictMap
<1>4. CASE orders' = orders
  <2>1. ShutMap' = ShutMap
    BY <1>4 DEF ShutMap
  <2>. QED  BY <1>1, <1>3, <2>1 DEF S!sVars
<1>5. ASSUME NEW o \in Orders, Stay(o)  PROVE S!SNext \/ UNCHANGED S!sVars
  <2>1. \A x \in Orders \ {o} : x \in ShutMap' <=> x \in ShutMap
    BY <1>5 DEF ShutMap, Stay
  <2>2. o \in ShutMap => o \in ShutMap'
    BY <1>5 DEF ShutMap, Stay, ShutRow
  <2>3. ShutMap \subseteq Orders /\ ShutMap' \subseteq Orders
    BY DEF ShutMap
  <2>4. CASE o \in ShutMap \/ o \notin ShutMap'
    <3>1. ShutMap' = ShutMap
      BY <2>1, <2>2, <2>3, <2>4
    <3>. QED  BY <1>1, <1>3, <3>1 DEF S!sVars
  <2>5. CASE o \notin ShutMap /\ o \in ShutMap'
    <3>1. ShutMap' = ShutMap \cup {o}
      BY <2>1, <2>3, <2>5
    <3>2. ~orders[o].consumed
      BY <1>5, <2>5 DEF ShutMap, Stay
    <3>3. S!CommercialOf(o) = {}
      BY <3>2, NoneUnconsumed
    <3>4. S!Shut(o)
      BY <1>1, <1>3, <3>1, <3>3 DEF S!Shut
    <3>. QED  BY <3>4 DEF S!SNext
  <2>. QED  BY <2>4, <2>5
<1>. QED  BY <1>4, <1>5 DEF Undecided

\* What deciding p as v changes in the reading.
LEMMA DecidedRead ==
    ASSUME NEW p \in Payments, ~pay[p].processed,
           NEW st, NEW f, Decided(p, st, f)
    PROVE  /\ OwnerMap' = OwnerMap /\ OwnerMap[p] = pay[p].order
           /\ VerdictMap[p] = "undecided"
           /\ VerdictMap' = [VerdictMap EXCEPT ![p] =
                   IF st = "completed" /\ f = "" THEN "commercial" ELSE "to_refund"]
<1>1. \A q \in Payments : pay'[q].order = pay[q].order
  BY DEF Decided
<1>2. OwnerMap' = OwnerMap /\ OwnerMap[p] = pay[p].order
  BY <1>1 DEF OwnerMap
<1>3. VerdictMap[p] = "undecided"
  BY DEF VerdictMap
<1>4. \A q \in Payments \ {p} : VerdictMap'[q] = VerdictMap[q]
  BY VerdictKept DEF Decided
<1>5. VerdictMap'[p] = IF st = "completed" /\ f = "" THEN "commercial" ELSE "to_refund"
  BY DEF VerdictMap, Commercial, Decided
<1>6. /\ VerdictMap' = [q \in Payments |-> VerdictMap'[q]]
      /\ VerdictMap = [q \in Payments |-> VerdictMap[q]]
  BY DEF VerdictMap
<1>. QED  BY <1>2, <1>3, <1>4, <1>5, <1>6

\* A second capture is money to give back; its order is paid by another one.
LEMMA DuplicateGivesBack ==
    ASSUME PInv, NEW p \in Payments, ~pay[p].processed,
           HasPrimary(p), UNCHANGED vars,
           Decided(p, "refund_required", "duplicate_payment")
    PROVE  S!GiveBack(p)
<1>1. pay[p].order \in Orders
  BY DEF Decided
<1>2. /\ OwnerMap' = OwnerMap /\ OwnerMap[p] = pay[p].order
      /\ VerdictMap[p] = "undecided"
      /\ VerdictMap' = [VerdictMap EXCEPT ![p] = "to_refund"]
  BY DecidedRead
<1>3. ShutMap' = ShutMap
  BY DEF ShutMap, vars
<1>4. S!CommercialOf(pay[p].order) # {}
  BY <1>1, CommercialOther
<1>. QED  BY <1>1, <1>2, <1>3, <1>4 DEF S!GiveBack

\* A capture that cannot pay its order shuts it.
LEMMA RefundGivesBack ==
    ASSUME PInv, NEW p \in Payments, ~pay[p].processed, ~HasPrimary(p),
           RefundRequired(pay[p].order),
           NEW f \in {"late_payment_refund_required", "payment_refund_required"},
           Decided(p, "completed", f)
    PROVE  S!GiveBack(p)
<1> DEFINE o == pay[p].order
<1>1. o \in Orders
  BY DEF Decided
<1>2. /\ OwnerMap' = OwnerMap /\ OwnerMap[p] = pay[p].order
      /\ VerdictMap[p] = "undecided"
      /\ VerdictMap' = [VerdictMap EXCEPT ![p] = "to_refund"]
  BY DecidedRead
<1>3. Stay(o) /\ orders'[o].status = "refund_required"
  <2>1. TypeOK /\ Enter(o, "refund_required", "system", orders[o])
    BY DEF RefundRequired, PInv, IInv
  <2>. HIDE DEF o
  <2>. QED  BY <1>1, <2>1, PlainStays
<1>4. S!CommercialOf(o) = {}
  BY <1>1, CommercialOther
<1>5. ~orders[o].consumed
  BY <1>1, <1>4, NoneUnconsumed
<1>6. o \in ShutMap'
  BY <1>1, <1>3, <1>5 DEF ShutMap, Stay, Refunding
<1>7. \A x \in Orders \ {o} : x \in ShutMap' <=> x \in ShutMap
  BY <1>3 DEF ShutMap, Stay
<1>8. ShutMap \subseteq Orders /\ ShutMap' \subseteq Orders
  BY DEF ShutMap
<1>9. ShutMap' = ShutMap \cup {o}
  BY <1>1, <1>6, <1>7, <1>8
<1>. QED  BY <1>1, <1>2, <1>4, <1>9 DEF S!GiveBack

\* The commercial payment is accepted: its order was open and had none.
LEMMA PayAccepts ==
    ASSUME PInv, NEW p \in Payments, ~pay[p].processed, ~HasPrimary(p),
           Pay(pay[p].order, Confirmed), Decided(p, "completed", "")
    PROVE  S!Accept(p)
<1> DEFINE o == pay[p].order
<1>1. o \in Orders /\ TypeOK
  BY DEF Decided, PInv, IInv
<1>2. /\ OwnerMap' = OwnerMap /\ OwnerMap[p] = pay[p].order
      /\ VerdictMap[p] = "undecided"
      /\ VerdictMap' = [VerdictMap EXCEPT ![p] = "commercial"]
  BY DecidedRead
<1>3. /\ orders'[o].consumed = TRUE
      /\ \A x \in Orders \ {o} : orders'[x] = orders[x]
      /\ orders[o].status \notin Refunding \cup {"cancelled", "expired"}
  BY <1>1, PayPays
<1>4. o \notin ShutMap /\ o \notin ShutMap'
  BY <1>3 DEF ShutMap
<1>5. ShutMap' = ShutMap
  BY <1>3, <1>4 DEF ShutMap
<1>6. S!CommercialOf(o) = {}
  BY <1>1, CommercialOther
<1>. QED  BY <1>1, <1>2, <1>4, <1>5, <1>6 DEF S!Accept

\* The three verdicts are the decisions of Settlement.
LEMMA VerdictStep ==
    ASSUME PInv, NEW p \in Payments, ~pay[p].processed, Verdict(p)
    PROVE  S!SNext
<1>1. S!GiveBack(p) \/ S!Accept(p)
  BY DuplicateGivesBack, RefundGivesBack, PayAccepts DEF Verdict
<1>. QED  BY <1>1 DEF S!SNext

-------------------------------------------------------------------------------
(* The refinement *)

\* Whatever callbacks, polls, cron runs, cancellations and refunds do, every
\* payment is decided once, as the one that pays its order or as money to give
\* back, and a closed order is not paid any more: Settlement.
THEOREM SettlementRefinement == PaySpec => ImplementsSettlement
<1>1. PayInit => S!SInit
  <2> SUFFICES ASSUME PayInit PROVE S!SInit
    OBVIOUS
  <2>1. \A p \in Payments : pay[p] = Absent
    BY DEF PayInit
  <2>2. \A p \in Payments : pay[p].order = NoOrder /\ ~pay[p].processed
    BY <2>1, AbsentRow
  <2>. QED  BY <2>2 DEF S!SInit, OwnerMap, VerdictMap, ShutMap
<1>2. PInv /\ Unopened /\ [PayNext]_allVars => [S!SNext]_(S!sVars)
  <2> SUFFICES ASSUME PInv, Unopened, [PayNext]_allVars
               PROVE  S!SNext \/ UNCHANGED S!sVars
    OBVIOUS
  <2>1. CASE UNCHANGED allVars
    BY <2>1 DEF allVars, payVars, vars, S!sVars, OwnerMap, VerdictMap, ShutMap, Commercial
  <2>2. ASSUME NEW o \in Orders, NEW p \in Payments, Initialize(o, p)
        PROVE  S!SNext
    BY <2>2, OpenStep DEF S!SNext
  <2>3. ASSUME NEW p \in Payments, ~pay[p].processed, Verdict(p)
        PROVE  S!SNext
    BY <2>3, VerdictStep
  <2>4. CASE PayNext
    <3>1. CASE Undecided /\ \A q \in Payments : pay'[q].order = pay[q].order
      BY <3>1, QuietSettlement
    <3>. QED  BY <2>2, <2>3, <2>4, <3>1, StepKinds, OwnersKept DEF PInv
  <2>. QED  BY <2>1, <2>4
<1>. QED  BY <1>1, <1>2, PayInvariance, UnopenedAlways, PTL
          DEF PaySpec, ImplementsSettlement, S!SSpec
===============================================================================
