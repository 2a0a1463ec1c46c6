---------------------------- MODULE OrderLifecycle ----------------------------
(***************************************************************************)
(* OrderLifecycleService.transition_order and the order it protects: the   *)
(* status machine, the reservation, release and consumption of stock, and  *)
(* the dates each transition writes.  Every transition runs in one         *)
(* database transaction that first locks the order row and then the        *)
(* variants, so it is one action here.  The callers (checkout, payment,    *)
(* expiration, staff endpoints, refunds) are the actions' parameters.      *)
(*                                                                         *)
(* One request takes no lock: the deletion of a cart line looks at         *)
(* snapshot_at first and deletes later, whatever became of the order.      *)
(***************************************************************************)
EXTENDS OrderStatus, Integers, FiniteSets, FiniteSetsExt

CONSTANTS
    Orders,         \* order rows
    Variants,       \* sellable variants; stock is kept per variant
    Supply,         \* units of each variant before any order
    MaxQuantity,    \* MAX_CART_ITEM_QUANTITY (99 in the code)
    LegacyOrders,   \* orders frozen before stock reservations existed
    LegacyLines     \* the lines of such an order

NoLines == [v \in Variants |-> 0]
Lines == [Variants -> 0 .. MaxQuantity]

ASSUME ConstantsAssumption ==
    /\ IsFiniteSet(Orders)
    /\ MaxQuantity \in Nat \ {0}
    /\ Supply \in [Variants -> Nat]
    /\ LegacyOrders \subseteq Orders
    /\ LegacyLines \in Lines \ {NoLines}

VARIABLES
    orders,  \* the order rows
    stock,   \* ProductVariant.stock
    sales,   \* units of the variant counted in Product.sales_count
    active,  \* variant and product both is_active
    deleting \* lines a deletion request has checked and not deleted yet

\* History: the units of lines deleted from an order that held them, and from
\* one that had sold them.
VARIABLES stranded, unlisted

vars == <<orders, stock, sales, active, deleting, stranded, unlisted>>

-------------------------------------------------------------------------------
(* The rows *)

\* The date column a transition writes; pending_payment's is the reservation, and
\* those of payment_processing and payment_failed are shown only, and left out.
StampOf == [s \in Status |->
    CASE s = "paid" -> {"paid_at"}
      [] s = "preparing" -> {"preparation_started_at"}
      [] s = "shipped" -> {"shipped_at"}
      [] s = "delivered" -> {"delivered_at"}
      [] s = "cancelled" -> {"cancelled_at"}
      [] s = "expired" -> {"expired_at"}
      [] s = "refund_pending" -> {"refund_requested_at"}
      [] s = "refunded" -> {"refunded_at"}
      [] OTHER -> {}]
Stamps == {"paid_at", "preparation_started_at", "shipped_at", "delivered_at",
           "cancelled_at", "expired_at", "refund_requested_at", "refunded_at"}

\* snapshot, reserved, released, consumed: the *_at column is set.  due: the
\* reservation's expiry (for a legacy order, its age limit) has passed.
Order == [status: Status, lines: Lines, snapshot: BOOLEAN, reserved: BOOLEAN,
          released: BOOLEAN, consumed: BOOLEAN, complete: BOOLEAN,
          due: BOOLEAN, stamps: SUBSET Stamps]

\* The actor of a transition; "system" is actor=None.
Actors == {"system", "staff", "owner", "stranger"}

\* What transition_order reads of the payment it is given.
PaymentEvidence == [status: {"completed", "refund_required", "other"},
                    ours: BOOLEAN, matches: BOOLEAN]

LinesOf(r) == {v \in Variants : r.lines[v] > 0}
Backed(r) == r.reserved /\ ~r.released
Held(r, v) == IF Backed(r) /\ ~r.consumed THEN r.lines[v] ELSE 0
Sold(r, v) == IF r.consumed THEN r.lines[v] ELSE 0
Available(r) == \A v \in LinesOf(r) : active[v] /\ r.lines[v] <= stock[v]

Cart == [status |-> "cart", lines |-> NoLines, snapshot |-> FALSE,
         reserved |-> FALSE, released |-> FALSE, consumed |-> FALSE,
         complete |-> FALSE, due |-> FALSE, stamps |-> {}]
LegacyPending == [Cart EXCEPT !.status = "pending_payment",
                              !.lines = LegacyLines, !.snapshot = TRUE]

Init ==
    /\ orders = [o \in Orders |-> IF o \in LegacyOrders THEN LegacyPending ELSE Cart]
    /\ stock = Supply
    /\ sales = [v \in Variants |-> 0]
    /\ active = [v \in Variants |-> TRUE]
    /\ deleting = {}
    /\ stranded = [v \in Variants |-> 0]
    /\ unlisted = [v \in Variants |-> 0]

-------------------------------------------------------------------------------
(* The parts every transition shares *)

Authorized(current, target, actor) ==
    CASE actor \in {"system", "staff"} -> TRUE
      [] actor = "owner" ->
            /\ target \notin {"preparing", "shipped", "delivered", "refund_failed",
                              "refunded", "refund_required"}
            /\ target = "cancelled" => current \in {"cart"} \cup Payable
      [] OTHER -> FALSE

\* The row with its new status, the date of that status and complete.
Entered(r, target) ==
    [r EXCEPT !.status = target,
              !.stamps = @ \cup StampOf[target],
              !.complete = @ \/ target \in {"paid", "cancelled", "expired"}]

\* The table, the authorisation and the save; r is the row with the columns
\* that are the target's own.
Enter(o, target, actor, r) ==
    /\ target \in ALLOWED_ORDER_TRANSITIONS[orders[o].status]
    /\ Authorized(orders[o].status, target, actor)
    /\ orders' = [orders EXCEPT ![o] = Entered(r, target)]

\* Every row but the orders', and the deletions under way.
Rest == UNCHANGED <<active, deleting, stranded, unlisted>>
NoStockEffect == UNCHANGED <<stock, sales>> /\ Rest

\* _release_reserved_stock followed by the stock_released_at of the caller.
Close(o, target, actor) ==
    LET r == orders[o]
        releases == Backed(r) /\ ~r.consumed
    IN  /\ releases => LinesOf(r) # {}
        /\ Enter(o, target, actor, [r EXCEPT !.released = @ \/ releases])
        /\ stock' = [v \in Variants |-> stock[v] + Held(r, v)]
        /\ UNCHANGED sales /\ Rest

-------------------------------------------------------------------------------
(* One action per operation *)

\* Defect: a line request that does not look at the order's status.
EditFrozenLine(o, v, q) ==
    /\ q # orders[o].lines[v]
    /\ orders' = [orders EXCEPT ![o].lines[v] = q]
    /\ NoStockEffect
\* A cart line is added, changed or cleared (q = 0) under the order's lock.  The
\* lock comes after the look-up of the active cart and only snapshot_at is read
\* again, so a cart cancelled in between is still written.  A deletion request
\* whose line is cleared finds no row any more.
EditCart(o, v, q) ==
    /\ orders[o].status \in {"cart", "cancelled"} /\ ~orders[o].snapshot
    /\ q # orders[o].lines[v]
    /\ q > 0 => active[v] /\ q <= stock[v]
    /\ orders' = [orders EXCEPT ![o].lines[v] = q]
    /\ deleting' = IF q = 0 THEN deleting \ {<<o, v>>} ELSE deleting
    /\ UNCHANGED <<stock, sales, active, stranded, unlisted>>

\* destroy: the line's order is read without a lock; a frozen one is refused.
DestroyCheck(o, v) ==
    /\ orders[o].lines[v] > 0 /\ ~orders[o].snapshot
    /\ deleting' = deleting \cup {<<o, v>>}
    /\ UNCHANGED <<orders, stock, sales, active, stranded, unlisted>>

\* super().destroy: the line goes, also from an order frozen since the check.
Destroy(o, v) ==
    /\ <<o, v>> \in deleting
    /\ orders' = [orders EXCEPT ![o].lines[v] = 0]
    /\ deleting' = deleting \ {<<o, v>>}
    /\ stranded' = [stranded EXCEPT ![v] = @ + Held(orders[o], v)]
    /\ unlisted' = [unlisted EXCEPT ![v] = @ + Sold(orders[o], v)]
    /\ UNCHANGED <<stock, sales, active>>

\* Defect: the reservation is recorded, the stock not taken.
CreateOrderTakesNothing(o) ==
    /\ LinesOf(orders[o]) # {} /\ Available(orders[o])
    /\ Enter(o, "pending_payment", "owner",
             [orders[o] EXCEPT !.snapshot = TRUE, !.reserved = TRUE])
    /\ NoStockEffect
\* create_order: revalidate the cart, freeze it, reserve its stock.
CreateOrder(o) ==
    LET r == orders[o]
    IN  /\ r.status = "cart" /\ LinesOf(r) # {} /\ Available(r)
        /\ Enter(o, "pending_payment", "owner",
                 [r EXCEPT !.snapshot = TRUE, !.reserved = TRUE, !.released = FALSE])
        /\ stock' = [v \in Variants |-> stock[v] - r.lines[v]]
        /\ UNCHANGED sales /\ Rest

\* The clock passes stock_reservation_expires_at.
ReservationDue(o) ==
    /\ orders[o].status \in Payable /\ ~orders[o].due
    /\ orders' = [orders EXCEPT ![o].due = TRUE]
    /\ NoStockEffect

PaymentProcessing(o, pay) ==
    /\ pay.ours
    /\ Enter(o, "payment_processing", "system", orders[o])
    /\ NoStockEffect

PaymentFailed(o, pay) ==
    /\ pay.ours
    /\ Enter(o, "payment_failed", "system", orders[o])
    /\ NoStockEffect

\* The preconditions of the paid transition: a live reservation is enough,
\* otherwise the stock must be there to be consumed now.
CanPay(o, pay) ==
    LET r == orders[o]
    IN  /\ "paid" \in ALLOWED_ORDER_TRANSITIONS[r.status]
        /\ pay.ours /\ pay.status = "completed" /\ pay.matches
        /\ ~r.consumed /\ LinesOf(r) # {}
        /\ Backed(r) \/ Available(r)

\* Defect: sales are counted only where the stock is taken, not where a
\* reservation is committed.
PayCountsTakenOnly(o, pay) ==
    LET taken(v) == IF Backed(orders[o]) THEN 0 ELSE orders[o].lines[v]
    IN  /\ CanPay(o, pay)
        /\ Enter(o, "paid", "system", [orders[o] EXCEPT !.consumed = TRUE])
        /\ stock' = [v \in Variants |-> stock[v] - taken(v)]
        /\ sales' = [v \in Variants |-> sales[v] + taken(v)]
        /\ Rest
\* Defect: paid without recording that the stock is consumed.
PayConsumesNothing(o, pay) ==
    CanPay(o, pay) /\ Enter(o, "paid", "system", orders[o]) /\ NoStockEffect

Pay(o, pay) ==
    LET r == orders[o]
    IN  /\ CanPay(o, pay)
        /\ Enter(o, "paid", "system", [r EXCEPT !.consumed = TRUE])
        /\ stock' = [v \in Variants |->
                        IF Backed(r) THEN stock[v] ELSE stock[v] - r.lines[v]]
        /\ sales' = [v \in Variants |-> sales[v] + r.lines[v]]
        /\ Rest

Prepare(o, actor) ==
    /\ orders[o].consumed
    /\ Enter(o, "preparing", actor, orders[o]) /\ NoStockEffect
Ship(o, actor) == Enter(o, "shipped", actor, orders[o]) /\ NoStockEffect
Deliver(o, actor) == Enter(o, "delivered", actor, orders[o]) /\ NoStockEffect

Cancel(o, actor) == ~orders[o].consumed /\ Close(o, "cancelled", actor)

\* The cron command: a due, unpaid order of candidates(), then expire().
Expire(o) ==
    /\ orders[o].status \in Payable /\ orders[o].due
    /\ ~orders[o].consumed /\ "paid_at" \notin orders[o].stamps
    /\ Close(o, "expired", "system")

RefundRequired(o) == Enter(o, "refund_required", "system", orders[o]) /\ NoStockEffect

RefundPending(o, actor, pay) ==
    /\ orders[o].consumed \/ (pay.ours /\ pay.status \in {"completed", "refund_required"})
    /\ Enter(o, "refund_pending", actor, orders[o])
    /\ NoStockEffect

\* Called by RefundService with refund_confirmed=True.
Refunded(o) == Enter(o, "refunded", "system", orders[o]) /\ NoStockEffect
RefundFailed(o) == Enter(o, "refund_failed", "system", orders[o]) /\ NoStockEffect

\* The catalogue staff archive or restore a variant.
SetActive(v) ==
    /\ active' = [active EXCEPT ![v] = ~@]
    /\ UNCHANGED <<orders, stock, sales, deleting, stranded, unlisted>>

Next ==
    \/ \E o \in Orders, v \in Variants, q \in 0 .. MaxQuantity : EditCart(o, v, q)
    \/ \E o \in Orders, v \in Variants : DestroyCheck(o, v) \/ Destroy(o, v)
    \/ \E o \in Orders :
          CreateOrder(o) \/ ReservationDue(o) \/ Expire(o) \/ RefundRequired(o)
    \/ \E o \in Orders, pay \in PaymentEvidence :
          PaymentProcessing(o, pay) \/ PaymentFailed(o, pay) \/ Pay(o, pay)
    \/ \E o \in Orders, actor \in Actors :
          \/ Prepare(o, actor) \/ Ship(o, actor) \/ Deliver(o, actor)
          \/ Cancel(o, actor)
    \/ \E o \in Orders, actor \in Actors, pay \in PaymentEvidence :
          RefundPending(o, actor, pay)
    \/ \E o \in Orders : Refunded(o) \/ RefundFailed(o)
    \/ \E v \in Variants : SetActive(v)

Spec == Init /\ [][Next]_vars

-------------------------------------------------------------------------------
(* Properties *)

\* The rows keep their columns' types; in particular no interleaving of
\* reservations and direct consumptions drives a variant's stock below zero.
TypeOK ==
    /\ orders \in [Orders -> Order]
    /\ stock \in [Variants -> Nat]
    /\ sales \in [Variants -> Nat]
    /\ active \in [Variants -> BOOLEAN]
    /\ deleting \subseteq Orders \X Variants
    /\ stranded \in [Variants -> Nat]
    /\ unlisted \in [Variants -> Nat]

\* sales_count counts each paid order once, whichever way its stock was taken;
\* it exceeds the lines of the paid orders by the lines a deletion that was
\* checked before the checkout took from them after the payment.
SalesCountPaidOrders ==
    \A v \in Variants :
        sales[v] = unlisted[v]
            + SumFunctionOnSet([o \in Orders |-> Sold(orders[o], v)], Orders)

\* An order that is being fulfilled has consumed its stock, and an order that
\* gave its units back (cancelled, expired) never also sells them, even when a
\* late payment and a refund follow.
FulfilmentBackedByStock ==
    \A o \in Orders :
        LET r == orders[o]
        IN  /\ r.status \in Fulfilled => r.consumed
            /\ r.consumed => ~r.released /\ "paid_at" \in r.stamps
            /\ r.consumed => r.status \in Fulfilled \cup (Refunding \ {"refund_required"})

\* An order that ended without payment holds no stock any more.
ClosedOrdersHoldNothing ==
    \A o \in Orders, v \in Variants :
        orders[o].status \in {"cancelled", "expired"} => Held(orders[o], v) = 0

\* The dates tell the logistic history in order: delivered after shipped
\* after prepared after paid, and never on an order cancelled or expired.
DatesFollowTheChain ==
    \A o \in Orders :
        LET s == orders[o].stamps
        IN  /\ "delivered_at" \in s => "shipped_at" \in s
            /\ "shipped_at" \in s => "preparation_started_at" \in s
            /\ "preparation_started_at" \in s => "paid_at" \in s
            /\ "paid_at" \in s => s \cap {"cancelled_at", "expired_at"} = {}
            /\ "refunded_at" \in s => "refund_requested_at" \in s

\* A step moves units between the shelf, one order's hold and its sale only:
\* what leaves one place arrives in another, in the same transaction, and none
\* leaves an empty shelf.  The exception is a line that a deletion checked
\* before the checkout takes away afterwards: its units come back to no shelf,
\* and a sale stays counted.
StepConservesUnits ==
    [][\E o \in Orders :
          /\ \A x \in Orders \ {o} : orders'[x] = orders[x]
          /\ \A v \in Variants :
                /\ stock'[v] >= 0
                /\ stock'[v] + Held(orders'[o], v) + Sold(orders'[o], v)
                             + stranded'[v] + unlisted'[v]
                       = stock[v] + Held(orders[o], v) + Sold(orders[o], v)
                             + stranded[v] + unlisted[v]
                /\ sales'[v] - Sold(orders'[o], v) - unlisted'[v]
                       = sales[v] - Sold(orders[o], v) - unlisted[v]
                /\ stranded'[v] + unlisted'[v] # stranded[v] + unlisted[v] =>
                      <<o, v>> \in deleting \ deleting'
      ]_<<orders, stock, sales, stranded, unlisted>>

\* From snapshot_at on no line is added or changed, none is marked for deletion
\* any more, and one goes only, at once and whole, by a deletion checked before;
\* and an order never becomes a cart again, nor payable again once it was paid,
\* cancelled or expired.
FrozenAndForward ==
    [][\A o \in Orders :
          /\ orders[o].snapshot =>
                /\ orders'[o].snapshot
                /\ \A v \in Variants :
                      /\ <<o, v>> \in deleting' => <<o, v>> \in deleting
                      /\ \/ orders'[o].lines[v] = orders[o].lines[v]
                         \/ orders'[o].lines[v] = 0 /\ <<o, v>> \in deleting \ deleting'
          /\ orders[o].status # "cart" => orders'[o].status # "cart"
          /\ orders[o].complete => orders'[o].status \notin {"cart"} \cup Payable
      ]_vars
===============================================================================
