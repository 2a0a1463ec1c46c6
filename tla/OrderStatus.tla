------------------------------ MODULE OrderStatus ------------------------------
(***************************************************************************)
(* The statuses of an order and the table transition_order consults        *)
(* (ALLOWED_ORDER_TRANSITIONS), which every service that moves an order    *)
(* goes through.                                                           *)
(***************************************************************************)

Payable == {"pending_payment", "payment_processing", "payment_failed"}
Fulfilled == {"paid", "preparing", "shipped", "delivered"}
Refunding == {"refund_required", "refund_pending", "refunded", "refund_failed"}
Status == {"cart", "cancelled", "expired"} \cup Payable \cup Fulfilled \cup Refunding

ALLOWED_ORDER_TRANSITIONS == [s \in Status |->
    CASE s = "cart" -> {"pending_payment", "paid", "cancelled"}
      [] s = "pending_payment" ->
            {"payment_processing", "paid", "payment_failed", "cancelled",
             "expired", "refund_required"}
      [] s = "payment_processing" ->
            {"paid", "payment_failed", "cancelled", "expired", "refund_required"}
      [] s = "payment_failed" ->
            {"payment_processing", "cancelled", "expired", "refund_required"}
      [] s = "paid" -> {"preparing", "refund_pending"}
      [] s = "preparing" -> {"shipped", "refund_pending"}
      [] s = "shipped" -> {"delivered", "refund_pending"}
      [] s \in {"delivered", "refund_required", "refund_failed"} -> {"refund_pending"}
      [] s \in {"cancelled", "expired"} -> {"refund_required"}
      [] s = "refund_pending" -> {"refunded", "refund_failed"}
      [] OTHER -> {}]
===============================================================================
