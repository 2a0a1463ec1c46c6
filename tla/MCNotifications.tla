---------------------------- MODULE MCNotifications ----------------------------
(* One order with two events, one of them bouncing, and one refund event; a  *)
(* request process and one run of the retry command at a time.               *)
EXTENDS Notifications

CONSTANTS o1, w1, c1

MCOrderNotices == {<<o1, "order_created">>, <<o1, "payment_failed">>}
MCRefundNotices == {<<o1, "refund_requested">>}
MCAddressed == MCOrderNotices \cup MCRefundNotices
MCBouncing == {<<o1, "payment_failed">>}
===============================================================================
