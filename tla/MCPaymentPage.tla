----------------------------- MODULE MCPaymentPage -----------------------------
(***************************************************************************)
(* Two payments, one tab and two automatic requests: enough for the answer *)
(* about one payment to arrive while the other is watched, and for the     *)
(* automatic requests to run out.                                          *)
(***************************************************************************)
EXTENDS PaymentPage
===============================================================================
