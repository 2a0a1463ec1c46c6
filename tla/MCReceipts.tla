------------------------------- MODULE MCReceipts -------------------------------
(* One order, two payments, one unit of one variant, receipts deployed at     *)
(* any moment.                                                                *)
EXTENDS Receipts, TLC

CONSTANTS o1, v1, p1, p2

MCSupply == v1 :> 1
MCLegacyLines == v1 :> 1
===============================================================================
