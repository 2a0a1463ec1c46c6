--------------------------- MODULE MCOrderLifecycle ---------------------------
(* A small shop for TLC: a customer's cart of up to two lines and a legacy   *)
(* order compete for the one unit of v1.                                     *)
EXTENDS OrderLifecycle, TLC

CONSTANTS o1, o2, v1, v2

MCSupply == v1 :> 1 @@ v2 :> 1
MCLegacyLines == v1 :> 1 @@ v2 :> 0
===============================================================================
