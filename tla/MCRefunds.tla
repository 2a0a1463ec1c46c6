------------------------------- MODULE MCRefunds -------------------------------
(* A payment of two units, two refund requests and two workers: an            *)
(* administrator's request and the command that reconciles may overlap.       *)
EXTENDS Refunds, TLC

CONSTANTS r1, r2, w1, w2
===============================================================================
