------------------------------ MODULE MCGuestCart ------------------------------
(* Two tabs of one browser, one variant, three merge keys.                 *)
EXTENDS GuestCart, TLC

CONSTANTS t1, t2, k1, k2, k3, v1

\* Tabs and keys are interchangeable.
Interchangeable == Permutations(Tabs) \cup Permutations(Keys)
===============================================================================
