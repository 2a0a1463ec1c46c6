----------------------------- MODULE MCCartCheckout -----------------------------
(***************************************************************************)
(* Two tabs, two idempotency keys, two cart requests in flight, over one   *)
(* variant.  The amounts an order freezes are evaluated apart, over carts  *)
(* of at most two lines: a negative price is one the product table         *)
(* accepts, and a line of a hundred is over the limit of the checkout.     *)
(***************************************************************************)
EXTENDS CartCheckout, TLC

Money == INSTANCE Amounts

CONSTANTS t1, t2, k1, k2, v1, c1, c2

\* Tabs, keys and requests are interchangeable.
Interchangeable == Permutations(Tabs) \cup Permutations(Keys) \cup Permutations(Requests)

SmallLines == Money!CartLine({-100, 0, 100, 2500}, {1, 3, 100})
SmallCarts == {<<>>} \cup {<<a>> : a \in SmallLines} \cup SmallLines \X SmallLines

ASSUME AmountsAreRight ==
    \A cart \in SmallCarts, fee \in Money!FEES :
        /\ Money!AcceptedIsStorable(cart, fee)
        /\ Money!InvoiceAddsUp(cart, fee)
        /\ Money!ShownOrWarned(cart, fee)
===============================================================================
