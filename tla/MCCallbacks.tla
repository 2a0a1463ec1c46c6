------------------------------ MODULE MCCallbacks ------------------------------
(***************************************************************************)
(* Callbacks for TLC: two payments of one order, two kept events, one      *)
(* environment edited in one place at a time.                              *)
(***************************************************************************)
EXTENDS Callbacks, TLC

Symmetry == Permutations(Payments)

\* Whichever way the provider echoes the shop's custom_data and labels the body,
\* the call is read as one for the payment; a form body sent as JSON is not read.
ASSUME EchoesAreRead ==
    \A body \in Body : Echo(body) =>
        \A t \in {body.written, "untyped"} :
            {call.payment : call \in ReadCalls(t, body)} = {body.payment}
===============================================================================
