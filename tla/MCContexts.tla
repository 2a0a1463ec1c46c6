------------------------------ MODULE MCContexts ------------------------------
(***************************************************************************)
(* Sessions and ShownCart for TLC, one of them at a time: the session the  *)
(* browser keeps and the cart it shows, each with the identity it takes    *)
(* from the other as a choice.  One tab and one request of the staff, one  *)
(* account, three refresh tokens, one revocation at a time, two refreshes, *)
(* logouts and revocations under way; one customer and the guest, carts of *)
(* two units at most, four things the customer does.                       *)
(***************************************************************************)
EXTENDS Sessions, ShownCart

VARIABLE part
contextVars == <<part, vars, cartVars>>

\* A cart nobody touches while the session moves.
CartAtRest ==
    /\ who = Guest /\ status = "ready" /\ error = FALSE
    /\ shown = [owner |-> Guest, units |-> 0]
    /\ load = None /\ merge = None /\ ops = [k \in Keys |-> Free]
    /\ guest = 0 /\ server = [c \in Customers |-> 0]
    /\ moves = MAX_MOVES /\ excuses = {}

ContextsInit ==
    \/ part = "session" /\ Init /\ CartAtRest
    \/ part = "cart" /\ Init /\ ShownInit
ContextsNext ==
    /\ UNCHANGED part
    /\ \/ part = "session" /\ Next /\ UNCHANGED cartVars
       \/ part = "cart" /\ ShownNext /\ UNCHANGED vars
ContextsSpec ==
    ContextsInit /\ [][ContextsNext]_contextVars /\ Fairness /\ ShownFairness
===============================================================================
