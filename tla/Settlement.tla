------------------------------ MODULE Settlement ------------------------------
(***************************************************************************)
(* What the payment backend promises about money, without how: every       *)
(* payment of an order is decided at most once, either as the commercial   *)
(* payment of its order or as money to give back; an order has at most one *)
(* commercial payment, and none once it was shut (cancelled, expired, or   *)
(* owing a refund of an unfulfilled payment).                              *)
(***************************************************************************)
CONSTANTS Orders, Payments, NoOrder

VARIABLES
    owner,    \* the order a payment was opened for, or NoOrder
    verdict,  \* what was decided about the payment
    shut      \* orders no payment may fulfil any more

sVars == <<owner, verdict, shut>>

CommercialOf(o) == {p \in Payments : owner[p] = o /\ verdict[p] = "commercial"}

SInit ==
    /\ owner = [p \in Payments |-> NoOrder]
    /\ verdict = [p \in Payments |-> "undecided"]
    /\ shut \in SUBSET Orders

Open(p, o) ==
    /\ owner[p] = NoOrder /\ o \notin shut
    /\ owner' = [owner EXCEPT ![p] = o]
    /\ UNCHANGED <<verdict, shut>>

Accept(p) ==
    /\ owner[p] \in Orders \ shut /\ verdict[p] = "undecided"
    /\ CommercialOf(owner[p]) = {}
    /\ verdict' = [verdict EXCEPT ![p] = "commercial"]
    /\ UNCHANGED <<owner, shut>>

\* Money that fulfils nothing: its order is shut unless another payment
\* already fulfilled it.
GiveBack(p) ==
    /\ owner[p] \in Orders /\ verdict[p] = "undecided"
    /\ verdict' = [verdict EXCEPT ![p] = "to_refund"]
    /\ shut' = IF CommercialOf(owner[p]) = {} THEN shut \cup {owner[p]} ELSE shut
    /\ UNCHANGED owner

Shut(o) ==
    /\ CommercialOf(o) = {}
    /\ shut' = shut \cup {o}
    /\ UNCHANGED <<owner, verdict>>

SNext ==
    \/ \E p \in Payments, o \in Orders : Open(p, o)
    \/ \E p \in Payments : Accept(p) \/ GiveBack(p)
    \/ \E o \in Orders : Shut(o)

SSpec == SInit /\ [][SNext]_sVars
===============================================================================
