------------------------------- MODULE Payments -------------------------------
(***************************************************************************)
(* Payments of orders: PaymentLifecycleService.initialize and refresh, the *)
(* provider's callback (PaymentWebhookService.process), the business       *)
(* processing they share (PaymentService.handle_payment_completed) and the *)
(* cron commands, over the orders of OrderLifecycle.                       *)
(*                                                                         *)
(* Each service method is one transaction that holds the payment's row     *)
(* lock, and takes the order's before it reads the order's status, so each *)
(* is one action.  A request that raises is rolled back and changes        *)
(* nothing: it is an action that is not enabled.  The provider settles a   *)
(* session when it likes and calls back early, late, twice or never; only  *)
(* the answer of its confirm call (prov) is believed.                      *)
(***************************************************************************)
EXTENDS OrderLifecycle

CONSTANTS
    Payments,      \* payment rows, absent until initialised
    NoOrder,       \* the order of an absent payment
    RequestIds,    \* payments whose callbacks carry a request_id: one deduplication key each
    MaxOrphans     \* bound on the sessions opened for a rolled-back payment

ASSUME PaymentsAssumption ==
    /\ NoOrder \notin Orders
    /\ RequestIds \subseteq Payments
    /\ MaxOrphans \in Nat

VARIABLES
    pay,      \* the payment rows
    prov,     \* what the provider's confirm call answers for the session
    orphans,  \* provider sessions of the order that no payment row knows
    seen      \* deduplication keys of PaymentWebhookEvent

payVars == <<pay, prov, orphans, seen>>
allVars == <<vars, payVars>>

-------------------------------------------------------------------------------

Reconcilable == {"redirect_required", "processing"}
PayStatus == {"absent", "failed", "completed", "refund_required"} \cup Reconcilable
Failure == {"", "duplicate_payment", "late_payment_refund_required",
            "payment_refund_required"}
Payment == [status: PayStatus, order: Orders \cup {NoOrder},
            processed: BOOLEAN, failure: Failure]

Answers == {"pending", "notcompleted", "completed"}
Hints == {"notcompleted", "completed"}
KeyOf(p, hint) == IF p \in RequestIds THEN <<p, "request_id">> ELSE <<p, hint>>
Keys == {KeyOf(p, hint) : p \in Payments, hint \in Hints}

Absent == [status |-> "absent", order |-> NoOrder, processed |-> FALSE, failure |-> ""]

PaymentsOf(o) == {p \in Payments : pay[p].order = o}
\* The payment that paid its order (primary_payment).
Commercial(p) == pay[p].status = "completed" /\ pay[p].processed /\ pay[p].failure = ""
EvidenceOf(p) ==
    [status |-> IF pay[p].status \in {"completed", "refund_required"}
                THEN pay[p].status ELSE "other",
     ours |-> TRUE, matches |-> TRUE]
Confirmed == [status |-> "completed", ours |-> TRUE, matches |-> TRUE]

PayInit ==
    /\ Init
    /\ pay = [p \in Payments |-> Absent]
    /\ prov = [p \in Payments |-> "none"]
    /\ orphans = [o \in Orders |-> 0]
    /\ seen = {}

-------------------------------------------------------------------------------
(* Opening a provider session *)

\* Defect: the order's status is not looked at.
MayInitializeAnyOrder(o) ==
    /\ orders[o].snapshot /\ LinesOf(orders[o]) # {}
    /\ \A p \in PaymentsOf(o) : pay[p].status \notin {"completed"} \cup Reconcilable
\* initialize creates a payment only for a payable order with none active
\* or completed; otherwise it hands back the one there is.
MayInitialize(o) ==
    /\ orders[o].status \in Payable /\ orders[o].snapshot /\ LinesOf(orders[o]) # {}
    /\ \A p \in PaymentsOf(o) : pay[p].status \notin {"completed"} \cup Reconcilable

Initialize(o, p) ==
    /\ MayInitialize(o) /\ pay[p].status = "absent"
    /\ pay' = [pay EXCEPT ![p] = [Absent EXCEPT !.status = "redirect_required",
                                                !.order = o]]
    /\ prov' = [prov EXCEPT ![p] = "pending"]
    /\ UNCHANGED <<vars, orphans, seen>>

\* The provider opened the session, its answer was lost: the raised error
\* rolls back the row, the "unknown" status and the audit line with it.
InitializeLost(o) ==
    /\ MayInitialize(o) /\ orphans[o] < MaxOrphans
    /\ orphans' = [orphans EXCEPT ![o] = @ + 1]
    /\ UNCHANGED <<vars, pay, prov, seen>>

\* The provider settles a session, or reopens one that had not completed.
Settle(p, answer) ==
    /\ prov[p] \in {"pending", "notcompleted"} /\ answer # prov[p]
    /\ prov' = [prov EXCEPT ![p] = answer]
    /\ UNCHANGED <<vars, pay, orphans, seen>>

-------------------------------------------------------------------------------
(* The verdict on a confirmed payment *)

SetPay(p, status, processed, failure) ==
    pay' = [pay EXCEPT ![p].status = status, ![p].processed = processed,
                       ![p].failure = failure]

\* Defect: the order's other payments are not looked at.
HasPrimaryIgnored(p) == FALSE

HasPrimary(p) ==
    \E q \in PaymentsOf(pay[p].order) \ {p} : Commercial(q)

\* The order is paid by another payment: this one is a second capture.
Duplicate(p) ==
    /\ HasPrimary(p)
    /\ SetPay(p, "refund_required", TRUE, "duplicate_payment")
    /\ UNCHANGED vars

\* Defect: the late payment is recorded and its order forgotten.
LateKeepsOrder(p) ==
    /\ ~HasPrimary(p) /\ orders[pay[p].order].status \in {"cancelled", "expired"}
    /\ SetPay(p, "completed", TRUE, "late_payment_refund_required")
    /\ UNCHANGED vars
\* The order was cancelled or expired before the confirmation.
Late(p) ==
    /\ ~HasPrimary(p) /\ orders[pay[p].order].status \in {"cancelled", "expired"}
    /\ RefundRequired(pay[p].order)
    /\ SetPay(p, "completed", TRUE, "late_payment_refund_required")

\* fulfill_order: pay the order, or find it paid already.
Fulfil(p) ==
    /\ ~HasPrimary(p)
    /\ IF orders[pay[p].order].status = "paid"
       THEN UNCHANGED vars ELSE Pay(pay[p].order, Confirmed)
    /\ SetPay(p, "completed", TRUE, "")

\* The paid transition was refused (its savepoint rolled back).
Unfulfillable(p) ==
    /\ ~HasPrimary(p) /\ orders[pay[p].order].status \in Payable
    /\ ~CanPay(pay[p].order, Confirmed)
    /\ RefundRequired(pay[p].order)
    /\ SetPay(p, "completed", TRUE, "payment_refund_required")

\* handle_payment_completed.  From any other order status it raises.
Capture(p) == Duplicate(p) \/ Late(p) \/ Fulfil(p) \/ Unfulfillable(p)

\* _transition_order_payment_state: a refused transition is logged, not raised.
FollowPayment(o, target) ==
    IF target \in ALLOWED_ORDER_TRANSITIONS[orders[o].status]
    THEN \/ target = "payment_failed" /\ PaymentFailed(o, Confirmed)
         \/ target = "payment_processing" /\ PaymentProcessing(o, Confirmed)
    ELSE UNCHANGED vars

-------------------------------------------------------------------------------
(* The three ways a confirmation arrives *)

\* A callback: registered under its key, then verified with the provider.
Webhook(p, hint) ==
    /\ pay[p].status # "absent" /\ KeyOf(p, hint) \notin seen
    /\ seen' = seen \cup {KeyOf(p, hint)}
    /\ UNCHANGED <<prov, orphans>>
    /\ \/ /\ pay[p].processed \/ prov[p] = "pending"
          /\ UNCHANGED <<vars, pay>>
       \/ ~pay[p].processed /\ prov[p] = "completed" /\ Capture(p)
       \/ /\ ~pay[p].processed /\ prov[p] = "notcompleted"
          /\ pay' = [pay EXCEPT ![p].status = "failed"]
          /\ FollowPayment(pay[p].order, "payment_failed")

\* refresh: the customer's poll, or one payment of reconcile_payments.
Refresh(p) ==
    /\ pay[p].status \notin {"absent", "completed", "refund_required"}
    /\ UNCHANGED <<prov, orphans, seen>>
    /\ \/ prov[p] = "completed" /\ Capture(p)
       \/ /\ prov[p] = "notcompleted"
          /\ pay' = [pay EXCEPT ![p].status = "failed"]
          /\ FollowPayment(pay[p].order, "payment_failed")
       \/ /\ prov[p] = "pending"
          /\ pay' = [pay EXCEPT ![p].status = "processing"]
          /\ FollowPayment(pay[p].order, "payment_processing")

\* Defect: the command forgets the sessions the customer never came back from.
ReconcileProcessingOnly(p) == pay[p].status = "processing" /\ Refresh(p)
\* The cron command picks payments that are not in a final status.
Reconcile(p) == pay[p].status \in Reconcilable /\ Refresh(p)

-------------------------------------------------------------------------------
(* Orders, next to their payments *)

\* Defect: an open payment session keeps the order from expiring.
ExpireUnlessPaying(o) ==
    /\ \A p \in PaymentsOf(o) : pay[p].status \notin {"completed"} \cup Reconcilable
    /\ Expire(o)
    /\ UNCHANGED payVars
\* expire: candidates() and the locked check exclude a completed payment.
ExpireUnpaid(o) ==
    /\ \A p \in PaymentsOf(o) : pay[p].status # "completed"
    /\ Expire(o)
    /\ UNCHANGED payVars

\* A full refund of a captured payment, as far as the order sees it.
RefundOrder(o) ==
    /\ \/ \E p \in PaymentsOf(o) :
             /\ pay[p].status \in {"completed", "refund_required"}
             /\ pay[p].failure # "duplicate_payment"
             /\ RefundPending(o, "staff", EvidenceOf(p))
       \/ Refunded(o) \/ RefundFailed(o)
    /\ UNCHANGED payVars

OrderStep ==
    /\ \/ \E o \in Orders, v \in Variants, q \in 0 .. MaxQuantity : EditCart(o, v, q)
       \/ \E o \in Orders, v \in Variants : DestroyCheck(o, v) \/ Destroy(o, v)
       \/ \E o \in Orders : CreateOrder(o) \/ ReservationDue(o)
       \/ \E o \in Orders, actor \in Actors :
             Prepare(o, actor) \/ Ship(o, actor) \/ Deliver(o, actor) \/ Cancel(o, actor)
       \/ \E v \in Variants : SetActive(v)
    /\ UNCHANGED payVars

PayNext ==
    \/ \E o \in Orders, p \in Payments : Initialize(o, p)
    \/ \E o \in Orders : InitializeLost(o) \/ ExpireUnpaid(o) \/ RefundOrder(o)
    \/ \E p \in Payments, answer \in Answers : Settle(p, answer)
    \/ \E p \in Payments, hint \in Hints : Webhook(p, hint)
    \/ \E p \in Payments : Refresh(p)
    \/ OrderStep

PaySpec == PayInit /\ [][PayNext]_allVars

\* The crontab runs both commands every few minutes.
FairPaySpec ==
    /\ PaySpec
    /\ \A p \in Payments : WF_allVars(Reconcile(p))
    /\ \A o \in Orders : WF_allVars(ExpireUnpaid(o))

-------------------------------------------------------------------------------
(* Properties *)

PayTypeOK ==
    /\ TypeOK
    /\ pay \in [Payments -> Payment]
    /\ prov \in [Payments -> {"none"} \cup Answers]
    /\ orphans \in [Orders -> 0 .. MaxOrphans]
    /\ seen \in SUBSET Keys

\* However callbacks, polls and the cron interleave over the payments of an
\* order, it consumed its stock exactly if one of them is its commercial
\* payment, and there is only one.
OneCommercialPayment ==
    \A o \in Orders :
        LET paid == {p \in PaymentsOf(o) : Commercial(p)}
        IN  /\ Cardinality(paid) <= 1
            /\ orders[o].consumed <=> paid # {}

\* A confirmed payment is never left undecided, and one that did not pay its
\* order leaves the order on the way to a refund, or paid by another one.
CapturesAreAccounted ==
    \A p \in Payments :
        pay[p].status \in {"completed", "refund_required"} =>
            /\ pay[p].processed
            /\ Commercial(p) \/ HasPrimary(p) \/ orders[pay[p].order].status \in Refunding
            /\ pay[p].status = "refund_required" => HasPrimary(p)

\* What was decided about a payment stands, whatever callback, poll or cron
\* run comes later, and a payment never moves to another order.
DecisionsAreFinal ==
    [][\A p \in Payments :
          /\ pay[p].processed => pay'[p] = pay[p]
          /\ pay[p].status # "absent" => pay'[p].order = pay[p].order]_allVars

\* The payment flow is one use of the order's state machine: no payment step
\* changes an order in a way transition_order would not.
ImplementsLifecycle == Spec

\* The payment flow keeps the promise of Settlement: the reading of the rows
\* as Settlement's state, and the refinement.
OwnerMap == [p \in Payments |-> pay[p].order]
VerdictMap == [p \in Payments |->
    IF ~pay[p].processed THEN "undecided"
    ELSE IF Commercial(p) THEN "commercial" ELSE "to_refund"]
ShutMap ==
    {o \in Orders : /\ orders[o].status \in {"cancelled", "expired"} \cup Refunding
                    /\ ~orders[o].consumed}

S == INSTANCE Settlement WITH
        owner <- OwnerMap, verdict <- VerdictMap, shut <- ShutMap
ImplementsSettlement == S!SSpec

\* Money captured in a session the cron still follows is decided in the end,
\* unless its order already waits for another refund.
CapturesAreProcessed ==
    \A p \in Payments :
        (prov[p] = "completed" /\ pay[p].status \in Reconcilable)
            ~> (pay[p].processed \/ \E o \in Orders : /\ pay[p].order = o
                                                     /\ orders[o].status \in Refunding)

\* A due order does not keep its stock waiting for a payment for ever, unless a
\* deletion checked before the checkout took its last line: releasing an order
\* without lines raises, at every run of the command.
DueOrdersLeavePayment ==
    \A o \in Orders :
        (orders[o].due /\ orders[o].status \in Payable)
            ~> (orders[o].status \notin Payable \/ LinesOf(orders[o]) = {})

-------------------------------------------------------------------------------
(* Statements of the repository's documents *)

\* payment-operations.md: "Une initialisation réseau ambiguë ne doit jamais
\* créer automatiquement une seconde session."
NoSecondSession ==
    [][\A p \in Payments : pay[p].status = "absent" /\ pay'[p].status # "absent" =>
          orphans[pay'[p].order] = 0]_allVars

\* payment_health counts fulfillment_failed as stock_errors_after_payment
\* ("échecs de stock après paiement"): the order's stock was not there.
RefundedForLackOfStock ==
    [][\A p \in Payments :
          (~pay[p].processed /\ pay'[p].failure = "payment_refund_required") =>
              LET r == orders[pay[p].order] IN ~Backed(r) /\ ~Available(r)]_allVars

\* phase9-order-lifecycle.md: "Un succès tardif après `cancelled` ou `expired`
\* conserve la preuve et place la commande en `refund_required`."
LateSuccessKeepsProof ==
    \A p \in Payments, o \in Orders :
        (/\ prov[p] = "completed" /\ pay[p].status \in Reconcilable /\ pay[p].order = o
         /\ orders[o].status \in {"cancelled", "expired"}) ~> pay[p].processed
===============================================================================
