-------------------------------- MODULE Receipts --------------------------------
(***************************************************************************)
(* The receipt of a paid order (OrderReceiptService.issue), beside the     *)
(* payments: written in the transaction of the paid transition, or, for an *)
(* order paid before receipts existed, when its page first downloads it.   *)
(* The download reads the order and its payment without a lock and calls   *)
(* issue, which locks the order and checks again, so payments, refunds and *)
(* fulfilment steps come between the two.                                  *)
(*                                                                         *)
(* A receipt is kept as the payment its snapshot names; the number it gets *)
(* from its row's key, the frozen columns it copies and the PDF drawn from *)
(* them are left out.                                                      *)
(***************************************************************************)
EXTENDS Payments

CONSTANT NoPayment

ASSUME ReceiptsAssumption == NoPayment \notin Payments

VARIABLES
    receipt,  \* the payment the order's OrderReceipt names
    issuing,  \* the deployed code issues receipts (migration 0012 on)
    asked     \* the payment a download has read, before it calls issue

receiptVars == <<receipt, issuing, asked>>
everything == <<allVars, receiptVars>>

\* Defect: a refund under way closes the receipt.
EligibleUnrefunded == Fulfilled
ELIGIBLE_RECEIPT_STATUSES == Fulfilled \cup Refunding

ReceiptInit ==
    /\ PayInit
    /\ receipt = [o \in Orders |-> NoPayment]
    /\ issuing \in BOOLEAN
    /\ asked = [o \in Orders |-> NoPayment]

-------------------------------------------------------------------------------

\* Defect: the payment is not asked whose it is and what became of it.
IssuableAnyPayment(o, p) ==
    /\ orders[o].status \in ELIGIBLE_RECEIPT_STATUSES
    /\ orders[o].snapshot /\ "paid_at" \in orders[o].stamps
\* What the view and then issue ask of the order and of the payment.
Issuable(o, p) ==
    /\ orders[o].status \in ELIGIBLE_RECEIPT_STATUSES
    /\ orders[o].snapshot /\ "paid_at" \in orders[o].stamps
    /\ pay[p].status = "completed" /\ pay[p].order = o

\* The orders the step pays.
NewlyPaid(o) == ~orders[o].consumed /\ orders'[o].consumed

\* The paid transition issues the receipt before it ends, for the payment
\* that the same transaction decides.
IssuePaid ==
    receipt' = [o \in Orders |->
        IF issuing /\ NewlyPaid(o) /\ receipt[o] = NoPayment
        THEN CHOOSE p \in Payments : pay'[p].order = o /\ pay'[p] # pay[p]
        ELSE receipt[o]]

\* A step of the orders and payments.
Business ==
    /\ PayNext
    /\ IssuePaid
    /\ UNCHANGED <<issuing, asked>>

\* The release with receipts is deployed.
Deploy ==
    /\ ~issuing /\ issuing' = TRUE
    /\ UNCHANGED <<allVars, receipt, asked>>

\* The download picks the last completed payment of the order.  Only one is
\* ever completed by an order that is paid, so any will do here.
AskReceipt(o, p) ==
    /\ issuing /\ Issuable(o, p)
    /\ asked' = [asked EXCEPT ![o] = p]
    /\ UNCHANGED <<allVars, receipt, issuing>>

\* issue: the receipt there is, or a new one if the order still allows it.
Issue(o) ==
    LET p == asked[o]
    IN  /\ p # NoPayment
        /\ receipt' = IF receipt[o] = NoPayment /\ Issuable(o, p)
                      THEN [receipt EXCEPT ![o] = p] ELSE receipt
        /\ asked' = [asked EXCEPT ![o] = NoPayment]
        /\ UNCHANGED <<allVars, issuing>>

ReceiptNext ==
    \/ Business \/ Deploy
    \/ \E o \in Orders, p \in Payments : AskReceipt(o, p)
    \/ \E o \in Orders : Issue(o)

ReceiptSpec == ReceiptInit /\ [][ReceiptNext]_everything

\* The crontab's commands, as in FairPaySpec; nobody has to download a receipt.
FairReceiptSpec ==
    /\ ReceiptSpec
    /\ \A p \in Payments : WF_allVars(Reconcile(p))
    /\ \A o \in Orders : WF_allVars(ExpireUnpaid(o))

-------------------------------------------------------------------------------
(* What the order's page offers its customer (get_available_actions), from *)
(* the order and all its payments.                                         *)

HasCompleted(o) == \E p \in PaymentsOf(o) : pay[p].status = "completed"

can_pay(o) == orders[o].status \in Payable /\ ~HasCompleted(o)

can_cancel(o) == orders[o].status \in Payable /\ ~orders[o].consumed

\* Defect: the date of the payment is not asked for.
DownloadsUnpaid(o) ==
    /\ orders[o].snapshot /\ orders[o].status \in ELIGIBLE_RECEIPT_STATUSES
    /\ HasCompleted(o)
can_download_receipt(o) ==
    /\ orders[o].snapshot /\ "paid_at" \in orders[o].stamps
    /\ orders[o].status \in ELIGIBLE_RECEIPT_STATUSES
    /\ HasCompleted(o)

-------------------------------------------------------------------------------
(* Properties *)

\* A receipt names the one payment that paid its order, whether the paid
\* transition or a later download wrote it, and whatever duplicate, late
\* confirmation or refund came before, between or after; an order that was
\* never paid has none.
ReceiptNamesCommercial ==
    \A o \in Orders :
        receipt[o] # NoPayment =>
            /\ orders[o].consumed
            /\ receipt[o] \in PaymentsOf(o) /\ Commercial(receipt[o])

\* The page never offers to pay or to cancel an order that a payment has paid, nor a receipt
\* for an order that none has, late and duplicate captures included; and initialize either
\* opens a session for an order offered for payment or hands back the one there is, unless a
\* deletion checked before the checkout took the order's last line.
OffersAreTrue ==
    \A o \in Orders :
        LET paying == {p \in PaymentsOf(o) : Commercial(p)}
        IN  /\ can_pay(o) =>
                /\ paying = {}
                /\ \/ MayInitialize(o)
                   \/ \E p \in PaymentsOf(o) : pay[p].status \in Reconcilable
                   \/ LinesOf(orders[o]) = {}
            /\ can_cancel(o) => paying = {}
            /\ can_download_receipt(o) =>
                \A p \in PaymentsOf(o) : pay[p].status = "completed" => p \in paying

\* Once issued a receipt is never changed, and an order paid by the code that
\* issues receipts has its receipt in the same transaction; what a download
\* was promised when it read the order, issue does not refuse.
ReceiptStands ==
    [][\A o \in Orders :
          /\ receipt[o] # NoPayment => receipt'[o] = receipt[o]
          /\ issuing /\ NewlyPaid(o) => receipt'[o] # NoPayment
          /\ asked[o] # NoPayment /\ asked'[o] = NoPayment => receipt'[o] # NoPayment
      ]_everything
===============================================================================
