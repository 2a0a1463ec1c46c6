-------------------------------- MODULE Refunds --------------------------------
(***************************************************************************)
(* Refunds of one captured payment (RefundService): requests that reserve  *)
(* its balance, submission to the provider, reconciliation, and what they  *)
(* do to the order.                                                        *)
(*                                                                         *)
(* request, _start, the check of reconcile and _apply_result are database  *)
(* transactions under the refund's, payment's and order's row locks: one   *)
(* action each.  The provider is called between two of them, with no lock  *)
(* held, by a worker (an admin's action or the cron command) that may die  *)
(* before it writes the answer it got.  A call that raises changes         *)
(* nothing and is an action that is not enabled.                           *)
(***************************************************************************)
EXTENDS OrderStatus, Integers, FiniteSets, FiniteSetsExt

CONSTANTS
    Refunds,     \* refund rows: the payment's idempotency keys
    Workers,     \* processes that submit and reconcile refunds
    Amount,      \* the amount of the payment
    MaxCrashes   \* bound on the workers that die in the middle of a call

ASSUME RefundsAssumption ==
    /\ IsFiniteSet(Refunds)
    /\ Amount \in Nat \ {0}
    /\ MaxCrashes \in Nat

VARIABLES
    refund,     \* the refund rows
    order,      \* the status of the payment's order; "paid" stands for
                \* preparing, shipped and delivered, alike for a refund
    duplicate,  \* the payment's failure_code is duplicate_payment
    remote,     \* what the provider did with each refund
    task,       \* the refund a worker is busy with, and the answer it holds
    crashes

\* History: refunds whose outcome was written while another worker's call about
\* them was under way, until they are started again with no other call left.
VARIABLE overtaken

refundVars == <<refund, order, duplicate, remote, task, crashes, overtaken>>

-------------------------------------------------------------------------------

RESERVED_STATUSES == {"requested", "processing", "completed"}
RefundStatus == {"absent", "failed"} \cup RESERVED_STATUSES
Refund == [status: RefundStatus, amount: 0 .. Amount, affects: BOOLEAN]

\* "failed" is every answer that ends in _fail_locked: a refusal, an unknown
\* status, an error of the call, or a completion whose amount, currency or
\* reference is not the one expected.
RefundAnswer == {"processing", "completed", "failed"}
Idle == [refund |-> "none", action |-> "none", answer |-> "none"]
Task == {Idle} \cup
        [refund: Refunds, action: {"submit", "reconcile"}, answer: {"none"} \cup RefundAnswer]

Remote == {"none", "processing", "completed", "refused"}

RefundInit ==
    /\ refund = [r \in Refunds |-> [status |-> "absent", amount |-> 0, affects |-> FALSE]]
    /\ order \in {"paid", "refund_required"}
    /\ duplicate \in BOOLEAN
    /\ duplicate => order = "paid"
    /\ remote = [r \in Refunds |-> "none"]
    /\ task = [w \in Workers |-> Idle]
    /\ crashes = 0
    /\ overtaken = {}

Total(S) == SumFunctionOnSet([r \in Refunds |-> refund[r].amount], S)
ReservedIn(S) == {r \in S : refund[r].status \in RESERVED_STATUSES}
\* The balance of the payment once the refunds of S are reserved.
Balance(S) == Amount - Total(ReservedIn(S))

Mark(r, status) == refund' = [refund EXCEPT ![r].status = status]
CalledBesides(w, r) == \E x \in Workers \ {w} : task[x].refund = r

-------------------------------------------------------------------------------
(* The transactions *)

\* request under a new key.  A known key returns its row or is refused: no step.
Request(r, amount) ==
    LET affects == amount = Balance(Refunds) /\ ~duplicate
        moves == affects /\ order # "refund_pending"
    IN  /\ refund[r].status = "absent"
        /\ amount <= Balance(Refunds)
        /\ moves => "refund_pending" \in ALLOWED_ORDER_TRANSITIONS[order]
        /\ refund' = [refund EXCEPT ![r] = [status |-> "requested", amount |-> amount,
                                            affects |-> affects]]
        /\ order' = IF moves THEN "refund_pending" ELSE order
        /\ UNCHANGED <<duplicate, remote, task, crashes, overtaken>>

\* Defect: the balance is not looked at again.
StartUnchecked(w, r) ==
    /\ task[w] = Idle
    /\ refund[r].status \in {"requested", "failed"}
    /\ Mark(r, "processing")
    /\ order' = IF refund[r].affects /\ order = "refund_failed"
                THEN "refund_pending" ELSE order
    /\ task' = [task EXCEPT ![w] = [refund |-> r, action |-> "submit", answer |-> "none"]]
    /\ overtaken' = IF CalledBesides(w, r) THEN overtaken ELSE overtaken \ {r}
    /\ UNCHANGED <<duplicate, remote, crashes>>

\* _start: a new or failed refund is taken, if the balance still covers it.
Start(w, r) ==
    LET retries == /\ refund[r].status = "failed" /\ refund[r].affects
                   /\ order = "refund_failed"
    IN  /\ task[w] = Idle
        /\ refund[r].status \in {"requested", "failed"}
        /\ refund[r].amount <= Balance(Refunds \ {r})
        /\ Mark(r, "processing")
        /\ order' = IF retries THEN "refund_pending" ELSE order
        /\ task' = [task EXCEPT ![w] = [refund |-> r, action |-> "submit",
                                        answer |-> "none"]]
        /\ overtaken' = IF CalledBesides(w, r) THEN overtaken ELSE overtaken \ {r}
        /\ UNCHANGED <<duplicate, remote, crashes>>

\* Defect: the refunds looked up again are those that failed.
StartReconcileFailed(w, r) ==
    /\ task[w] = Idle /\ refund[r].status = "failed"
    /\ task' = [task EXCEPT ![w] = [refund |-> r, action |-> "reconcile",
                                    answer |-> "none"]]
    /\ UNCHANGED <<refund, order, duplicate, remote, crashes, overtaken>>

\* The check of reconcile.
StartReconcile(w, r) ==
    /\ task[w] = Idle /\ refund[r].status = "processing"
    /\ task' = [task EXCEPT ![w] = [refund |-> r, action |-> "reconcile",
                                    answer |-> "none"]]
    /\ UNCHANGED <<refund, order, duplicate, remote, crashes, overtaken>>

\* Defect: a failure is written on the refund only.
ApplyFailureKeepsOrder(w) ==
    LET r == task[w].refund
        done == task[w].answer = "completed"
    IN  /\ task[w].answer \in {"completed", "failed"}
        /\ Mark(r, task[w].answer)
        /\ order' = IF done /\ refund[r].affects /\ order = "refund_pending"
                    THEN "refunded" ELSE order
        /\ task' = [task EXCEPT ![w] = Idle]
        /\ overtaken' = IF CalledBesides(w, r) THEN overtaken \cup {r} ELSE overtaken
        /\ UNCHANGED <<duplicate, remote, crashes>>

\* _apply_result and _fail: the row is locked, its status is not looked at.
Apply(w) ==
    LET r == task[w].refund
        answer == task[w].answer
    IN  /\ answer \in RefundAnswer
        /\ IF answer = "processing" THEN UNCHANGED refund ELSE Mark(r, answer)
        /\ order' = IF answer = "processing" \/ ~refund[r].affects
                       \/ order # "refund_pending" THEN order
                    ELSE IF answer = "completed" THEN "refunded" ELSE "refund_failed"
        /\ task' = [task EXCEPT ![w] = Idle]
        /\ overtaken' = IF answer # "processing" /\ CalledBesides(w, r)
                        THEN overtaken \cup {r} ELSE overtaken
        /\ UNCHANGED <<duplicate, remote, crashes>>

Crash(w) ==
    /\ task[w] # Idle /\ crashes < MaxCrashes
    /\ task' = [task EXCEPT ![w] = Idle]
    /\ crashes' = crashes + 1
    /\ UNCHANGED <<refund, order, duplicate, remote, overtaken>>

-------------------------------------------------------------------------------
(* The provider *)

\* What it answers when it knows the refund to be in that state, or fails to.
Answers(state) ==
    {"failed"} \cup ({state} \cap {"processing", "completed"})

\* create_refund: the provider takes a refund it does not have, may refuse it,
\* may never receive it; sent again, it is still one refund (its uuid).
Submit(w) ==
    LET r == task[w].refund
    IN  /\ task[w].action = "submit" /\ task[w].answer = "none"
        /\ \E state \in {remote[r]} \cup
                        (IF remote[r] \in {"none", "refused"} THEN Remote \ {"none"} ELSE {}),
              answer \in RefundAnswer :
             /\ answer \in Answers(state)
             /\ remote' = [remote EXCEPT ![r] = state]
             /\ task' = [task EXCEPT ![w].answer = answer]
        /\ UNCHANGED <<refund, order, duplicate, crashes, overtaken>>

\* verify_refund.
Verify(w) ==
    /\ task[w].action = "reconcile" /\ task[w].answer = "none"
    /\ \E answer \in Answers(remote[task[w].refund]) :
          task' = [task EXCEPT ![w].answer = answer]
    /\ UNCHANGED <<refund, order, duplicate, remote, crashes, overtaken>>

\* A refund the provider was working on is paid out or refused.
RemoteSettle(r) ==
    /\ remote[r] = "processing"
    /\ \E state \in {"completed", "refused"} : remote' = [remote EXCEPT ![r] = state]
    /\ UNCHANGED <<refund, order, duplicate, task, crashes, overtaken>>

-------------------------------------------------------------------------------

RefundNext ==
    \/ \E r \in Refunds, amount \in 1 .. Amount : Request(r, amount)
    \/ \E w \in Workers, r \in Refunds : Start(w, r) \/ StartReconcile(w, r)
    \/ \E w \in Workers : Submit(w) \/ Verify(w) \/ Apply(w) \/ Crash(w)
    \/ \E r \in Refunds : RemoteSettle(r)

RefundSpec == RefundInit /\ [][RefundNext]_refundVars

\* The cron command takes the refunds in processing, least recently checked
\* first, every few minutes; its calls return, and the provider settles.
FairRefundSpec ==
    /\ RefundSpec
    /\ \A r \in Refunds : /\ SF_refundVars(\E w \in Workers : StartReconcile(w, r))
                          /\ WF_refundVars(RemoteSettle(r))
    /\ \A w \in Workers : WF_refundVars(Submit(w) \/ Verify(w) \/ Apply(w))

-------------------------------------------------------------------------------
(* Properties *)

RefundTypeOK ==
    /\ refund \in [Refunds -> Refund]
    /\ order \in Status
    /\ duplicate \in BOOLEAN
    /\ remote \in [Refunds -> Remote]
    /\ task \in [Workers -> Task]
    /\ crashes \in 0 .. MaxCrashes
    /\ overtaken \subseteq Refunds

\* Requests, retries and reallocations of a failed refund's balance never
\* reserve more than was captured, with an administrator and the cron command at
\* work at once; what may exceed it is a refund that one of them gave an outcome
\* while the other's call was under way, whose late answer is written over it.
ReservedWithinPayment == Total(ReservedIn(Refunds \ overtaken)) <= Amount

\* An order that waits for a refund has one that will take it out of there:
\* open, and marked as affecting the order.
PendingHasRefund ==
    order = "refund_pending" =>
        \E r \in Refunds : /\ refund[r].affects
                           /\ refund[r].status \in {"requested", "processing"}

\* The provider paid every refund the shop holds for completed, and an order
\* is refunded only with such a refund.
RefundedIsConfirmed ==
    /\ \A r \in Refunds : refund[r].status = "completed" => remote[r] = "completed"
    /\ order = "refunded" =>
          \E r \in Refunds : refund[r].affects /\ remote[r] = "completed"

\* A completed refund stays completed, whatever answer comes later, unless it was
\* completed while another call about it was under way.
CompletedIsFinal ==
    [][\A r \in Refunds \ overtaken :
          refund[r].status = "completed" => refund'[r] = refund[r]
      ]_refundVars

\* A refund in processing gets an outcome, also when the worker that submitted
\* it died before the provider heard of it.
ProcessingIsResolved ==
    \A r \in Refunds : refund[r].status = "processing" ~> refund[r].status # "processing"
===============================================================================
