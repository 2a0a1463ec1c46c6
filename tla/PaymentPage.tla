------------------------------ MODULE PaymentPage ------------------------------
(***************************************************************************)
(* The customer's way back from the provider: Checkout.jsx saves the       *)
(* payment it leaves for under one localStorage entry, and                 *)
(* CheckoutSuccess.jsx watches the payment of that entry, by itself for    *)
(* MAX_ATTEMPTS requests and by hand afterwards.                           *)
(*                                                                         *)
(* A request is served by the shop when it reads or refreshes the payment, *)
(* and its answer arrives later, in any order with the others.  On the     *)
(* shop's side a payment is the only one of its order, and the order is    *)
(* kept as far as the page can tell.                                       *)
(***************************************************************************)
EXTENDS LigdiCash, Integers

CONSTANTS
    Payments, Tabs, None,
    MAX_ATTEMPTS

ASSUME PaymentPageAssumption == MAX_ATTEMPTS \in Nat \ {0} /\ None \notin Payments

VARIABLES
    entry,     \* pendingCheckout in localStorage
    tab,       \* what each tab shows and waits for
    row,       \* the shop's payment and order
    provider,  \* what the customer did at the provider
    crossed    \* history: the entry was replaced while its payment was watched

vars == <<entry, tab, row, provider, crossed>>

FINAL == {"completed", "failed", "refund_required"}
PayStatus == {"absent", "redirect_required", "processing"} \cup FINAL
OrderStatus == {"payable", "paid", "preparing", "closed", "refund_required"}
Row == [status: PayStatus, order: OrderStatus]

\* A request under way: for which payment, and the status it brings once served,
\* with whether the order was paid.
Nothing == [payment |-> None, answer |-> "none", paid |-> FALSE]
Request == [payment: Payments \cup {None}, answer: {"none", "sent"} \cup PayStatus,
            paid: BOOLEAN]
Send(p) == [Nothing EXCEPT !.payment = p, !.answer = "sent"]

Tab == [page: {"shop", "leaving", "provider", "return"},
        hidden: BOOLEAN,
        watched: Payments \cup {None},     \* initialPending
        shown: Payments \cup {None},       \* payment: whose answer came last
        phase: {"none", "unknown", "verifying", "success", "pending", "network",
                "redirect_required", "processing"} \cup FINAL,
        attempt: 0 .. MAX_ATTEMPTS - 1,
        timer: BOOLEAN, poll: Request, retry: Request,
        stray: Request]    \* the check by hand of a page that was left

NewTab == [page |-> "shop", hidden |-> FALSE, watched |-> None, shown |-> None,
           phase |-> "none", attempt |-> 0, timer |-> FALSE,
           poll |-> Nothing, retry |-> Nothing, stray |-> Nothing]

Init ==
    /\ entry = None
    /\ tab = [t \in Tabs |-> NewTab]
    /\ row = [p \in Payments |-> [status |-> "absent", order |-> "payable"]]
    /\ provider = [p \in Payments |-> "open"]
    /\ crossed = FALSE

-------------------------------------------------------------------------------
(* The shop *)

\* The row after a confirmed payment: the order is paid, or was closed or could
\* not be fulfilled and is to be refunded.
Confirmed(r) ==
    IF r.order = "payable"
    THEN {[status |-> "completed", order |-> o] : o \in {"paid", "refund_required"}}
    ELSE {[status |-> "completed", order |-> "refund_required"]}

\* refresh, for a page, a callback or the cron command: the rows it may leave.
Refreshed(p) ==
    IF row[p].status \in {"completed", "refund_required"} THEN {row[p]}
    ELSE UNION {CASE v = "completed"  -> Confirmed(row[p])
                  [] v = "failed"     -> {[row[p] EXCEPT !.status = "failed"]}
                  [] v = "processing" -> {[row[p] EXCEPT !.status = "processing"]}
                  [] OTHER            -> {} : v \in Verdicts[provider[p]]}

Notified(p) ==
    /\ row[p].status # "absent"
    /\ \E r \in Refreshed(p) : row' = [row EXCEPT ![p] = r]
    /\ UNCHANGED <<entry, tab, provider, crossed>>

\* The order goes on, or is cancelled, expires or is refunded.
OrderMoves(p) ==
    /\ \/ row[p].order = "payable" /\ row' = [row EXCEPT ![p].order = "closed"]
       \/ row[p].order = "paid" /\ row' = [row EXCEPT ![p].order = "preparing"]
    /\ UNCHANGED <<entry, tab, provider, crossed>>

Settle(p) ==
    /\ row[p].status # "absent" /\ provider[p] \notin Captured
    /\ \E s \in Settlements \ {"open"} : provider' = [provider EXCEPT ![p] = s]
    /\ UNCHANGED <<entry, tab, row, crossed>>

-------------------------------------------------------------------------------
(* Checkout.jsx: proceedToPayment *)

Watching(p) ==
    \E t \in Tabs : \/ p \in {tab[t].retry.payment, tab[t].stray.payment}
                    \/ tab[t].page = "return" /\ tab[t].watched = p

\* initialize creates or hands back the payment; the page leaves only with a
\* session that can be redirected to.
ProceedToPayment(t, p) ==
    /\ tab[t].page = "shop" /\ row[p].order = "payable"
    /\ row[p].status \in {"absent", "redirect_required"}
    /\ row' = [row EXCEPT ![p].status = "redirect_required"]
    /\ \/ /\ entry' = p
          /\ tab' = [tab EXCEPT ![t].page = "leaving"]
          /\ crossed' = (crossed \/ \E q \in Payments \ {p} : Watching(q))
       \/ UNCHANGED <<entry, tab, crossed>>      \* the answer is lost
    /\ UNCHANGED provider

\* recordPaymentRedirect, then the provider's page; refused or lost, the
\* checkout stays where it is.
Redirect(t) ==
    /\ tab[t].page = "leaving"
    /\ \E page \in {"shop", "provider"} : tab' = [tab EXCEPT ![t].page = page]
    /\ UNCHANGED <<entry, row, provider, crossed>>

-------------------------------------------------------------------------------
(* CheckoutSuccess.jsx *)

\* verify(attempt): a hidden tab asks nothing and plans nothing.
Verify(s, attempt) ==
    [s EXCEPT !.attempt = attempt, !.timer = FALSE,
              !.poll = IF s.hidden THEN Nothing ELSE Send(s.watched)]

Open(t) ==
    /\ tab[t].page # "return"
    /\ LET s == [tab[t] EXCEPT !.page = "return", !.watched = entry,
                               !.attempt = 0]
       IN  tab' = [tab EXCEPT ![t] =
              IF entry = None THEN [s EXCEPT !.phase = "unknown"]
                              ELSE Verify([s EXCEPT !.phase = "verifying"], 0)]
    /\ UNCHANGED <<entry, row, provider, crossed>>

Success(request) == request.answer = "completed" /\ request.paid

\* What is kept of a check by hand when nothing is shown of it any more: a
\* request still to be served, and an answer that will clear the entry.
Stray(request) ==
    IF request.answer = "sent" \/ Success(request) THEN request ELSE Nothing

\* The page is left: the timer is cleared and the answer of its own request
\* ignored, the one of a check by hand is not.
Leave(t) ==
    /\ tab[t].page = "return" /\ tab[t].stray = Nothing
    /\ tab' = [tab EXCEPT ![t] = [NewTab EXCEPT !.stray = Stray(tab[t].retry)]]
    /\ UNCHANGED <<entry, row, provider, crossed>>

Hide(t) ==
    /\ tab[t].page = "return"
    /\ tab' = [tab EXCEPT ![t].hidden = ~@]
    /\ UNCHANGED <<entry, row, provider, crossed>>

TimerFires(t) ==
    /\ tab[t].timer
    /\ tab' = [tab EXCEPT ![t] = Verify(tab[t], tab[t].attempt + 1)]
    /\ UNCHANGED <<entry, row, provider, crossed>>

\* getPaymentById the first time, refreshPaymentStatus afterwards.
Served(r, request) == [request EXCEPT !.answer = r.status, !.paid = r.order = "paid"]

PollServed(t) ==
    LET p == tab[t].poll.payment
    IN  /\ tab[t].poll.answer = "sent"
        /\ \E r \in IF tab[t].attempt = 0 THEN {row[p]} ELSE Refreshed(p) :
              /\ row' = [row EXCEPT ![p] = r]
              /\ tab' = [tab EXCEPT ![t].poll = Served(r, @)]
        /\ UNCHANGED <<entry, provider, crossed>>

\* Defect: every final answer clears the entry.
PollArrivesClearing(t) ==
    LET request == tab[t].poll
        s == [tab[t] EXCEPT !.poll = Nothing, !.shown = request.payment]
    IN  /\ request.answer \in PayStatus
        /\ \/ /\ request.answer \in FINAL /\ entry' = None
              /\ tab' = [tab EXCEPT ![t] =
                    [s EXCEPT !.phase = IF Success(request) THEN "success"
                                                            ELSE request.answer]]
           \/ /\ request.answer \notin FINAL /\ UNCHANGED entry
              /\ tab' = [tab EXCEPT ![t] =
                    IF s.attempt = MAX_ATTEMPTS - 1 THEN [s EXCEPT !.phase = "pending"]
                                                    ELSE [s EXCEPT !.timer = TRUE]]
        /\ UNCHANGED <<row, provider, crossed>>
PollArrives(t) ==
    LET request == tab[t].poll
        s == [tab[t] EXCEPT !.poll = Nothing, !.shown = request.payment]
    IN  /\ request.answer \in PayStatus
        /\ \/ /\ Success(request)
              /\ tab' = [tab EXCEPT ![t] = [s EXCEPT !.phase = "success"]]
              /\ entry' = None
           \/ /\ ~Success(request) /\ request.answer \in FINAL
              /\ tab' = [tab EXCEPT ![t] = [s EXCEPT !.phase = request.answer]]
              /\ UNCHANGED entry
           \/ /\ request.answer \notin FINAL
              /\ tab' = [tab EXCEPT ![t] =
                    IF s.attempt = MAX_ATTEMPTS - 1 THEN [s EXCEPT !.phase = "pending"]
                                                    ELSE [s EXCEPT !.timer = TRUE]]
              /\ UNCHANGED entry
        /\ UNCHANGED <<row, provider, crossed>>

\* Defect: an error plans nothing and says nothing.
PollFailsSilently(t) ==
    /\ tab[t].poll.payment # None
    /\ tab' = [tab EXCEPT ![t].poll = Nothing]
    /\ UNCHANGED <<entry, row, provider, crossed>>
\* The request raised, timed out or was lost: the page stops asking.
PollFails(t) ==
    /\ tab[t].poll.payment # None
    /\ tab' = [tab EXCEPT ![t].poll = Nothing, ![t].phase = "network"]
    /\ UNCHANGED <<entry, row, provider, crossed>>

\* The button, which reads the entry anew and is there while a poll is under way.
\* Bound: one check by hand of a page at a time. The button is not disabled, so the
\* page may have several under way, each answered as this one is.
Retry(t) ==
    /\ tab[t].page = "return" /\ tab[t].phase # "success"
    /\ entry # None /\ tab[t].retry.payment = None
    /\ tab' = [tab EXCEPT ![t].phase = "verifying", ![t].retry = Send(entry)]
    /\ UNCHANGED <<entry, row, provider, crossed>>

RetryServed(t) ==
    LET p == tab[t].retry.payment
    IN  /\ tab[t].retry.answer = "sent"
        /\ \E r \in Refreshed(p) :
              /\ row' = [row EXCEPT ![p] = r]
              /\ tab' = [tab EXCEPT ![t].retry = Served(r, @)]
        /\ UNCHANGED <<entry, provider, crossed>>

RetryArrives(t) ==
    LET request == tab[t].retry
    IN  /\ request.answer \in PayStatus
        /\ tab' = [tab EXCEPT ![t].retry = Nothing, ![t].shown = request.payment,
                ![t].phase = IF Success(request) THEN "success" ELSE request.answer]
        /\ entry' = IF Success(request) THEN None ELSE entry
        /\ UNCHANGED <<row, provider, crossed>>

RetryFails(t) ==
    /\ tab[t].retry.payment # None
    /\ tab' = [tab EXCEPT ![t].retry = Nothing, ![t].phase = "network"]
    /\ UNCHANGED <<entry, row, provider, crossed>>

\* The check by hand of a page that was left: nothing is shown of it, and its
\* success clears the entry all the same.
StrayServed(t) ==
    LET p == tab[t].stray.payment
    IN  /\ tab[t].stray.answer = "sent"
        /\ \E r \in Refreshed(p) :
              /\ row' = [row EXCEPT ![p] = r]
              /\ tab' = [tab EXCEPT ![t].stray = Stray(Served(r, @))]
        /\ UNCHANGED <<entry, provider, crossed>>

StrayArrives(t) ==
    /\ Success(tab[t].stray)
    /\ tab' = [tab EXCEPT ![t].stray = Nothing]
    /\ entry' = None
    /\ UNCHANGED <<row, provider, crossed>>

StrayFails(t) ==
    /\ tab[t].stray.payment # None
    /\ tab' = [tab EXCEPT ![t].stray = Nothing]
    /\ UNCHANGED <<entry, row, provider, crossed>>

-------------------------------------------------------------------------------

PollAnswered(t) == PollArrives(t) \/ PollFails(t)
RetryAnswered(t) == RetryArrives(t) \/ RetryFails(t)

Next ==
    \/ \E p \in Payments : Notified(p) \/ OrderMoves(p) \/ Settle(p)
    \/ \E t \in Tabs, p \in Payments : ProceedToPayment(t, p)
    \/ \E t \in Tabs :
          \/ Redirect(t) \/ Open(t) \/ Leave(t) \/ Hide(t) \/ TimerFires(t)
          \/ PollServed(t) \/ PollAnswered(t)
          \/ Retry(t) \/ RetryServed(t) \/ RetryAnswered(t)
          \/ StrayServed(t) \/ StrayArrives(t) \/ StrayFails(t)

\* The client times every request out, and a timer fires.
Fairness ==
    \A t \in Tabs : WF_vars(PollAnswered(t)) /\ WF_vars(RetryAnswered(t))
                    /\ WF_vars(TimerFires(t))

Spec == Init /\ [][Next]_vars /\ Fairness

-------------------------------------------------------------------------------
(* Properties *)

\* A page asks at most once at a time by itself, plans the next request only
\* when none is under way, and asks nothing once it is left.
PageTypeOK ==
    /\ entry \in Payments \cup {None}
    /\ tab \in [Tabs -> Tab] /\ row \in [Payments -> Row]
    /\ provider \in [Payments -> Settlements] /\ crossed \in BOOLEAN
    /\ \A t \in Tabs : LET s == tab[t] IN
          /\ s.timer => s.poll = Nothing /\ s.attempt < MAX_ATTEMPTS - 1
          /\ s.page # "return" => s.poll = Nothing /\ ~s.timer

\* A page announces a confirmed payment only when the provider captured the
\* expected amount for the payment it shows, in the expected currency or in one that a
\* reply left out (it is taken as XOF), whatever else the replies leave out and whatever
\* answers come late, unless a second payment was started while the first was watched.
SuccessIsPaid ==
    \A t \in Tabs :
        LET p == tab[t].shown
        IN  tab[t].phase = "success" /\ ~crossed
                => p # None /\ provider[p] = "captured" /\ row[p].status = "completed"

\* Unless a second payment was started while the first was watched, the entry
\* that leads the customer back to a payment is removed only once that payment
\* is confirmed.
EntryKept ==
    [][entry # None /\ entry' = None /\ ~crossed
         => row[entry].status = "completed" /\ provider[entry] = "captured"]_vars

\* A page that verifies ends with a verdict, unless the tab was hidden when its
\* turn to ask came: then only the button goes on.
VerificationEnds ==
    \A t \in Tabs :
        (tab[t].phase = "verifying" /\ (tab[t].timer \/ tab[t].poll # Nothing))
            ~> (tab[t].phase # "verifying" \/ tab[t].hidden)
===============================================================================
