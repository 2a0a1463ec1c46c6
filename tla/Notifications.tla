----------------------------- MODULE Notifications -----------------------------
(***************************************************************************)
(* Mails about orders and refunds: OrderNotificationService, its twin      *)
(* RefundNotificationService, and the command retry_order_notifications.   *)
(*                                                                         *)
(* A transition writes its receipt row inside the business transaction and *)
(* leaves the mail to an on_commit callback, which the process that        *)
(* committed runs afterwards, outside any transaction and any lock.  So a  *)
(* rolled-back savepoint takes its rows and its callbacks back, a process  *)
(* that dies after the commit never sends, and a dispatch is three steps   *)
(* (look at the row under its lock, hand the mail over, write the outcome) *)
(* that the steps of another dispatch may come between.                    *)
(*                                                                         *)
(* attempts, last_attempt_at and failure_code are read by no decision and  *)
(* are left out.  The recipient is a frozen column of the order, so the    *)
(* branch recipient_missing of dispatch cannot be taken: schedule returned *)
(* before.                                                                 *)
(***************************************************************************)
EXTENDS Naturals, FiniteSets, SequencesExt

CONSTANTS
    OrderIds,
    OrderNotices,   \* <<order, event>>: the key of OrderNotificationReceipt
    RefundNotices,  \* <<order, event>>, of RefundNotificationReceipt: a refund
                    \* stands under its order
    Addressed,      \* notices whose order has an e-mail address
    Bouncing,       \* notices whose address the mail server never accepts
    Web, Cron,      \* processes: requests, and runs of the retry command
    Limit,          \* --limit of the command (500 in the crontab)
    MaxCrashes,     \* bound on the processes that die
    None            \* no order, no notice

Notices == OrderNotices \cup RefundNotices
Processes == Web \cup Cron

\* The event a transition announces; the refund statuses announce none, the
\* refund service does.
EventOf == [pending_payment |-> "order_created", payment_processing |-> "payment_processing",
            paid |-> "payment_confirmed", payment_failed |-> "payment_failed",
            preparing |-> "order_preparing", shipped |-> "order_shipped",
            delivered |-> "order_delivered", cancelled |-> "order_cancelled",
            expired |-> "order_expired", refund_required |-> "refund_required"]
OrderEvents == {EventOf[s] : s \in DOMAIN EventOf}
RefundEvents == {"refund_requested", "refund_processing", "refund_completed",
                 "refund_failed"}

ASSUME NoticeAssumption ==
    /\ OrderNotices \subseteq OrderIds \X OrderEvents
    /\ RefundNotices \subseteq OrderIds \X RefundEvents
    /\ Addressed \subseteq Notices /\ Bouncing \subseteq Addressed
    /\ Web \cap Cron = {} /\ IsFiniteSet(Cron)
    /\ None \notin Notices \cup OrderIds
    /\ Limit \in Nat \ {0} /\ MaxCrashes \in Nat

VARIABLES
    failedOnly,  \* whether the scheduled command carries --failed-only
    row,         \* the committed receipt rows
    born,        \* their order of created_at
    proc,        \* the processes
    mails,       \* mails the server accepted, counted to 2
    lost,        \* notices whose process died with their dispatch to do
    excuse,      \* what may make a second mail of a notice legitimate
    crashes

vars == <<failedOnly, row, born, proc, mails, lost, excuse, crashes>>

-------------------------------------------------------------------------------
(* The rows *)

RowStatus == {"absent", "pending", "sent", "failed"}
Phases == {"idle", "tx", "run", "mail", "accepted", "refused"}

\* made, inner: the rows and callbacks of the transaction, before and since
\* its savepoint.  todo: the callbacks, or the command's rows, still to
\* dispatch; cur: the notice being dispatched.
Process == [at: Phases, order: OrderIds \cup {None}, made: Seq(Notices),
            nested: BOOLEAN, inner: Seq(Notices), todo: Seq(Notices),
            cur: Notices \cup {None}]
Resting == [at |-> "idle", order |-> None, made |-> <<>>, nested |-> FALSE,
         inner |-> <<>>, todo |-> <<>>, cur |-> None]

Committed(n) == row[n] # "absent"
\* Another process is between its look at the row and its last write to it.
Dispatching(n, p) == \E q \in Processes \ {p} : proc[q].cur = n

Init ==
    /\ failedOnly \in BOOLEAN
    /\ row = [n \in Notices |-> "absent"]
    /\ born = <<>>
    /\ proc = [p \in Processes |-> Resting]
    /\ mails = [n \in Notices |-> 0]
    /\ lost = {}
    /\ excuse = [n \in Notices |-> {}]
    /\ crashes = 0

-------------------------------------------------------------------------------
(* The business transaction *)

Database == <<row, born>>
History == <<mails, lost, excuse, crashes>>

Begin(p, o) ==
    /\ p \in Web /\ proc[p].at = "idle"
    /\ \A q \in Web : proc[q].order # o          \* the order's row lock
    /\ proc' = [proc EXCEPT ![p] = [Resting EXCEPT !.at = "tx", !.order = o]]
    /\ UNCHANGED <<failedOnly, Database, History>>

\* get_or_create under the unique constraint, as this transaction sees it.
Creates(p, n) ==
    ~Committed(n) /\ ~Contains(proc[p].made, n) /\ ~Contains(proc[p].inner, n)

\* A second occurrence of an event (a second failed payment, say) finds the
\* receipt of the first.
Announce(p, n) ==
    /\ proc[p].at = "tx" /\ n[1] = proc[p].order
    /\ n \in Addressed /\ Creates(p, n)
    /\ proc' = IF proc[p].nested
               THEN [proc EXCEPT ![p].inner = Append(@, n)]
               ELSE [proc EXCEPT ![p].made = Append(@, n)]
    /\ UNCHANGED <<failedOnly, Database, History>>

\* The last call of a transition of the order, and of a step of its refund.
Schedule(p, n) == n \in OrderNotices /\ Announce(p, n)
ScheduleRefund(p, n) == n \in RefundNotices /\ Announce(p, n)

Savepoint(p) ==
    /\ proc[p].at = "tx" /\ ~proc[p].nested
    /\ proc' = [proc EXCEPT ![p].nested = TRUE]
    /\ UNCHANGED <<failedOnly, Database, History>>

\* The inner block ends well.
Release(p) ==
    /\ proc[p].nested
    /\ proc' = [proc EXCEPT ![p].nested = FALSE, ![p].inner = <<>>,
                            ![p].made = @ \o proc[p].inner]
    /\ UNCHANGED <<failedOnly, Database, History>>

\* The inner block raises and its caller goes on: rows and callbacks go.
RollbackTo(p) ==
    /\ proc[p].nested
    /\ proc' = [proc EXCEPT ![p].nested = FALSE, ![p].inner = <<>>]
    /\ UNCHANGED <<failedOnly, Database, History>>

Commit(p) ==
    LET made == proc[p].made
    IN  /\ proc[p].at = "tx" /\ ~proc[p].nested
        /\ row' = [n \in Notices |-> IF Contains(made, n) THEN "pending" ELSE row[n]]
        /\ born' = born \o made
        /\ proc' = [proc EXCEPT ![p] = [Resting EXCEPT !.at = "run", !.todo = made]]
        /\ UNCHANGED <<failedOnly, History>>

Abort(p) ==
    /\ proc[p].at = "tx"
    /\ proc' = [proc EXCEPT ![p] = Resting]
    /\ UNCHANGED <<failedOnly, Database, History>>

-------------------------------------------------------------------------------
(* Dispatch *)

\* Defect: the row is not looked at again before the mail goes out.
PickWithoutLooking(p) ==
    LET n == Head(proc[p].todo)
    IN  /\ proc[p].at = "run" /\ proc[p].todo # <<>>
        /\ proc' = [proc EXCEPT ![p].todo = Tail(@), ![p].at = "mail", ![p].cur = n]
        /\ excuse' = IF Dispatching(n, p)
                     THEN [excuse EXCEPT ![n] = @ \cup {"overlap"}] ELSE excuse
        /\ UNCHANGED <<failedOnly, Database, mails, lost, crashes>>

\* The locked part: a notice that is sent is skipped.
Pick(p) ==
    LET n == Head(proc[p].todo)
    IN  /\ proc[p].at = "run" /\ proc[p].todo # <<>>
        /\ IF row[n] = "sent"
           THEN proc' = [proc EXCEPT ![p].todo = Tail(@)] /\ UNCHANGED excuse
           ELSE /\ proc' = [proc EXCEPT ![p].todo = Tail(@), ![p].at = "mail",
                                        ![p].cur = n]
                /\ excuse' = IF Dispatching(n, p)
                             THEN [excuse EXCEPT ![n] = @ \cup {"overlap"}] ELSE excuse
        /\ UNCHANGED <<failedOnly, Database, mails, lost, crashes>>

MailAccepted(p) ==
    /\ proc[p].at = "mail" /\ proc[p].cur \notin Bouncing
    /\ proc' = [proc EXCEPT ![p].at = "accepted"]
    /\ mails' = [mails EXCEPT ![proc[p].cur] = IF @ < 2 THEN @ + 1 ELSE @]
    /\ UNCHANGED <<failedOnly, Database, lost, excuse, crashes>>

MailRefused(p) ==
    /\ proc[p].at = "mail"
    /\ proc' = [proc EXCEPT ![p].at = "refused"]
    /\ UNCHANGED <<failedOnly, Database, History>>

\* Defect: only a success is written.
RecordOnlySuccess(p) ==
    /\ proc[p].at \in {"accepted", "refused"}
    /\ row' = IF proc[p].at = "accepted" THEN [row EXCEPT ![proc[p].cur] = "sent"] ELSE row
    /\ proc' = [proc EXCEPT ![p].at = "run", ![p].cur = None]
    /\ UNCHANGED <<failedOnly, born, History>>

\* The outcome is written whatever the row says by now.
Record(p) ==
    /\ proc[p].at \in {"accepted", "refused"}
    /\ row' = [row EXCEPT ![proc[p].cur] =
                  IF proc[p].at = "accepted" THEN "sent" ELSE "failed"]
    /\ proc' = [proc EXCEPT ![p].at = "run", ![p].cur = None]
    /\ UNCHANGED <<failedOnly, born, History>>

\* The two services send and record alike.
Dispatch(p) ==
    proc[p].cur \in OrderNotices /\ (MailAccepted(p) \/ MailRefused(p) \/ Record(p))
DispatchRefund(p) ==
    proc[p].cur \in RefundNotices /\ (MailAccepted(p) \/ MailRefused(p) \/ Record(p))

Finish(p) ==
    /\ proc[p].at = "run" /\ proc[p].todo = <<>>
    /\ proc' = [proc EXCEPT ![p] = Resting]
    /\ UNCHANGED <<failedOnly, Database, History>>

\* retry_order_notifications, for orders only: its rows are read once, the Limit
\* oldest of them.
Unsent ==
    {n \in OrderNotices : Committed(n) /\ row[n] # "sent" /\ (failedOnly => row[n] = "failed")}
Older(m, n) == \E i, j \in DOMAIN born : i < j /\ born[i] = m /\ born[j] = n
IsOldest(s, rows) ==
    /\ Len(s) = Min({Limit, Cardinality(rows)})
    /\ \A i \in DOMAIN s : Cardinality({n \in rows : Older(n, s[i])}) = i - 1

Retry(c) ==
    /\ c \in Cron /\ proc[c].at = "idle"
    /\ \E rows \in SeqOf(Unsent, Limit) :
          /\ IsOldest(rows, Unsent)
          /\ proc' = [proc EXCEPT ![c] = [Resting EXCEPT !.at = "run", !.todo = rows]]
    /\ UNCHANGED <<failedOnly, Database, History>>

\* A process dies: what it had not committed or not dispatched goes with it.
Crash(p) ==
    LET r == proc[p]
    IN  /\ r.at # "idle" /\ crashes < MaxCrashes
        /\ crashes' = crashes + 1
        /\ proc' = [proc EXCEPT ![p] = Resting]
        /\ lost' = lost \cup ToSet(r.todo) \cup ({r.cur} \cap Notices)
        /\ excuse' = IF r.at = "accepted"
                     THEN [excuse EXCEPT ![r.cur] = @ \cup {"crash"}] ELSE excuse
        /\ UNCHANGED <<failedOnly, Database, mails>>

-------------------------------------------------------------------------------

Next ==
    \/ \E p \in Web, o \in OrderIds : Begin(p, o)
    \/ \E p \in Web, n \in Notices : Schedule(p, n) \/ ScheduleRefund(p, n)
    \/ \E p \in Web : Savepoint(p) \/ Release(p) \/ RollbackTo(p) \/ Commit(p) \/ Abort(p)
    \/ \E p \in Processes :
          Pick(p) \/ Dispatch(p) \/ DispatchRefund(p) \/ Finish(p) \/ Crash(p)
    \/ \E c \in Cron : Retry(c)

\* A process that runs goes on; the scheduler starts the command again and
\* again; a server asked again and again for a good address takes the mail.
Fairness ==
    /\ \A p \in Processes :
          WF_vars(Pick(p) \/ Dispatch(p) \/ DispatchRefund(p) \/ Finish(p))
    /\ \A c \in Cron : WF_vars(Retry(c))
    /\ \A n \in OrderNotices : SF_vars(\E p \in Processes : proc[p].cur = n /\ MailAccepted(p))

Spec == Init /\ [][Next]_vars /\ Fairness

-------------------------------------------------------------------------------
(* Properties *)

\* The rows keep their types; each is in the created_at order once, and no
\* process holds a notice outside its dispatch.
NoticeTypeOK ==
    /\ failedOnly \in BOOLEAN
    /\ row \in [Notices -> RowStatus]
    /\ born \in Seq(Notices) /\ IsInjective(born)
    /\ ToSet(born) = {n \in Notices : Committed(n)}
    /\ \A p \in Processes :
          /\ proc[p] \in Process
          /\ proc[p].cur # None <=> proc[p].at \in {"mail", "accepted", "refused"}
    /\ mails \in [Notices -> 0 .. 2]
    /\ lost \subseteq Notices
    /\ excuse \in [Notices -> SUBSET {"overlap", "crash"}]

\* The customer hears of an event that really was committed, and twice only if
\* two dispatches overlapped or the sender died before it wrote "sent".  With
\* one scheduler and --failed-only, the crontab's choice, none overlap: the
\* command never sees a row whose first dispatch is still under way.
RepeatNeedsExcuse ==
    \A n \in Notices :
        /\ mails[n] > 0 => Committed(n) /\ n \in Addressed
        /\ mails[n] > 1 => excuse[n] # {}
        /\ (failedOnly /\ Cardinality(Cron) = 1) => "overlap" \notin excuse[n]
        /\ (row[n] = "sent" => mails[n] > 0)

\* Every mail about an order whose address works is accepted in the end, as
\* long as the addresses that bounce do not fill the command's limit, except
\* the one that --failed-only leaves behind: its process died, its row is
\* pending for ever.
OrderMailsArrive ==
    \A n \in OrderNotices \ Bouncing :
        Committed(n) ~> (mails[n] > 0 \/ (failedOnly /\ n \in lost))
===============================================================================
