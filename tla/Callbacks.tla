-------------------------------- MODULE Callbacks --------------------------------
(***************************************************************************)
(* The provider's calls to /payments/webhook/ and the payments they are    *)
(* about: how LigdiCash's adapter reads a call, who may make it, the       *)
(* transaction PaymentWebhookService.process runs and what is rolled back  *)
(* with it, the audit lines, the answer that makes the provider call again,*)
(* and what the payment_health command counts afterwards.                  *)
(*                                                                         *)
(* The payments are those of one order; what the order makes of them is    *)
(* Payments' subject and here a choice ("late", "unfulfillable").  The     *)
(* server's settings are Deployment's.                                     *)
(***************************************************************************)
EXTENDS LigdiCash, Deployment, FiniteSets

CONSTANTS
    Payments,     \* identifiers of payments
    None,         \* no payment, or a call that cannot be read
    MAX_EVENTS    \* bound on the events kept

ASSUME CallbackAssumption == None \notin Payments /\ MAX_EVENTS \in Nat

VARIABLES
    row,       \* the status of a payment's row
    session,   \* what became of its session at the provider
    events,    \* PaymentWebhookEvent rows: [key, payment]
    audit,     \* PaymentAuditEvent lines: [payment, event_type, says], but those that
               \* say that a payment is still pending
    answer     \* to the latest call, if nothing happened since: "error" (401, 429, 5xx)
               \* makes the provider call again, "rejected" (a confirmation that does not
               \* match) is a 200

callbackVars == <<row, session, events, audit, answer, deployVars>>

-------------------------------------------------------------------------------
(* Reading a call *)

Value == {"none", "digits", "prefixed", "other"}

\* A call's body; custom_data comes as the object the shop sent, as a list of
\* keyof/valueof entries or as the text of either.
Body == [written: {"json", "form", "bytes"}, payment: Payments,
         custom_data: {"none", "object", "entries", "text"},
         payment_id: Value, transaction_id: Value,
         status: {"none", "completed"},
         request_id: BOOLEAN, transaction: BOOLEAN]

\* Each parser returns the payload, or nothing (WebhookParseError).  A form is
\* also read where a JSON text is handed to it: no field of it is found.
_parse_form_body(body) ==
    CASE body.written = "bytes" -> {}
      [] body.written = "json" -> {[body EXCEPT !.custom_data = "none", !.status = "none",
                                      !.request_id = FALSE, !.transaction = FALSE]}
      [] OTHER -> {[body EXCEPT !.custom_data = IF @ = "text" THEN "object" ELSE "none"]}
_parse_json_body(body) == IF body.written = "json" THEN {body} ELSE {}
parse_webhook(content_type, body) ==
    CASE content_type = "json" -> _parse_json_body(body)
      [] content_type = "form" -> _parse_form_body(body)
      [] OTHER -> IF _parse_json_body(body) = {} THEN _parse_form_body(body)
                                                 ELSE _parse_json_body(body)

_normalize_custom_data(payload) == payload.custom_data \in {"object", "entries"}
_parse_payment_id(value) == value \in {"digits", "prefixed"}
extract_payment_id(payload) ==
    IF /\ _normalize_custom_data(payload)
       /\ \E value \in {payload.payment_id, payload.transaction_id} : _parse_payment_id(value)
    THEN payload.payment ELSE None

\* An identifier of the request is one per payment here, and so are the bodies
\* the hash tells apart.
build_deduplication_key(payload) ==
    <<IF payload.request_id THEN "request"
      ELSE IF payload.status # "none" /\ payload.transaction THEN "logical" ELSE "hash",
      payload.payment>>

\* What calls come down to: the row they name and their key.
Unreadable == [payment |-> None, key |-> None]
ReadCalls(content_type, body) ==
    {[payment |-> extract_payment_id(payload), key |-> build_deduplication_key(payload)] :
        payload \in parse_webhook(content_type, body)}
Calls == {Unreadable} \cup
         UNION {ReadCalls(t, b) : t \in {"json", "form", "untyped"}, b \in Body}

\* The mock's: JSON only, and the key is the payment's.
MockCalls ==
    {Unreadable} \cup
    {[payment |-> IF id = "digits" THEN p ELSE None,
      key |-> <<IF id = "none" THEN "mock:hash" ELSE "mock:payment", p>>] :
        id \in {"none", "digits", "other"}, p \in Payments}

\* The bodies a provider makes of the custom_data it was sent.
Echo(body) ==
    /\ body.payment_id = "digits" /\ body.transaction_id = "prefixed"
    /\ <<body.written, body.custom_data>> \in
        {<<"json", "object">>, <<"json", "entries">>, <<"form", "text">>}

-------------------------------------------------------------------------------
(* Who may call *)

_validate_source_ip(s) == s.allowed \in {"everyone", "caller"}
\* LigdiCash's adapter inherits a verify_webhook_authenticity that verifies nothing.
authenticate(s) == _validate_source_ip(s) /\ (s.signature => webhook_signature_supported)

-------------------------------------------------------------------------------
(* Payments *)

Unprocessed == {"redirect_required", "processing", "failed"}
Processed == {"completed", "refund_required"}
RowStatus == {"absent", "opened"} \cup Unprocessed \cup Processed

Line(p, event_type, says) == [payment |-> p, event_type |-> event_type, says |-> says]
Record(lines) == audit' = audit \cup lines
Says(p, event_type) == {l \in audit : l.payment = p /\ l.event_type = event_type}

\* Paid for the order, not to be given back.
Commercial(p) ==
    /\ row[p] = "completed"
    /\ Says(p, "late_payment") \cup Says(p, "fulfillment_failed") = {}

\* handle_payment_completed: the row's status and its audit line.
Outcomes(p) ==
    IF \E q \in Payments \ {p} : Commercial(q)
    THEN {<<"refund_required", {Line(p, "duplicate_payment_detected", "refund_required")}>>}
    ELSE {<<"completed", {}>>, <<"completed", {Line(p, "late_payment", "completed")}>>,
          <<"completed", {Line(p, "fulfillment_failed", "completed")}>>}

\* The confirm call: what it says, or how it goes wrong ("mismatch" and "invalid" raise
\* PaymentInvalidResponseError, "raises" anything else).
Answer(r) ==
    LET v == verify_payment(r)
    IN  CASE r.total_amount = "unreadable" -> "raises"
          [] v.status = "completed" -> IF validate_provider_confirmation(v)
                                       THEN "completed" ELSE "mismatch"
          [] v.status = "notcompleted" -> "failed"
          [] OTHER -> "processing"
Replies == [s \in Settlements |-> {Answer(r) : r \in RepliesOf(s)} \cup {"raises", "invalid"}]

\* The mock confirms whatever it is asked about, in the payment's own words.
mock_verification == [status |-> "completed", verified_amount |-> "expected",
                      verified_currency |-> "XOF", provider_reference |-> "ours"]

\* What the adapter of this server may say of p.
Asked(p) ==
    CASE get_payment_provider(server) = "mock" ->
            {IF validate_provider_confirmation(mock_verification) THEN "completed"
                                                                  ELSE "mismatch"}
      [] Configured(server) -> Replies[session[p]]
      [] OTHER -> {"raises"}

-------------------------------------------------------------------------------
(* Opening a session *)

Silence == answer' = "200"

CreateReply == [response_code: {"00", "other"}, token: BOOLEAN,
                response_text: {"none", "allowed", "elsewhere"}]
_parse_create_response(r) == r.response_code = "00" /\ r.token /\ r.response_text # "none"
_validate_checkout_url(r) == r.response_text = "allowed"

\* The mock opens one that lives on the shop's own pages.
MockOpens == get_payment_provider(server) = "mock"

\* initialize up to the provider's answer: the row is not committed.
OpenSession(p) ==
    /\ row[p] = "absent" /\ session[p] = "none" /\ (Configured(server) \/ MockOpens)
    /\ \A q \in Payments : row[q] \in {"absent", "failed"}
    /\ row' = [row EXCEPT ![p] = "opened"]
    /\ session' = [session EXCEPT ![p] = IF MockOpens THEN "mock" ELSE "open"]
    /\ Silence /\ UNCHANGED <<events, audit, deployVars>>

CommitInitialize(p) ==
    /\ row[p] = "opened"
    /\ \E r \in CreateReply : _parse_create_response(r) /\ _validate_checkout_url(r)
    /\ row' = [row EXCEPT ![p] = "redirect_required"]
    /\ Record({Line(p, "initialization_requested", "initializing"),
               Line(p, "initialization_succeeded", "redirect_required")})
    /\ Silence /\ UNCHANGED <<session, events, deployVars>>

\* A reply that is refused or lost: "unknown" or "failed" is written, then the
\* exception leaves the transaction and takes the row with it.
RollBackInitialize(p) ==
    /\ row[p] = "opened"
    /\ row' = [row EXCEPT ![p] = "absent"]
    /\ Silence /\ UNCHANGED <<session, events, audit, deployVars>>

\* The customer, at the provider.
Settle(p, how) ==
    /\ row[p] \notin {"absent", "opened"} /\ session[p] = "open" /\ how # "open"
    /\ session' = [session EXCEPT ![p] = how]
    /\ Silence /\ UNCHANGED <<row, events, audit, deployVars>>

-------------------------------------------------------------------------------
(* A call's way through the view *)

EventKeys == {e.key : e \in events}
Known(p) == row[p] \notin {"absent", "opened"}

Answer200 == answer' = "200"
AnswerError == answer' = "error"

\* A server that is down or has no provider, or whose throttle has counted enough
\* requests from this address, any visitor's among them.
Listening == get_payment_provider(server) # "none"
TurnAway == AnswerError /\ UNCHANGED <<row, session, events, audit, deployVars>>

Receive == Listening /\ UNCHANGED <<session, deployVars>>

\* "Invalid payload", before anyone is authenticated, or "Missing payment reference".
Ignore(call) ==
    /\ Receive
    /\ call.key = None \/ (authenticate(server) /\ call.payment = None)
    /\ Answer200
    /\ UNCHANGED <<row, events, audit>>

Reject(call) ==
    /\ Receive
    /\ call.key # None /\ ~authenticate(server)
    /\ Record({Line(p, "webhook_rejected", "authentication") :
                   p \in {q \in Payments : q = call.payment /\ Known(q)}})
    /\ AnswerError
    /\ UNCHANGED <<row, events>>

Admitted(call) == Receive /\ authenticate(server) /\ call.payment # None

Duplicate(call) ==
    /\ Admitted(call) /\ call.key \in EventKeys
    /\ Answer200
    /\ UNCHANGED <<row, events, audit>>

Register(call, payment) ==
    /\ call.key \notin EventKeys /\ Cardinality(events) < MAX_EVENTS
    /\ events' = events \cup {[key |-> call.key, payment |-> payment]}

\* "Unknown payment": of a session whose initialization is under way or undone.
Unknown(call) ==
    /\ Admitted(call) /\ ~Known(call.payment)
    /\ Register(call, None) /\ Answer200
    /\ UNCHANGED <<row, audit>>

ReceivedLine(p) == {Line(p, "webhook_received", "")}

AlreadyProcessed(call) ==
    /\ Admitted(call) /\ Known(call.payment) /\ row[call.payment] \in Processed
    /\ Register(call, call.payment) /\ Record(ReceivedLine(call.payment)) /\ Answer200
    /\ UNCHANGED row

\* The confirm call is made and comes to reply.
Confirming(call, reply) ==
    /\ Admitted(call) /\ Known(call.payment) /\ row[call.payment] \notin Processed
    /\ call.key \notin EventKeys
    /\ reply \in Asked(call.payment)

\* The view answers 200 to a PaymentInvalidResponseError, whatever raised it.
Response == [reply \in {"mismatch", "invalid", "raises"} |->
    CASE reply = "mismatch" -> "rejected" [] reply = "invalid" -> "200" [] OTHER -> "error"]

\* An exception leaves the transaction: no event, no line and no status is kept.
\* Defect: the event is registered in a transaction of its own.
RollBackKeepingEvent(call) ==
    \E reply \in DOMAIN Response :
        /\ Confirming(call, reply) /\ Register(call, None)
        /\ answer' = Response[reply]
        /\ UNCHANGED <<row, audit>>
\* Defect: the audit lines are committed before the confirm call.
RollBackKeepingAudit(call) ==
    \E reply \in DOMAIN Response :
        /\ Confirming(call, reply) /\ Record(ReceivedLine(call.payment))
        /\ answer' = Response[reply]
        /\ UNCHANGED <<row, events>>
RollBack(call) ==
    \E reply \in DOMAIN Response :
        /\ Confirming(call, reply)
        /\ answer' = Response[reply]
        /\ UNCHANGED <<row, events, audit>>

\* handle_payment_completed may raise as well: the call is rolled back with it.
Complete(call) ==
    LET p == call.payment
    IN  /\ Confirming(call, "completed") /\ Register(call, p)
        /\ \E outcome \in Outcomes(p) :
            /\ row' = [row EXCEPT ![p] = outcome[1]]
            /\ Record(ReceivedLine(p) \cup {Line(p, "webhook_validated", "completed")}
                        \cup outcome[2])
        /\ Answer200
CompletionRaises(call) ==
    /\ Confirming(call, "completed") /\ AnswerError
    /\ UNCHANGED <<row, events, audit>>

Fail(call) ==
    LET p == call.payment
    IN  /\ Confirming(call, "failed") /\ Register(call, p)
        /\ row' = [row EXCEPT ![p] = "failed"]
        /\ Record(ReceivedLine(p) \cup {Line(p, "webhook_validated", "failed")})
        /\ Answer200
StillPending(call) ==
    LET p == call.payment
    IN  /\ Confirming(call, "processing") /\ Register(call, p)
        /\ Record(ReceivedLine(p))
        /\ Answer200 /\ UNCHANGED row

Deliver(call) ==
    \/ TurnAway \/ Ignore(call) \/ Reject(call) \/ Duplicate(call) \/ Unknown(call)
    \/ AlreadyProcessed(call) \/ RollBack(call) \/ Complete(call) \/ CompletionRaises(call)
    \/ Fail(call) \/ StillPending(call)

-------------------------------------------------------------------------------
(* The other way a payment's status is learnt: refresh, for its customer or by *)
(* reconcile_payments                                                          *)

Refresh(p, reply) ==
    /\ Known(p) /\ row[p] \notin Processed
    /\ reply \in Asked(p)
    /\ Silence /\ UNCHANGED <<session, events, deployVars>>

RefreshCompletes(p) ==
    /\ Refresh(p, "completed")
    /\ \E outcome \in Outcomes(p) :
        /\ row' = [row EXCEPT ![p] = outcome[1]]
        /\ Record(outcome[2] \cup {Line(p, "payment_confirmed", "completed") :
                                      q \in {s \in {"completed"} : s = outcome[1]}})
RefreshFails(p) ==
    /\ Refresh(p, "failed")
    /\ row' = [row EXCEPT ![p] = "failed"]
    /\ Record({Line(p, "payment_failed", "failed")})
RefreshWaits(p) ==
    /\ Refresh(p, "processing")
    /\ row' = [row EXCEPT ![p] = "processing"]
    /\ UNCHANGED audit

-------------------------------------------------------------------------------
(* The mock's confirmation, by the payment's customer *)

\* No audit line is written but handle_payment_completed's.
confirm_payment(p) ==
    /\ Known(p) /\ row[p] \notin Processed
    /\ validate_provider_confirmation(mock_verification)
    /\ \E outcome \in Outcomes(p) :
        row' = [row EXCEPT ![p] = outcome[1]] /\ Record(outcome[2])

\* A 404 where the mock is not at work; a payment that is processed is answered for
\* and left alone.
MockConfirm(p) ==
    /\ server.provider = "mock" /\ mock_provider_is_allowed(server)
    /\ confirm_payment(p)
    /\ Silence /\ UNCHANGED <<session, events, deployVars>>

-------------------------------------------------------------------------------
(* The server *)

\* A database is a developer's or the shop's: the sessions in it are all the mock's or
\* none is.
SameDatabase ==
    \A p \in Payments :
        session[p] = "none" \/ (session[p] = "mock" <=> server'.provider = "mock")

\* The transactions under way are gone with the process.
RestartServer ==
    /\ Deploy /\ SameDatabase
    /\ row' = [p \in Payments |-> IF row[p] = "opened" THEN "absent" ELSE row[p]]
    /\ Silence /\ UNCHANGED <<session, events, audit>>

-------------------------------------------------------------------------------
(* Specification *)

CallbackInit ==
    /\ DeployInit
    /\ row = [p \in Payments |-> "absent"] /\ session = [p \in Payments |-> "none"]
    /\ events = {} /\ audit = {} /\ answer = "200"

CallbackNext ==
    \/ \E p \in Payments :
        \/ OpenSession(p) \/ CommitInitialize(p) \/ RollBackInitialize(p)
        \/ \E how \in Settlements : Settle(p, how)
        \/ RefreshCompletes(p) \/ RefreshFails(p) \/ RefreshWaits(p)
        \/ MockConfirm(p)
    \/ \E call \in IF server.provider = "mock" THEN MockCalls ELSE Calls :
        /\ call.key # None => session[call.key[2]] # "none"
        /\ Deliver(call)
    \/ RestartServer

CallbackSpec == CallbackInit /\ [][CallbackNext]_callbackVars

-------------------------------------------------------------------------------
(* What payment_health counts *)

amount_or_currency_mismatches ==
    Cardinality({l \in audit : /\ l.event_type = "webhook_rejected"
                               /\ l.says = "PaymentInvalidResponseError"})

-------------------------------------------------------------------------------
(* Properties *)

\* A call that is answered with an error, and so comes again, finds everything as
\* it was the first time: its event is not kept, so it is no duplicate then, and
\* what it did to the payment is undone.
RetriesAreHeard ==
    [][answer' = "error" => UNCHANGED <<row, events>>]_callbackVars

\* The events, the audit lines and the statuses tell one story: a payment's
\* status has the line that explains it, except that of a payment the mock
\* confirmed, an event that names a payment has its line and the other way round,
\* and a payment that was undone left none.
EvidenceIsKept ==
    \A p \in Payments :
        /\ Says(p, "webhook_received") # {} <=> \E e \in events : e.payment = p
        /\ Known(p) <=> Says(p, "initialization_succeeded") # {}
        /\ session[p] # "mock" =>
              (row[p] = "completed" <=>
                  \E l \in Says(p, "webhook_validated") \cup Says(p, "payment_confirmed") :
                      l.says = "completed" /\ Says(p, "duplicate_payment_detected") = {})
        /\ row[p] = "refund_required" <=> Says(p, "duplicate_payment_detected") # {}
        /\ row[p] = "failed" =>
              \E l \in Says(p, "webhook_validated") \cup Says(p, "payment_failed") : l.says = "failed"
        /\ ~Known(p) => \A l \in audit : l.payment # p

\* A server started after manage.py check accepted its environment hears the
\* provider: of all its settings only an allow-list makes it refuse a call, for the
\* address the call comes from. (That address is REMOTE_ADDR, a proxy's where one
\* stands in front; and the view's throttle is no part of authenticate.)
CheckedServersListen ==
    vetted /\ server.provider = "ligdicash" =>
        authenticate(server) \/ server.allowed = "elsewhere"

\* payment_health counts the calls rejected because of what the provider confirmed
\* (amount, currency or reference), as it says it does.
MismatchesAreCounted ==
    [][answer' = "rejected" => amount_or_currency_mismatches' > 0]_callbackVars
===============================================================================
