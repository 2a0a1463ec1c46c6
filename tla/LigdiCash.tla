------------------------------- MODULE LigdiCash -------------------------------
(***************************************************************************)
(* The LigdiCash adapter: what verify_payment reads out of a reply of the  *)
(* provider's confirm call, the check every confirmation goes through      *)
(* (validate_provider_confirmation) and what PaymentLifecycleService.      *)
(* refresh makes of the two.                                               *)
(*                                                                         *)
(* A reply is the fields the adapter reads, each reduced to how it compares *)
(* with the payment; "none" is a field that is not there.                  *)
(***************************************************************************)

Reply == [status: {"none", "pending", "notcompleted", "completed"},
          total_amount: {"none", "expected", "other", "unreadable"},
          devise: {"none", "XOF", "other"},
          external_id: {"none", "ours", "other"},
          transaction_id: BOOLEAN]    \* custom_data names one, of another form

Verification == [status: {"pending", "notcompleted", "completed"},
                 verified_amount: {"none", "expected", "other"},
                 verified_currency: {"XOF", "other"},
                 provider_reference: {"none", "ours", "other"}]

\* What stands in for a field that is missing: nothing when the payment is said
\* to be completed, the payment's own value otherwise.
OwnUnlessCompleted(status, own) == IF status = "completed" THEN "none" ELSE own

verify_payment(r) ==
    LET status == IF r.status = "none" THEN "pending" ELSE r.status
    IN  [status |-> status,
         verified_amount |->
            IF r.total_amount = "none" THEN OwnUnlessCompleted(status, "expected")
                                       ELSE r.total_amount,
         verified_currency |-> IF r.devise = "none" THEN "XOF" ELSE r.devise,
         provider_reference |->
            IF r.external_id # "none" THEN r.external_id
            ELSE IF r.transaction_id THEN "other" ELSE OwnUnlessCompleted(status, "ours")]

\* Defect: the amount is not compared.
confirmation_without_amount(v) ==
    /\ v.status = "completed"
    /\ v.verified_amount # "none"
    /\ v.verified_currency = "XOF"
    /\ v.provider_reference = "ours"
validate_provider_confirmation(v) ==
    /\ v.status = "completed"
    /\ v.verified_amount = "expected"
    /\ v.verified_currency = "XOF"
    /\ v.provider_reference = "ours"

\* What refresh does with a reply: "raises" also stands for a provider that
\* could not be reached or answered something that is not a JSON object.
Verdict(r) ==
    LET v == verify_payment(r)
    IN  IF r.total_amount = "unreadable" THEN "raises"
        ELSE IF v.status = "completed"
             THEN IF validate_provider_confirmation(v) THEN "completed" ELSE "raises"
             ELSE IF v.status = "notcompleted" THEN "failed" ELSE "processing"

-------------------------------------------------------------------------------
(* The provider: what it replies follows from what the customer did there *)

\* "captured" is the expected number for this payment, in the expected currency or in
\* another that a reply may leave out: verify_payment reads XOF then, so to the shop the
\* two are one. Every other capture is "captured_other".
Settlements == {"open", "refused", "captured", "captured_other"}
Captured == {"captured", "captured_other"}

Mismatch(r) == r.total_amount = "other" \/ r.external_id = "other" \/ r.devise = "other"

\* A field may be missing. A capture of another amount or for another payment, or in a
\* currency that every reply names, says so in one of them.
RepliesOf(settlement) ==
    {r \in Reply :
        /\ r.status \in CASE settlement = "open"    -> {"none", "pending"}
                          [] settlement = "refused" -> {"notcompleted"}
                          [] OTHER                  -> {"completed"}
        /\ CASE settlement = "captured"       -> ~Mismatch([r EXCEPT !.devise = "none"])
             [] settlement = "captured_other" -> Mismatch(r)
             [] OTHER                         -> ~Mismatch(r)}

Verdicts == [s \in Settlements |-> {Verdict(r) : r \in RepliesOf(s)} \cup {"raises"}]
===============================================================================
