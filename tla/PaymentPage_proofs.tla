-------------------------- MODULE PaymentPage_proofs ---------------------------
(***************************************************************************)
(* Proofs about PaymentPage and the replies of LigdiCash, for any number   *)
(* of payments, tabs and automatic polls.                                  *)
(*                                                                         *)
(* ReturnInv rests on three facts.  A reply the adapter takes for a        *)
(* confirmation comes from a capture that fits (OnlyCaptures), so a row is *)
(* completed only then and stays so.  A request that brings "completed" is *)
(* about a completed row, however late it arrives.  And as long as no      *)
(* payment was started while another was watched, everything watched or    *)
(* stored is one payment (Together): that is why a success about one       *)
(* payment cannot remove the way back to another, and a late answer cannot *)
(* put another payment under a success.                                    *)
(***************************************************************************)
EXTENDS PaymentPage, TLAPS

Settled(p) == row[p].status = "completed"
Known(p) == row[p].status # "absent"
\* No step takes back a row or its completion.
Stays(p) == (Settled(p) => Settled(p)') /\ (Known(p) => Known(p)')

\* A request is none, or about a payment that exists, and says "completed" of
\* such a row.
Honest(r) ==
    \/ r = Nothing
    \/ /\ r.payment \in Payments /\ Known(r.payment) /\ r.answer \notin {"none", "absent"}
       /\ r.answer = "completed" => Settled(r.payment)

\* What a tab keeps of its own.
Sound(s) ==
    /\ s \in Tab
    /\ s.timer => s.poll = Nothing /\ s.attempt < MAX_ATTEMPTS - 1 /\ s.watched \in Payments
    /\ s.page # "return" =>
          s.poll = Nothing /\ s.retry = Nothing /\ ~s.timer /\ s.phase # "success"
    /\ Honest(s.poll) /\ Honest(s.retry) /\ Honest(s.stray)
    /\ s.poll # Nothing => s.poll.payment = s.watched
    /\ s.watched # None => Known(s.watched)

\* What a success is about.
Announced(s) ==
    s.phase = "success" /\ ~crossed
        => /\ s.shown \in Payments /\ Settled(s.shown)
           /\ s.watched # None => s.shown = s.watched

\* A payment a tab watches or will hear of, and one the customer can come back to.
Watches(s, q) ==
    q \in {s.retry.payment, s.stray.payment} \/ (s.page = "return" /\ s.watched = q)
Live(q) == q = entry \/ \E t \in Tabs : Watches(tab[t], q)

Kinds ==
    /\ entry \in Payments \cup {None}
    /\ tab \in [Tabs -> Tab] /\ row \in [Payments -> Row]
    /\ provider \in [Payments -> Settlements] /\ crossed \in BOOLEAN

CapturesFit == \A p \in Payments : Settled(p) => provider[p] = "captured"

Together == ~crossed => \A p, q \in Payments : Live(p) /\ Live(q) => p = q

ReturnInv ==
    /\ Kinds /\ CapturesFit /\ Together
    /\ entry # None => Known(entry)
    /\ \A t \in Tabs : Sound(tab[t]) /\ Announced(tab[t])

-------------------------------------------------------------------------------
(* Replies and rows *)

\* A reply that passes as a confirmation comes from a capture that fits.
LEMMA OnlyCaptures ==
    ASSUME NEW s \in Settlements, "completed" \in Verdicts[s]
    PROVE  s = "captured"
<1>1. PICK r \in RepliesOf(s) : Verdict(r) = "completed"
  BY DEF Verdicts
<1>2. r \in Reply /\ validate_provider_confirmation(verify_payment(r))
  BY <1>1 DEF Verdict, RepliesOf
<1>3. /\ verify_payment(r).status = IF r.status = "none" THEN "pending" ELSE r.status
      /\ verify_payment(r).verified_amount =
            IF r.total_amount = "none"
            THEN OwnUnlessCompleted(verify_payment(r).status, "expected") ELSE r.total_amount
      /\ verify_payment(r).verified_currency = IF r.devise = "none" THEN "XOF" ELSE r.devise
      /\ verify_payment(r).provider_reference =
            IF r.external_id # "none" THEN r.external_id
            ELSE IF r.transaction_id THEN "other"
                 ELSE OwnUnlessCompleted(verify_payment(r).status, "ours")
  BY DEF verify_payment
<1>4. r.status = "completed"
  BY <1>2, <1>3 DEF validate_provider_confirmation
<1>5. ~Mismatch(r)
  BY <1>2, <1>3 DEF validate_provider_confirmation, Mismatch
<1>6. /\ r.status \in CASE s = "open"    -> {"none", "pending"}
                        [] s = "refused" -> {"notcompleted"}
                        [] OTHER         -> {"completed"}
      /\ s = "captured_other" => Mismatch(r)
  BY DEF RepliesOf
<1>7. s # "open" /\ s # "refused"
  BY <1>4, <1>6
<1>. QED  BY <1>5, <1>6, <1>7 DEF Settlements

\* What a refresh leaves of a row: it never unsettles it, and settles it only
\* for a capture that fits.
LEMMA RefreshedRows ==
    ASSUME Kinds, NEW p \in Payments, NEW r \in Refreshed(p)
    PROVE  /\ r \in Row
           /\ Settled(p) => r.status = "completed"
           /\ Known(p) => r.status # "absent"
           /\ r.status = "completed" => Settled(p) \/ provider[p] = "captured"
<1>1. row[p] \in Row /\ provider[p] \in Settlements
  BY DEF Kinds
<1>2. CASE row[p].status \in {"completed", "refund_required"}
  BY <1>1, <1>2 DEF Refreshed, Settled, Known
<1>3. CASE row[p].status \notin {"completed", "refund_required"}
  <2>1. PICK v \in Verdicts[provider[p]] :
            r \in CASE v = "completed"  -> Confirmed(row[p])
                    [] v = "failed"     -> {[row[p] EXCEPT !.status = "failed"]}
                    [] v = "processing" -> {[row[p] EXCEPT !.status = "processing"]}
                    [] OTHER            -> {}
    BY <1>3 DEF Refreshed
  <2>2. CASE v = "completed"
    <3>1. provider[p] = "captured"
      BY <1>1, <2>1, <2>2, OnlyCaptures
    <3>2. r \in Confirmed(row[p])
      BY <2>1, <2>2
    <3>3. \E o \in {"paid", "refund_required"} : r = [status |-> "completed", order |-> o]
      BY <3>2 DEF Confirmed
    <3>4. r \in Row /\ r.status = "completed"
      BY <3>3 DEF Row, PayStatus, FINAL, OrderStatus
    <3>. QED  BY <3>1, <3>4
  <2>3. CASE v \in {"failed", "processing"}
    <3>1. \E st \in {"failed", "processing"} : r = [row[p] EXCEPT !.status = st]
      BY <2>1, <2>3
    <3>. QED  BY <1>1, <1>3, <3>1 DEF Row, PayStatus, FINAL, Settled
  <2>4. CASE v \notin {"completed", "failed", "processing"}
    BY <2>1, <2>4
  <2>. QED  BY <2>2, <2>3, <2>4
<1>. QED  BY <1>2, <1>3

\* Rows after a step that refreshes one of them.
LEMMA RowsAgain ==
    ASSUME ReturnInv, NEW p \in Payments, NEW r,
           r \in Refreshed(p) \/ r = row[p],
           row' = [row EXCEPT ![p] = r], provider' = provider
    PROVE  /\ r \in Row /\ row' \in [Payments -> Row] /\ row'[p] = r
           /\ CapturesFit'
           /\ \A q \in Payments : Stays(q)
<1>1. Kinds /\ CapturesFit
  BY DEF ReturnInv
<1>2. /\ r \in Row
      /\ Settled(p) => r.status = "completed"
      /\ Known(p) => r.status # "absent"
      /\ r.status = "completed" => Settled(p) \/ provider[p] = "captured"
  <2>1. CASE r \in Refreshed(p)
    BY <1>1, <2>1, RefreshedRows
  <2>2. CASE r = row[p]
    BY <1>1, <2>2 DEF Kinds, Settled, Known
  <2>. QED  BY <2>1, <2>2
<1>3. row' \in [Payments -> Row] /\ row'[p] = r /\ \A q \in Payments : q # p => row'[q] = row[q]
  BY <1>1, <1>2 DEF Kinds
<1>. QED  BY <1>1, <1>2, <1>3 DEF CapturesFit, Settled, Known, Stays
-------------------------------------------------------------------------------
(* Tabs *)

\* Settled rows stay so, and with them what requests and pages say of them.
LEMMA StillTrue ==
    ASSUME \A q \in Payments : Stays(q), Kinds
    PROVE  /\ \A r : Honest(r) => Honest(r)'
           /\ \A s : Sound(s) => Sound(s)'
           /\ \A s : Announced(s) /\ (crossed => crossed') => Announced(s)'
<1>1. \A r : Honest(r) => Honest(r)'
  BY DEF Honest, Stays
<1>2. \A s : Sound(s) => Sound(s)'
  BY <1>1 DEF Sound, Stays, Tab
<1>. QED  BY <1>1, <1>2 DEF Announced, Stays

\* A step of one tab keeps ReturnInv if what the tab becomes is sound and the
\* step adds no payment to what is watched or stored.
LEMMA OneTab ==
    ASSUME ReturnInv, NEW t \in Tabs, NEW s,
           tab' = [tab EXCEPT ![t] = s],
           entry' \in {entry, None}, provider' = provider, crossed' = crossed,
           row' \in [Payments -> Row], CapturesFit',
           \A q \in Payments : Stays(q),
           Sound(s)', Announced(s)',
           \A q \in Payments : Watches(s, q) => Live(q)
    PROVE  ReturnInv'
<1>1. /\ Kinds /\ Together
      /\ \A u \in Tabs : Sound(tab[u]) /\ Announced(tab[u])
  BY DEF ReturnInv
<1>2. s \in Tab
  BY DEF Sound
<1>3. /\ tab' \in [Tabs -> Tab] /\ tab'[t] = s
      /\ \A u \in Tabs : u # t => tab'[u] = tab[u]
  BY <1>1, <1>2 DEF Kinds
<1>4. Kinds'
  BY <1>1, <1>3 DEF Kinds
<1>5. \A u \in Tabs : (Sound(tab[u]) /\ Announced(tab[u]))'
  <2> SUFFICES ASSUME NEW u \in Tabs PROVE (Sound(tab[u]) /\ Announced(tab[u]))'
    OBVIOUS
  <2>1. PICK v : v = tab'[u]
    OBVIOUS
  <2>2. Sound(v)' /\ Announced(v)'
    BY <1>1, <1>3, <2>1, StillTrue
  <2>. QED  BY <2>1, <2>2 DEF Sound, Announced, Honest, Settled, Known
<1>6. \A q \in Payments : Live(q)' => Live(q)
  BY <1>3, PaymentPageAssumption DEF Live, Watches, PaymentPageAssumption
<1>7. Together'
  BY <1>1, <1>6 DEF Together
<1>8. (entry # None => Known(entry))'
  <2>1. entry # None => Known(entry)
    BY DEF ReturnInv
  <2>. QED  BY <1>1, <2>1 DEF Known, Stays, Kinds
<1>. QED  BY <1>4, <1>5, <1>7, <1>8 DEF ReturnInv
\* The same for a step that leaves the rows alone.
LEMMA OneQuietTab ==
    ASSUME ReturnInv, NEW t \in Tabs, NEW s,
           tab' = [tab EXCEPT ![t] = s],
           entry' \in {entry, None}, UNCHANGED <<row, provider, crossed>>,
           Sound(s), Announced(s),
           \A q \in Payments : Watches(s, q) => Live(q)
    PROVE  ReturnInv'
<1>1. row' \in [Payments -> Row] /\ CapturesFit' /\ \A q \in Payments : Stays(q)
  BY DEF ReturnInv, Kinds, CapturesFit, Settled, Known, Stays
<1>2. Sound(s)' /\ Announced(s)'
  BY <1>1, StillTrue DEF ReturnInv
<1>. QED  BY <1>1, <1>2, OneTab

\* The columns of a tab, and what is not a request.
LEMMA TabOf ==
    ASSUME ReturnInv, NEW t \in Tabs
    PROVE  /\ tab[t] \in Tab /\ Sound(tab[t]) /\ Announced(tab[t])
           /\ tab[t].poll \in Request /\ tab[t].retry \in Request /\ tab[t].stray \in Request
           /\ \A q \in Payments : Watches(tab[t], q) => Live(q)
  BY DEF ReturnInv, Kinds, Tab, Live

LEMMA NoRequest ==
    /\ Nothing \in Request /\ Honest(Nothing)
    /\ Nothing.payment = None /\ Nothing.answer = "none" /\ ~Nothing.paid
    /\ None \notin Payments
  BY PaymentPageAssumption DEF Nothing, Request, Honest, PaymentPageAssumption

LEMMA Sent ==
    ASSUME NEW p \in Payments, Known(p)
    PROVE  /\ Send(p) \in Request /\ Honest(Send(p)) /\ Send(p) # Nothing
           /\ Send(p).payment = p /\ Send(p).answer = "sent"
  BY PaymentPageAssumption DEF Send, Nothing, Request, Honest, PaymentPageAssumption, Settled

\* A tab that is neither asked anything nor shows a success.
LEMMA Fresh ==
    /\ NewTab \in Tab /\ Sound(NewTab) /\ Announced(NewTab)
    /\ NewTab.page = "shop" /\ NewTab.retry = Nothing /\ NewTab.stray = Nothing
  BY NoRequest, PaymentPageAssumption
     DEF NewTab, Tab, Sound, Announced, PaymentPageAssumption, FINAL, Known

-------------------------------------------------------------------------------
(* The steps of a page *)

\* The tab asks: by the timer, or when a return page is opened on an entry.
LEMMA Asking ==
    ASSUME NEW s \in Tab, NEW attempt \in 0 .. MAX_ATTEMPTS - 1,
           Honest(s.retry), Honest(s.stray), s.watched \in Payments, Known(s.watched), s.page = "return",
           Announced(s)
    PROVE  /\ Sound(Verify(s, attempt)) /\ Announced(Verify(s, attempt))
           /\ Verify(s, attempt).retry = s.retry /\ Verify(s, attempt).stray = s.stray
           /\ Verify(s, attempt).page = "return" /\ Verify(s, attempt).watched = s.watched
<1>1. PICK v : v = Verify(s, attempt)
  OBVIOUS
<1>2. PICK request : request = IF s.hidden THEN Nothing ELSE Send(s.watched)
  OBVIOUS
<1>3. /\ request \in Request /\ Honest(request)
      /\ request # Nothing => request.payment = s.watched
  BY <1>2, NoRequest, Sent
<1>4. v = [s EXCEPT !.attempt = attempt, !.timer = FALSE, !.poll = request]
  BY <1>1, <1>2 DEF Verify
<1>5. /\ v \in Tab /\ v.poll = request /\ ~v.timer /\ v.retry = s.retry /\ v.stray = s.stray
      /\ v.page = "return" /\ v.watched = s.watched /\ v.phase = s.phase /\ v.shown = s.shown
  BY <1>3, <1>4 DEF Tab
<1>6. Sound(v) /\ Announced(v)
  BY <1>3, <1>5 DEF Sound, Announced
<1>. QED  BY <1>1, <1>5, <1>6

LEMMA TimerStep ==
    ASSUME ReturnInv, NEW t \in Tabs, TimerFires(t)
    PROVE  ReturnInv'
<1>1. /\ tab[t] \in Tab /\ Sound(tab[t]) /\ Announced(tab[t])
      /\ \A q \in Payments : Watches(tab[t], q) => Live(q)
  BY TabOf
<1>2. tab[t].timer /\ tab[t].page = "return" /\ tab[t].watched \in Payments
  BY <1>1 DEF TimerFires, Sound
<1>8. Known(tab[t].watched)
  BY <1>1, <1>2, NoRequest DEF Sound
<1>3. tab[t].attempt + 1 \in 0 .. MAX_ATTEMPTS - 1
  BY <1>1, <1>2, PaymentPageAssumption DEF Sound, Tab, PaymentPageAssumption
<1>4. PICK s : s = Verify(tab[t], tab[t].attempt + 1)
  OBVIOUS
<1>5. /\ Sound(s) /\ Announced(s) /\ s.retry = tab[t].retry /\ s.stray = tab[t].stray
      /\ s.page = "return" /\ s.watched = tab[t].watched
  BY <1>1, <1>8, <1>2, <1>3, <1>4, Asking DEF Sound
<1>6. \A q \in Payments : Watches(s, q) => Live(q)
  BY <1>1, <1>2, <1>5 DEF Watches
<1>7. /\ tab' = [tab EXCEPT ![t] = s] /\ entry' \in {entry, None}
      /\ UNCHANGED <<row, provider, crossed>>
  BY <1>4 DEF TimerFires
<1>. QED  BY <1>5, <1>6, <1>7, OneQuietTab

LEMMA OpenStep ==
    ASSUME ReturnInv, NEW t \in Tabs, Open(t)
    PROVE  ReturnInv'
<1>1. /\ tab[t] \in Tab /\ Sound(tab[t]) /\ entry \in Payments \cup {None}
      /\ entry # None => Known(entry)
      /\ \A q \in Payments : Watches(tab[t], q) => Live(q)
  BY TabOf DEF ReturnInv, Kinds
<1>2. /\ tab[t].page # "return" /\ tab[t].poll = Nothing /\ ~tab[t].timer
      /\ tab[t].phase # "success" /\ MAX_ATTEMPTS \in Nat \ {0}
  BY <1>1, PaymentPageAssumption DEF Open, Sound, PaymentPageAssumption
<1>3. PICK s : s = [tab[t] EXCEPT !.page = "return", !.watched = entry, !.attempt = 0]
  OBVIOUS
<1>4. /\ s \in Tab /\ s.page = "return" /\ s.watched = entry /\ s.phase # "success"
      /\ s.retry = tab[t].retry /\ s.stray = tab[t].stray /\ s.poll = Nothing /\ ~s.timer
  <2>1. PICK r, e : r = tab[t] /\ e = entry
    OBVIOUS
  <2>2. s = [r EXCEPT !.page = "return", !.watched = e, !.attempt = 0]
    BY <1>3, <2>1
  <2>3. r \in Tab /\ e \in Payments \cup {None} /\ 0 \in 0 .. MAX_ATTEMPTS - 1
    BY <1>1, <1>2, <2>1
  <2>4. s \in Tab
    BY <2>2, <2>3 DEF Tab
  <2>5. /\ s.page = "return" /\ s.watched = e /\ s.phase = r.phase /\ s.poll = r.poll
        /\ s.retry = r.retry /\ s.stray = r.stray /\ s.timer = r.timer
    BY <2>2, <2>3 DEF Tab
  <2>. QED  BY <1>2, <2>1, <2>4, <2>5
<1>5. PICK v : v = IF entry = None THEN [s EXCEPT !.phase = "unknown"]
                   ELSE Verify([s EXCEPT !.phase = "verifying"], 0)
  OBVIOUS
<1>6. /\ Sound(v) /\ Announced(v) /\ v.retry = s.retry /\ v.stray = s.stray
      /\ v.page = "return" /\ v.watched = entry
  <2>1. PICK w : \E f \in {"unknown", "verifying"} :
                    /\ w = [s EXCEPT !.phase = f]
                    /\ v = IF entry = None THEN w ELSE Verify(w, 0)
    BY <1>5
  <2>2. /\ w \in Tab /\ w.page = "return" /\ w.watched = entry /\ w.phase # "success"
        /\ w.retry = s.retry /\ w.stray = s.stray /\ w.poll = Nothing /\ ~w.timer
    BY <1>4, <2>1 DEF Tab
  <2>3. Announced(w) /\ Honest(w.retry) /\ Honest(w.stray)
    BY <1>1, <1>4, <2>2 DEF Announced, Sound
  <2>4. CASE entry = None
    BY <2>1, <2>2, <2>3, <2>4, NoRequest DEF Sound
  <2>5. CASE entry # None
    <3>1. v = Verify(w, 0) /\ 0 \in 0 .. MAX_ATTEMPTS - 1 /\ w.watched \in Payments
          /\ Known(w.watched)
      BY <1>1, <1>2, <2>1, <2>2, <2>5
    <3>. QED  BY <2>2, <2>3, <3>1, Asking
  <2>. QED  BY <2>4, <2>5
<1>7. \A q \in Payments : Watches(v, q) => Live(q)
  BY <1>1, <1>4, <1>6 DEF Watches, Live
<1>8. /\ tab' = [tab EXCEPT ![t] = v] /\ entry' \in {entry, None}
      /\ UNCHANGED <<row, provider, crossed>>
  BY <1>3, <1>5 DEF Open
<1>. QED  BY <1>6, <1>7, <1>8, OneQuietTab
\* The tab is hidden or shown again, or leaves the checkout or comes back to it.
LEMMA MovingSteps ==
    ASSUME ReturnInv, NEW t \in Tabs, Hide(t) \/ Redirect(t)
    PROVE  ReturnInv'
<1>1. PICK r : r = tab[t]
  OBVIOUS
<1>2. /\ r \in Tab /\ Sound(r) /\ Announced(r)
      /\ \A q \in Payments : Watches(r, q) => Live(q)
  BY <1>1, TabOf
<1>3. PICK s : /\ tab' = [tab EXCEPT ![t] = s]
               /\ \/ s = [r EXCEPT !.hidden = ~r.hidden]
                  \/ \E page \in {"shop", "provider"} :
                        r.page = "leaving" /\ s = [r EXCEPT !.page = page]
  BY <1>1 DEF Hide, Redirect
<1>4. CASE s = [r EXCEPT !.hidden = ~r.hidden]
  <2>1. /\ s \in Tab /\ s.page = r.page /\ s.phase = r.phase /\ s.poll = r.poll
        /\ s.retry = r.retry /\ s.stray = r.stray /\ s.timer = r.timer
        /\ s.watched = r.watched /\ s.shown = r.shown /\ s.attempt = r.attempt
    BY <1>2, <1>4 DEF Tab
  <2>2. Sound(s) /\ Announced(s) /\ \A q \in Payments : Watches(s, q) => Live(q)
    BY <1>2, <2>1 DEF Sound, Announced, Watches
  <2>. QED  BY <1>3, <2>2, OneQuietTab DEF Hide, Redirect
<1>5. CASE \E page \in {"shop", "provider"} : r.page = "leaving" /\ s = [r EXCEPT !.page = page]
  <2>1. /\ s \in Tab /\ s.page # "return" /\ r.page # "return" /\ s.phase = r.phase
        /\ s.poll = r.poll /\ s.retry = r.retry /\ s.stray = r.stray /\ s.timer = r.timer
        /\ s.watched = r.watched /\ s.shown = r.shown /\ s.attempt = r.attempt
    BY <1>2, <1>5 DEF Tab
  <2>2. Sound(s) /\ Announced(s) /\ \A q \in Payments : Watches(s, q) => Live(q)
    BY <1>2, <2>1 DEF Sound, Announced, Watches
  <2>. QED  BY <1>3, <2>2, OneQuietTab DEF Hide, Redirect
<1>. QED  BY <1>3, <1>4, <1>5

\* The page is left; of its check by hand what can still tell is kept.
LEMMA LeaveStep ==
    ASSUME ReturnInv, NEW t \in Tabs, Leave(t)
    PROVE  ReturnInv'
<1>1. PICK r : r = tab[t]
  OBVIOUS
<1>2. /\ r \in Tab /\ Sound(r) /\ r.retry \in Request
      /\ \A q \in Payments : Watches(r, q) => Live(q)
  BY <1>1, TabOf
<1>3. PICK kept : kept = Stray(r.retry)
  OBVIOUS
<1>4. kept \in {r.retry, Nothing}
  BY <1>3 DEF Stray
<1>5. kept \in Request /\ Honest(kept)
  BY <1>2, <1>4, NoRequest DEF Sound
<1>6. PICK s : s = [NewTab EXCEPT !.stray = kept]
  OBVIOUS
<1>7. /\ s \in Tab /\ s.stray = kept /\ s.page = "shop" /\ s.phase = "none" /\ ~s.timer
      /\ s.poll = Nothing /\ s.retry = Nothing /\ s.watched = None
  BY <1>5, <1>6, Fresh DEF NewTab, Tab
<1>8. Sound(s) /\ Announced(s)
  BY <1>5, <1>7, NoRequest DEF Sound, Announced
<1>9. \A q \in Payments : Watches(s, q) => Live(q)
  BY <1>2, <1>4, <1>7, NoRequest DEF Watches
<1>10. /\ tab' = [tab EXCEPT ![t] = s] /\ entry' \in {entry, None}
       /\ UNCHANGED <<row, provider, crossed>>
  BY <1>1, <1>3, <1>6 DEF Leave
<1>. QED  BY <1>8, <1>9, <1>10, OneQuietTab

\* The customer asks by hand, for the payment stored now.
LEMMA RetryStep ==
    ASSUME ReturnInv, NEW t \in Tabs, Retry(t)
    PROVE  ReturnInv'
<1>1. PICK r, e : r = tab[t] /\ e = entry
  OBVIOUS
<1>2. /\ r \in Tab /\ Sound(r)
      /\ \A q \in Payments : Watches(r, q) => Live(q)
  BY <1>1, TabOf
<1>3. e \in Payments /\ r.page = "return" /\ Known(e)
  BY <1>1 DEF ReturnInv, Kinds, Retry
<1>4. PICK request : request = Send(e)
  OBVIOUS
<1>5. request \in Request /\ Honest(request) /\ request.payment = e
  BY <1>3, <1>4, Sent
<1>6. PICK s : s = [r EXCEPT !.phase = "verifying", !.retry = request]
  OBVIOUS
<1>7. /\ s \in Tab /\ s.retry = request /\ s.page = r.page /\ s.phase = "verifying"
      /\ s.poll = r.poll /\ s.stray = r.stray /\ s.timer = r.timer
      /\ s.watched = r.watched /\ s.attempt = r.attempt
  BY <1>2, <1>5, <1>6 DEF Tab
<1>8. Sound(s) /\ Announced(s)
  BY <1>2, <1>3, <1>5, <1>7 DEF Sound, Announced
<1>9. \A q \in Payments : Watches(s, q) => Live(q)
  BY <1>1, <1>2, <1>5, <1>7 DEF Watches, Live
<1>10. /\ tab' = [tab EXCEPT ![t] = s] /\ entry' \in {entry, None}
       /\ UNCHANGED <<row, provider, crossed>>
  BY <1>1, <1>4, <1>6 DEF Retry
<1>. QED  BY <1>8, <1>9, <1>10, OneQuietTab

\* A request fails, or the answer of one is taken: nothing more is asked by it.
LEMMA FailingSteps ==
    ASSUME ReturnInv, NEW t \in Tabs, PollFails(t) \/ RetryFails(t) \/ StrayFails(t)
    PROVE  ReturnInv'
<1>1. PICK r : r = tab[t]
  OBVIOUS
<1>2. /\ r \in Tab /\ Sound(r) /\ Announced(r)
      /\ \A q \in Payments : Watches(r, q) => Live(q)
  BY <1>1, TabOf
<1>3. PICK s : /\ tab' = [tab EXCEPT ![t] = s]
               /\ \/ s = [r EXCEPT !.poll = Nothing, !.phase = "network"]
                  \/ s = [r EXCEPT !.retry = Nothing, !.phase = "network"]
                  \/ s = [r EXCEPT !.stray = Nothing]
  <2>1. CASE PollFails(t)
    <3>1. tab' = [tab EXCEPT ![t] = [r EXCEPT !.poll = Nothing, !.phase = "network"]]
      BY <1>1, <2>1 DEF PollFails
    <3>. QED  BY <3>1
  <2>2. CASE RetryFails(t)
    <3>1. tab' = [tab EXCEPT ![t] = [r EXCEPT !.retry = Nothing, !.phase = "network"]]
      BY <1>1, <2>2 DEF RetryFails
    <3>. QED  BY <3>1
  <2>3. CASE StrayFails(t)
    <3>1. tab' = [tab EXCEPT ![t] = [r EXCEPT !.stray = Nothing]]
      BY <1>1, <2>3 DEF StrayFails
    <3>. QED  BY <3>1
  <2>. QED  BY <2>1, <2>2, <2>3
<1>4. /\ s \in Tab /\ s.page = r.page /\ s.timer = r.timer /\ s.phase \in {r.phase, "network"}
      /\ s.poll \in {r.poll, Nothing} /\ s.retry \in {r.retry, Nothing}
      /\ s.stray \in {r.stray, Nothing}
      /\ s.watched = r.watched /\ s.shown = r.shown /\ s.attempt = r.attempt
  BY <1>2, <1>3, NoRequest DEF Tab
<1>5. Sound(s) /\ Announced(s) /\ \A q \in Payments : Watches(s, q) => Live(q)
  BY <1>2, <1>4, NoRequest DEF Sound, Announced, Watches
<1>. QED  BY <1>3, <1>5, OneQuietTab DEF PollFails, RetryFails, StrayFails
\* The answer to the page's own request, however late.
LEMMA PollArrivesStep ==
    ASSUME ReturnInv, NEW t \in Tabs, PollArrives(t)
    PROVE  ReturnInv'
<1>1. PICK r, request : r = tab[t] /\ request = r.poll
  OBVIOUS
<1>2. /\ r \in Tab /\ Sound(r) /\ Announced(r) /\ request \in Request
      /\ \A q \in Payments : Watches(r, q) => Live(q)
  BY <1>1, TabOf
<1>3. request.answer \in PayStatus
  BY <1>1 DEF PollArrives
<1>4. request # Nothing
  BY <1>3, NoRequest DEF PayStatus, FINAL
<1>5. /\ request.payment \in Payments /\ request.payment = r.watched
      /\ request.answer = "completed" => Settled(request.payment)
      /\ r.page = "return" /\ ~r.timer /\ r.poll = request
      /\ request.answer \in PayStatus \ {"absent"}
  BY <1>1, <1>2, <1>3, <1>4 DEF Sound, Honest
<1>6. PICK s : s = [r EXCEPT !.poll = Nothing, !.shown = request.payment]
  OBVIOUS
<1>7. /\ s \in Tab /\ s.poll = Nothing /\ s.shown = request.payment /\ s.page = "return"
      /\ ~s.timer /\ s.retry = r.retry /\ s.stray = r.stray /\ s.phase = r.phase
      /\ s.watched = r.watched /\ s.attempt = r.attempt
  BY <1>2, <1>5, <1>6, NoRequest DEF Tab
<1>8. /\ UNCHANGED <<row, provider, crossed>>
      /\ \/ Success(request) /\ tab' = [tab EXCEPT ![t] = [s EXCEPT !.phase = "success"]]
                             /\ entry' = None
         \/ ~Success(request) /\ tab' = [tab EXCEPT ![t] = [s EXCEPT !.phase = request.answer]]
                              /\ entry' = entry
         \/ /\ tab' = [tab EXCEPT ![t] =
                  IF s.attempt = MAX_ATTEMPTS - 1 THEN [s EXCEPT !.phase = "pending"]
                                                  ELSE [s EXCEPT !.timer = TRUE]]
            /\ entry' = entry
  BY <1>1, <1>6 DEF PollArrives
<1>9. PICK w : /\ tab' = [tab EXCEPT ![t] = w]
               /\ \/ Success(request) /\ w = [s EXCEPT !.phase = "success"]
                  \/ w = [s EXCEPT !.phase = request.answer]
                  \/ w = [s EXCEPT !.phase = "pending"]
                  \/ s.attempt # MAX_ATTEMPTS - 1 /\ w = [s EXCEPT !.timer = TRUE]
  BY <1>8
<1>10. /\ w \in Tab /\ w.poll = s.poll /\ w.shown = s.shown /\ w.page = s.page
       /\ w.retry = s.retry /\ w.stray = s.stray /\ w.watched = s.watched
       /\ w.attempt = s.attempt
       /\ w.timer => s.attempt # MAX_ATTEMPTS - 1
       /\ w.phase = "success" => Success(request) \/ r.phase = "success"
  <2>1. request.answer # "success"
    BY <1>3 DEF PayStatus, FINAL
  <2>2. CASE \E g \in {"success", "pending"} \cup (PayStatus \ {"absent"}) :
                /\ w = [s EXCEPT !.phase = g]
                /\ g = "success" => Success(request)
    <3>1. PICK g \in {"success", "pending"} \cup (PayStatus \ {"absent"}) :
                /\ w = [s EXCEPT !.phase = g]
                /\ g = "success" => Success(request)
      BY <2>2
    <3>2. w \in Tab
      BY <1>7, <3>1 DEF Tab, PayStatus
    <3>3. /\ w.poll = s.poll /\ w.shown = s.shown /\ w.page = s.page /\ w.phase = g
          /\ w.retry = s.retry /\ w.stray = s.stray /\ w.watched = s.watched
          /\ w.attempt = s.attempt /\ w.timer = s.timer
      BY <1>7, <3>1 DEF Tab
    <3>. QED  BY <1>7, <3>1, <3>2, <3>3
  <2>3. CASE s.attempt # MAX_ATTEMPTS - 1 /\ w = [s EXCEPT !.timer = TRUE]
    BY <1>7, <2>3 DEF Tab
  <2>. QED  BY <1>5, <1>9, <2>1, <2>2, <2>3
<1>11. Sound(w)
  <2>1. w.attempt \in 0 .. MAX_ATTEMPTS - 1
    BY <1>10 DEF Tab
  <2>2. w.timer => w.attempt < MAX_ATTEMPTS - 1
    BY <1>10, <2>1, PaymentPageAssumption DEF PaymentPageAssumption
  <2>. QED  BY <1>2, <1>5, <1>7, <1>10, <2>2, NoRequest DEF Sound
<1>12. Announced(w)
  <2> SUFFICES ASSUME w.phase = "success", ~crossed
               PROVE  w.shown \in Payments /\ Settled(w.shown) /\ w.shown = w.watched
    BY DEF Announced
  <2>1. CASE Success(request)
    BY <1>5, <1>7, <1>10, <2>1 DEF Success
  <2>2. CASE r.phase = "success"
    BY <1>2, <1>5, <1>7, <1>10, <2>2, NoRequest DEF Announced
  <2>. QED  BY <1>10, <2>1, <2>2
<1>13. \A q \in Payments : Watches(w, q) => Live(q)
  BY <1>2, <1>5, <1>7, <1>10 DEF Watches
<1>14. entry' \in {entry, None}
  BY <1>8
<1>. QED  BY <1>8, <1>9, <1>11, <1>12, <1>13, <1>14, OneQuietTab

\* The answer to the check by hand, of a page that is still there or was left.
LEMMA CheckArrivesStep ==
    ASSUME ReturnInv, NEW t \in Tabs, RetryArrives(t) \/ StrayArrives(t)
    PROVE  ReturnInv'
<1>1. PICK r : r = tab[t]
  OBVIOUS
<1>2. /\ r \in Tab /\ Sound(r) /\ Announced(r) /\ r.retry \in Request /\ r.stray \in Request
      /\ \A q \in Payments : Watches(r, q) => Live(q)
  BY <1>1, TabOf
<1>3. CASE RetryArrives(t)
  <2>1. PICK request : request = r.retry
    OBVIOUS
  <2>2. request.answer \in PayStatus /\ request # Nothing
    BY <1>1, <1>3, <2>1, NoRequest DEF RetryArrives, PayStatus, FINAL
  <2>3. /\ request.payment \in Payments /\ request.answer # "absent"
        /\ request.answer = "completed" => Settled(request.payment)
    BY <1>2, <2>1, <2>2 DEF Sound, Honest
  <2>4. PICK f : f = IF Success(request) THEN "success" ELSE request.answer
    OBVIOUS
  <2>5. PICK s : s = [r EXCEPT !.retry = Nothing, !.shown = request.payment, !.phase = f]
    OBVIOUS
  <2>6. /\ s \in Tab /\ s.retry = Nothing /\ s.shown = request.payment /\ s.phase = f
        /\ s.page = r.page /\ s.poll = r.poll /\ s.stray = r.stray /\ s.timer = r.timer
        /\ s.watched = r.watched /\ s.attempt = r.attempt
    <3>1. s \in Tab
      <4>1. f \in {"success"} \cup (PayStatus \ {"absent"})
        BY <2>2, <2>3, <2>4
      <4>2. f \in {"none", "unknown", "verifying", "success", "pending", "network",
                   "redirect_required", "processing"} \cup FINAL
        BY <4>1 DEF PayStatus
      <4>3. PICK p \in Payments : p = request.payment
        BY <2>3
      <4>. QED  BY <1>2, <2>5, <4>2, <4>3, NoRequest DEF Tab
    <3>2. /\ s.retry = Nothing /\ s.shown = request.payment /\ s.phase = f
          /\ s.page = r.page /\ s.poll = r.poll /\ s.stray = r.stray /\ s.timer = r.timer
          /\ s.watched = r.watched /\ s.attempt = r.attempt
      BY <1>2, <2>5 DEF Tab
    <3>. QED  BY <3>1, <3>2
  <2>7. f = "success" => Success(request)
    BY <2>2, <2>4 DEF PayStatus, FINAL
  <2>8. r.page = "return"
    BY <1>2, <2>1, <2>2 DEF Sound
  <2>9. Sound(s)
    BY <1>2, <2>6, <2>8, NoRequest DEF Sound
  <2>10. Announced(s)
    <3> SUFFICES ASSUME f = "success", ~crossed
                 PROVE  /\ Settled(request.payment)
                        /\ r.watched # None => request.payment = r.watched
      BY <2>3, <2>6 DEF Announced
    <3>1. Settled(request.payment)
      BY <2>3, <2>7 DEF Success
    <3>2. r.watched # None => Live(r.watched) /\ r.watched \in Payments
      BY <1>2, <2>8 DEF Watches, Tab
    <3>3. Live(request.payment)
      BY <1>2, <2>1, <2>3 DEF Watches
    <3>. QED  BY <2>3, <3>1, <3>2, <3>3 DEF ReturnInv, Together
  <2>11. \A q \in Payments : Watches(s, q) => Live(q)
    BY <1>2, <2>6, NoRequest DEF Watches
  <2>12. /\ tab' = [tab EXCEPT ![t] = s] /\ entry' \in {entry, None}
         /\ UNCHANGED <<row, provider, crossed>>
    <3>1. tab' = [tab EXCEPT ![t] = [r EXCEPT !.retry = Nothing, !.shown = request.payment,
                                             !.phase = f]]
      BY <1>1, <1>3, <2>1, <2>4 DEF RetryArrives
    <3>2. entry' \in {entry, None} /\ UNCHANGED <<row, provider, crossed>>
      BY <1>3 DEF RetryArrives
    <3>. QED  BY <2>5, <3>1, <3>2
  <2>. QED  BY <2>9, <2>10, <2>11, <2>12, OneQuietTab
<1>4. CASE StrayArrives(t)
  <2>1. PICK s : s = [r EXCEPT !.stray = Nothing]
    OBVIOUS
  <2>2. /\ s \in Tab /\ s.stray = Nothing /\ s.page = r.page /\ s.timer = r.timer
        /\ s.phase = r.phase /\ s.poll = r.poll /\ s.retry = r.retry
        /\ s.watched = r.watched /\ s.shown = r.shown /\ s.attempt = r.attempt
    BY <1>2, <2>1, NoRequest DEF Tab
  <2>3. Sound(s) /\ Announced(s) /\ \A q \in Payments : Watches(s, q) => Live(q)
    BY <1>2, <2>2, NoRequest DEF Sound, Announced, Watches
  <2>4. /\ tab' = [tab EXCEPT ![t] = s] /\ entry' \in {entry, None}
        /\ UNCHANGED <<row, provider, crossed>>
    BY <1>1, <1>4, <2>1 DEF StrayArrives
  <2>. QED  BY <2>3, <2>4, OneQuietTab
<1>. QED  BY <1>3, <1>4
-------------------------------------------------------------------------------
(* The shop's side *)

\* A request is served: the shop refreshes the row, or reads it, and what it
\* answers is what the row then says.
LEMMA ServedStep ==
    ASSUME ReturnInv, NEW t \in Tabs, PollServed(t) \/ RetryServed(t) \/ StrayServed(t)
    PROVE  ReturnInv'
<1>1. PICK u : u = tab[t]
  OBVIOUS
<1>2. /\ u \in Tab /\ Sound(u) /\ Announced(u) /\ Kinds
      /\ u.poll \in Request /\ u.retry \in Request /\ u.stray \in Request
      /\ \A q \in Payments : Watches(u, q) => Live(q)
  BY <1>1, TabOf DEF ReturnInv
<1>3. PICK request \in {u.poll, u.retry, u.stray} :
         /\ request.answer = "sent"
         /\ \E r : /\ r \in Refreshed(request.payment) \/ r = row[request.payment]
                   /\ row' = [row EXCEPT ![request.payment] = r]
                   /\ \/ /\ request = u.poll
                         /\ tab' = [tab EXCEPT ![t] = [u EXCEPT !.poll = Served(r, request)]]
                      \/ /\ request = u.retry
                         /\ tab' = [tab EXCEPT ![t] = [u EXCEPT !.retry = Served(r, request)]]
                      \/ /\ request = u.stray
                         /\ tab' = [tab EXCEPT ![t] =
                                       [u EXCEPT !.stray = Stray(Served(r, request))]]
  <2>1. CASE PollServed(t)
    BY <1>1, <2>1 DEF PollServed
  <2>2. CASE RetryServed(t)
    BY <1>1, <2>2 DEF RetryServed
  <2>3. CASE StrayServed(t)
    BY <1>1, <2>3 DEF StrayServed
  <2>. QED  BY <2>1, <2>2, <2>3
<1>4. PICK p : p = request.payment
  OBVIOUS
<1>5. request # Nothing /\ request \in Request /\ p \in Payments /\ Known(p)
  BY <1>2, <1>3, <1>4, NoRequest DEF Sound, Honest
<1>6. PICK r : /\ r \in Refreshed(p) \/ r = row[p]
               /\ row' = [row EXCEPT ![p] = r]
               /\ \/ /\ request = u.poll
                     /\ tab' = [tab EXCEPT ![t] = [u EXCEPT !.poll = Served(r, request)]]
                  \/ /\ request = u.retry
                     /\ tab' = [tab EXCEPT ![t] = [u EXCEPT !.retry = Served(r, request)]]
                  \/ /\ request = u.stray
                     /\ tab' = [tab EXCEPT ![t] =
                                   [u EXCEPT !.stray = Stray(Served(r, request))]]
  BY <1>3, <1>4
<1>7. UNCHANGED <<entry, provider, crossed>>
  BY DEF PollServed, RetryServed, StrayServed
<1>8. /\ r \in Row /\ row' \in [Payments -> Row] /\ row'[p] = r /\ CapturesFit'
      /\ \A q \in Payments : Stays(q)
  BY <1>5, <1>6, <1>7, RowsAgain
<1>9. PICK answer : answer = Served(r, request)
  OBVIOUS
<1>10. answer = [request EXCEPT !.answer = r.status, !.paid = r.order = "paid"]
  BY <1>9 DEF Served
<1>11. /\ answer \in Request /\ answer.payment = p /\ answer.answer = r.status
       /\ answer # Nothing
  BY <1>4, <1>5, <1>8, <1>10, NoRequest DEF Request, Row
<1>12. r.status \notin {"none", "absent"} /\ Known(p)'
  BY <1>5, <1>8 DEF Stays, Known, Row, PayStatus, FINAL
<1>13. Honest(answer)' /\ Honest(Stray(answer))'
  <2>1. Honest(answer)'
    BY <1>5, <1>8, <1>11, <1>12 DEF Honest, Settled
  <2>. QED  BY <2>1 DEF Stray, Honest
<1>14. Stray(answer) \in {answer, Nothing}
  BY DEF Stray
<1>15. Sound(u)' /\ Announced(u)'
  BY <1>2, <1>7, <1>8, StillTrue
<1>16. CASE /\ request = u.poll
            /\ tab' = [tab EXCEPT ![t] = [u EXCEPT !.poll = answer]]
  <2>1. PICK s : s = [u EXCEPT !.poll = answer]
    OBVIOUS
  <2>2. /\ s \in Tab /\ s.poll = answer /\ s.retry = u.retry /\ s.stray = u.stray
        /\ s.page = u.page /\ s.timer = u.timer /\ s.phase = u.phase
        /\ s.watched = u.watched /\ s.shown = u.shown /\ s.attempt = u.attempt
    BY <1>2, <1>11, <2>1 DEF Tab
  <2>3. u.page = "return" /\ ~u.timer /\ p = u.watched
    BY <1>2, <1>4, <1>5, <1>16 DEF Sound
  <2>4. Sound(s)'
    BY <1>11, <1>13, <1>15, <2>2, <2>3 DEF Sound
  <2>5. Announced(s)'
    BY <1>15, <2>2 DEF Announced
  <2>6. \A q \in Payments : Watches(s, q) => Live(q)
    BY <1>2, <2>2 DEF Watches
  <2>. QED  BY <1>7, <1>8, <1>16, <2>1, <2>4, <2>5, <2>6, OneTab
<1>17. CASE /\ request = u.retry
            /\ tab' = [tab EXCEPT ![t] = [u EXCEPT !.retry = answer]]
  <2>1. PICK s : s = [u EXCEPT !.retry = answer]
    OBVIOUS
  <2>2. /\ s \in Tab /\ s.poll = u.poll /\ s.retry = answer /\ s.stray = u.stray
        /\ s.page = u.page /\ s.timer = u.timer /\ s.phase = u.phase
        /\ s.watched = u.watched /\ s.shown = u.shown /\ s.attempt = u.attempt
    BY <1>2, <1>11, <2>1 DEF Tab
  <2>3. u.page = "return"
    BY <1>2, <1>5, <1>17 DEF Sound
  <2>4. Sound(s)'
    BY <1>13, <1>15, <2>2, <2>3 DEF Sound
  <2>5. Announced(s)'
    BY <1>15, <2>2 DEF Announced
  <2>6. \A q \in Payments : Watches(s, q) => Live(q)
    BY <1>2, <1>4, <1>11, <1>17, <2>2 DEF Watches
  <2>. QED  BY <1>7, <1>8, <1>17, <2>1, <2>4, <2>5, <2>6, OneTab
<1>18. CASE /\ request = u.stray
            /\ tab' = [tab EXCEPT ![t] = [u EXCEPT !.stray = Stray(answer)]]
  <2>1. PICK kept : kept = Stray(answer)
    OBVIOUS
  <2>2. kept \in {answer, Nothing} /\ Honest(kept)' /\ kept \in Request
    BY <1>11, <1>13, <1>14, <2>1, NoRequest
  <2>3. PICK s : s = [u EXCEPT !.stray = kept]
    OBVIOUS
  <2>4. /\ s \in Tab /\ s.poll = u.poll /\ s.retry = u.retry /\ s.stray = kept
        /\ s.page = u.page /\ s.timer = u.timer /\ s.phase = u.phase
        /\ s.watched = u.watched /\ s.shown = u.shown /\ s.attempt = u.attempt
    BY <1>2, <2>2, <2>3 DEF Tab
  <2>5. Sound(s)'
    BY <1>15, <2>2, <2>4 DEF Sound
  <2>6. Announced(s)'
    BY <1>15, <2>4 DEF Announced
  <2>7. \A q \in Payments : Watches(s, q) => Live(q)
    BY <1>2, <1>4, <1>11, <1>18, <2>2, <2>4, NoRequest DEF Watches
  <2>. QED  BY <1>7, <1>8, <1>18, <2>1, <2>3, <2>5, <2>6, <2>7, OneTab
<1>. QED  BY <1>6, <1>9, <1>16, <1>17, <1>18
\* A step that leaves the browser alone.
LEMMA BrowserRests ==
    ASSUME ReturnInv, UNCHANGED <<entry, tab, crossed>>,
           row' \in [Payments -> Row], provider' \in [Payments -> Settlements], CapturesFit',
           \A q \in Payments : Stays(q)
    PROVE  ReturnInv'
<1>1. Kinds /\ Together /\ (entry # None => Known(entry))
      /\ \A t \in Tabs : Sound(tab[t]) /\ Announced(tab[t])
  BY DEF ReturnInv
<1>2. Kinds'
  BY <1>1 DEF Kinds
<1>3. Together'
  BY <1>1 DEF Together, Live, Watches
<1>4. (entry # None => Known(entry))'
  BY <1>1 DEF Kinds, Stays, Known
<1>5. \A t \in Tabs : (Sound(tab[t]) /\ Announced(tab[t]))'
  <2> SUFFICES ASSUME NEW t \in Tabs PROVE (Sound(tab[t]) /\ Announced(tab[t]))'
    OBVIOUS
  <2>1. PICK s : s = tab[t]
    OBVIOUS
  <2>2. Sound(s)' /\ Announced(s)'
    BY <1>1, <2>1, StillTrue
  <2>. QED  BY <2>1, <2>2 DEF Sound, Announced, Honest, Settled, Known
<1>. QED  BY <1>2, <1>3, <1>4, <1>5 DEF ReturnInv

LEMMA ShopSteps ==
    ASSUME ReturnInv, NEW p \in Payments, Notified(p) \/ OrderMoves(p) \/ Settle(p)
    PROVE  ReturnInv'
<1>1. Kinds /\ CapturesFit /\ row[p] \in Row
  BY DEF ReturnInv, Kinds
<1>2. CASE Notified(p)
  <2>1. PICK r \in Refreshed(p) : row' = [row EXCEPT ![p] = r]
    BY <1>2 DEF Notified
  <2>2. row' \in [Payments -> Row] /\ CapturesFit' /\ \A q \in Payments : Stays(q)
    BY <1>2, <2>1, RowsAgain DEF Notified
  <2>. QED  BY <1>1, <1>2, <2>2, BrowserRests DEF Notified, Kinds
<1>3. CASE OrderMoves(p)
  <2>1. PICK o \in {"closed", "preparing"} : row' = [row EXCEPT ![p].order = o]
    BY <1>3 DEF OrderMoves
  <2>2. PICK r : r = [row[p] EXCEPT !.order = o]
    OBVIOUS
  <2>3. r \in Row /\ r.status = row[p].status
    BY <1>1, <2>2 DEF Row, OrderStatus
  <2>4. /\ row' \in [Payments -> Row] /\ row'[p] = r
        /\ \A q \in Payments : q # p => row'[q] = row[q]
    BY <1>1, <2>1, <2>2, <2>3 DEF Kinds
  <2>5. UNCHANGED <<entry, tab, provider, crossed>>
    BY <1>3 DEF OrderMoves
  <2>6. CapturesFit' /\ \A q \in Payments : Stays(q)
    BY <1>1, <2>3, <2>4, <2>5 DEF CapturesFit, Stays, Settled, Known
  <2>. QED  BY <1>1, <2>4, <2>5, <2>6, BrowserRests DEF Kinds
<1>4. CASE Settle(p)
  <2>1. PICK s \in Settlements : provider' = [provider EXCEPT ![p] = s]
    BY <1>4 DEF Settle
  <2>2. UNCHANGED <<entry, tab, row, crossed>> /\ provider[p] # "captured"
    BY <1>4 DEF Settle, Captured
  <2>3. /\ provider' \in [Payments -> Settlements]
        /\ \A q \in Payments : q # p => provider'[q] = provider[q]
    BY <1>1, <2>1 DEF Kinds
  <2>4. CapturesFit' /\ \A q \in Payments : Stays(q)
    BY <1>1, <2>2, <2>3 DEF CapturesFit, Stays, Settled, Known
  <2>. QED  BY <1>1, <2>2, <2>3, <2>4, BrowserRests DEF Kinds
<1>. QED  BY <1>2, <1>3, <1>4

\* A payment is started, and its entry replaces the one there was.
LEMMA ProceedStep ==
    ASSUME ReturnInv, NEW t \in Tabs, NEW p \in Payments, ProceedToPayment(t, p)
    PROVE  ReturnInv'
<1>1. /\ Kinds /\ CapturesFit /\ Together /\ row[p] \in Row
      /\ \A u \in Tabs : Sound(tab[u]) /\ Announced(tab[u])
  BY DEF ReturnInv, Kinds
<1>2. PICK r : r = [row[p] EXCEPT !.status = "redirect_required"]
  OBVIOUS
<1>3. /\ r \in Row /\ r.status = "redirect_required" /\ ~Settled(p)
      /\ row' \in [Payments -> Row] /\ row'[p] = r /\ UNCHANGED provider
      /\ \A q \in Payments : q # p => row'[q] = row[q]
  <2>1. r \in Row /\ r.status = "redirect_required"
    BY <1>1, <1>2 DEF Row, PayStatus
  <2>2. row' = [row EXCEPT ![p] = r] /\ UNCHANGED provider /\ ~Settled(p)
    BY <1>2 DEF ProceedToPayment, Settled
  <2>. QED  BY <1>1, <2>1, <2>2 DEF Kinds
<1>4. CapturesFit' /\ \A q \in Payments : Stays(q)
  BY <1>1, <1>3 DEF CapturesFit, Stays, Settled, Known
<1>5. CASE UNCHANGED <<entry, tab, crossed>>
  BY <1>1, <1>3, <1>4, <1>5, BrowserRests DEF Kinds
<1>6. CASE /\ entry' = p
           /\ tab' = [tab EXCEPT ![t].page = "leaving"]
           /\ crossed' = (crossed \/ \E q \in Payments \ {p} : Watching(q))
  <2>1. PICK u : u = tab[t]
    OBVIOUS
  <2>2. u \in Tab /\ Sound(u) /\ Announced(u) /\ u.page = "shop"
    BY <2>1, TabOf DEF ProceedToPayment
  <2>3. PICK s : s = [u EXCEPT !.page = "leaving"]
    OBVIOUS
  <2>4. /\ s \in Tab /\ s.page = "leaving" /\ s.poll = u.poll /\ s.retry = u.retry
        /\ s.stray = u.stray /\ s.timer = u.timer /\ s.phase = u.phase
        /\ s.watched = u.watched /\ s.shown = u.shown /\ s.attempt = u.attempt
    BY <2>2, <2>3 DEF Tab
  <2>5. Sound(s) /\ s.phase # "success"
    BY <2>2, <2>4 DEF Sound
  <2>6. /\ tab' \in [Tabs -> Tab] /\ tab'[t] = s
        /\ \A x \in Tabs : x # t => tab'[x] = tab[x]
    <3>1. tab' = [tab EXCEPT ![t] = s]
      BY <1>6, <2>1, <2>3
    <3>. QED  BY <1>1, <2>4, <3>1 DEF Kinds
  <2>7. crossed' \in BOOLEAN /\ (crossed => crossed')
    BY <1>1, <1>6 DEF Kinds
  <2>8. Kinds' /\ Known(p)' /\ entry' = p
    BY <1>1, <1>3, <1>6, <2>6, <2>7 DEF Kinds, Known
  <2>9. \A x \in Tabs : (Sound(tab[x]) /\ Announced(tab[x]))'
    <3> SUFFICES ASSUME NEW x \in Tabs PROVE (Sound(tab[x]) /\ Announced(tab[x]))'
      OBVIOUS
    <3>1. PICK v : v = tab'[x]
      OBVIOUS
    <3>2. Sound(v) /\ Announced(v)
      <4>1. CASE x = t
        BY <2>5, <2>6, <3>1, <4>1 DEF Announced
      <4>2. CASE x # t
        BY <1>1, <2>6, <3>1, <4>2
      <4>. QED  BY <4>1, <4>2
    <3>3. Sound(v)' /\ Announced(v)'
      BY <1>1, <1>4, <2>7, <3>2, StillTrue
    <3>. QED  BY <3>1, <3>3 DEF Sound, Announced, Honest, Settled, Known
  <2>10. Together'
    <3> SUFFICES ASSUME ~crossed', NEW q \in Payments, Live(q)' PROVE q = p
      BY DEF Together
    <3>1. ~Watching(q) \/ q = p
      BY <1>6
    <3>2. CASE q = entry'
      BY <1>6, <3>2
    <3>3. CASE \E x \in Tabs : Watches(tab[x], q)'
      <4>1. PICK x \in Tabs : Watches(tab[x], q)'
        BY <3>3
      <4>2. PICK v : v = tab'[x]
        OBVIOUS
      <4>3. \/ q \in {v.retry.payment, v.stray.payment}
            \/ v.page = "return" /\ v.watched = q
        BY <4>1, <4>2 DEF Watches
      <4>4. \/ q \in {tab[x].retry.payment, tab[x].stray.payment}
            \/ tab[x].page = "return" /\ tab[x].watched = q
        BY <2>1, <2>4, <2>6, <4>2, <4>3
      <4>. QED  BY <3>1, <4>4 DEF Watching
    <3>. QED  BY <3>2, <3>3 DEF Live
  <2>. QED  BY <1>4, <2>8, <2>9, <2>10 DEF ReturnInv
<1>. QED  BY <1>5, <1>6 DEF ProceedToPayment

-------------------------------------------------------------------------------
(* The invariant and what follows *)

LEMMA ReturnInvariance == Spec => []ReturnInv
<1>1. Init => ReturnInv
  <2> SUFFICES ASSUME Init PROVE ReturnInv
    OBVIOUS
  <2>1. /\ entry = None /\ crossed = FALSE
        /\ tab \in [Tabs -> Tab] /\ \A t \in Tabs : tab[t] = NewTab
        /\ row \in [Payments -> Row] /\ \A p \in Payments : row[p].status = "absent"
        /\ provider \in [Payments -> Settlements]
    BY Fresh DEF Init, Row, PayStatus, OrderStatus, Settlements
  <2>2. Kinds /\ CapturesFit
    BY <2>1 DEF Kinds, CapturesFit, Settled
  <2>3. \A t \in Tabs : Sound(tab[t]) /\ Announced(tab[t])
    BY <2>1, Fresh
  <2>4. Together
    BY <2>1, Fresh, NoRequest DEF Together, Live, Watches
  <2>. QED  BY <2>1, <2>2, <2>3, <2>4 DEF ReturnInv
<1>2. ReturnInv /\ [Next]_vars => ReturnInv'
  <2> SUFFICES ASSUME ReturnInv, [Next]_vars PROVE ReturnInv'
    OBVIOUS
  <2>1. CASE UNCHANGED vars
    <3>1. /\ UNCHANGED <<entry, tab, row, provider, crossed>>
          /\ row \in [Payments -> Row] /\ provider \in [Payments -> Settlements] /\ CapturesFit
      BY <2>1 DEF vars, ReturnInv, Kinds
    <3>2. CapturesFit' /\ \A q \in Payments : Stays(q)
      BY <3>1 DEF CapturesFit, Stays, Settled, Known
    <3>. QED  BY <3>1, <3>2, BrowserRests
  <2>2. CASE \E p \in Payments : Notified(p) \/ OrderMoves(p) \/ Settle(p)
    BY <2>2, ShopSteps
  <2>3. CASE \E t \in Tabs, p \in Payments : ProceedToPayment(t, p)
    BY <2>3, ProceedStep
  <2>4. ASSUME NEW t \in Tabs, \/ Redirect(t) \/ Open(t) \/ Leave(t) \/ Hide(t) \/ TimerFires(t)
                               \/ Retry(t)
        PROVE  ReturnInv'
    BY <2>4, MovingSteps, OpenStep, LeaveStep, TimerStep, RetryStep
  <2>5. ASSUME NEW t \in Tabs, PollServed(t) \/ RetryServed(t) \/ StrayServed(t)
        PROVE  ReturnInv'
    BY <2>5, ServedStep
  <2>6. ASSUME NEW t \in Tabs,
               PollAnswered(t) \/ RetryAnswered(t) \/ StrayArrives(t) \/ StrayFails(t)
        PROVE  ReturnInv'
    BY <2>6, PollArrivesStep, CheckArrivesStep, FailingSteps DEF PollAnswered, RetryAnswered
  <2>. QED  BY <2>1, <2>2, <2>3, <2>4, <2>5, <2>6 DEF Next
<1>. QED  BY <1>1, <1>2, PTL DEF Spec

\* A page asks at most once at a time by itself, plans the next request only
\* when none is under way, and asks nothing once it is left, for any number of
\* tabs, payments and polls.
THEOREM PageTypes == Spec => []PageTypeOK
<1>1. ReturnInv => PageTypeOK
  BY DEF ReturnInv, Kinds, Sound, PageTypeOK
<1>. QED  BY <1>1, ReturnInvariance, PTL

\* The page says "paid" only of a payment the provider captured as it should (see LigdiCash),
\* and that the shop has confirmed, however answers cross, unless a second
\* payment was started while the first was watched.
THEOREM SuccessPaid == Spec => []SuccessIsPaid
<1>1. ReturnInv => SuccessIsPaid
  BY PaymentPageAssumption
     DEF ReturnInv, SuccessIsPaid, Announced, Settled, CapturesFit, PaymentPageAssumption
<1>. QED  BY <1>1, ReturnInvariance, PTL

\* The entry leads back to its payment until that is confirmed: no answer about
\* another one removes it, unless a payment was started while another was watched.
THEOREM EntryStays == Spec => EntryKept
<1>1. ReturnInv /\ [Next]_vars
        => [entry # None /\ entry' = None /\ ~crossed
              => row[entry].status = "completed" /\ provider[entry] = "captured"]_vars
  <2> SUFFICES ASSUME ReturnInv, Next, entry # None, entry' = None, ~crossed
               PROVE  row[entry].status = "completed" /\ provider[entry] = "captured"
    BY DEF vars
  <2>1. entry \in Payments /\ CapturesFit /\ Together /\ None \notin Payments
    BY PaymentPageAssumption DEF ReturnInv, Kinds, PaymentPageAssumption
  <2>2. PICK t \in Tabs : PollArrives(t) \/ RetryArrives(t) \/ StrayArrives(t)
    BY <2>1 DEF Next, Notified, OrderMoves, Settle, ProceedToPayment, Redirect, Open, Leave,
                Hide, TimerFires, PollServed, Retry, RetryServed, StrayServed, StrayFails,
                PollAnswered, RetryAnswered, PollFails, RetryFails
  <2>3. /\ Sound(tab[t])
        /\ \A q \in Payments : Watches(tab[t], q) => Live(q)
    BY TabOf
  <2>4. PICK request \in {tab[t].poll, tab[t].retry, tab[t].stray} : Success(request)
    BY <2>1, <2>2 DEF PollArrives, RetryArrives, StrayArrives
  <2>5. request # Nothing
    BY <2>4, NoRequest DEF Success
  <2>6. request.payment \in Payments /\ Settled(request.payment)
    BY <2>3, <2>4, <2>5 DEF Sound, Honest, Success
  <2>7. Watches(tab[t], request.payment)
    BY <2>3, <2>4, <2>5 DEF Sound, Watches
  <2>8. request.payment = entry
    BY <2>1, <2>3, <2>6, <2>7 DEF Together, Live
  <2>. QED  BY <2>1, <2>6, <2>8 DEF CapturesFit, Settled
<1>. QED  BY <1>1, ReturnInvariance, PTL DEF Spec, EntryKept
===============================================================================
