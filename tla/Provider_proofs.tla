---------------------------- MODULE Provider_proofs ----------------------------
(***************************************************************************)
(* Proofs about what the shop believes of its provider: Refunds, for every *)
(* set of keys, every amount and any number of workers; and Callbacks, for *)
(* every set of payments.                                                  *)
(*                                                                         *)
(* RefundInv adds to the invariants that an answer "completed" a worker    *)
(* holds is still true of the provider, and that a row not yet requested   *)
(* affects no order.  Only three facts about a step matter: which row it   *)
(* marks, when it moves the order, and that what the provider paid stays   *)
(* paid.                                                                   *)
(*                                                                         *)
(* CallbackInv adds to EvidenceIsKept that a payment whose row exists has  *)
(* a session, and the mock's where the mock is at work: what the mock      *)
(* confirms has no line of its own, so a session of the provider's that it *)
(* could confirm would break the story.                                    *)
(***************************************************************************)
EXTENDS Refunds, Callbacks, Sums

AnswersTrue ==
    \A w \in Workers : task[w].answer = "completed" => remote[task[w].refund] = "completed"

NewRows == \A r \in Refunds : refund[r].status = "absent" => ~refund[r].affects

RefundInv ==
    RefundTypeOK /\ PendingHasRefund /\ RefundedIsConfirmed /\ AnswersTrue /\ NewRows

-------------------------------------------------------------------------------
(* Rows and tasks *)

\* Mark changes the status of one row and nothing else of any row.
LEMMA MarkRow ==
    ASSUME refund \in [Refunds -> Refund], NEW r \in Refunds, NEW s \in RefundStatus,
           Mark(r, s)
    PROVE  /\ refund' \in [Refunds -> Refund]
           /\ refund'[r].status = s
           /\ \A x \in Refunds : /\ refund'[x].affects = refund[x].affects
                                 /\ x # r => refund'[x] = refund[x]
  BY DEF Mark, Refund

\* A worker that holds an answer is busy with a refund.
LEMMA BusyTask ==
    ASSUME RefundTypeOK, NEW w \in Workers, task[w] # Idle
    PROVE  /\ task[w] \in [refund: Refunds, action: {"submit", "reconcile"},
                           answer: {"none"} \cup RefundAnswer]
           /\ task[w].refund \in Refunds
  BY DEF RefundTypeOK, Task

\* Taking a task, answering it and dropping it keep the type of task, and a
\* task that holds no completion says nothing about the provider.
LEMMA NewTask ==
    ASSUME RefundTypeOK, NEW w \in Workers, NEW t \in Task,
           task' = [task EXCEPT ![w] = t]
    PROVE  /\ task' \in [Workers -> Task]
           /\ task'[w] = t
           /\ \A x \in Workers : x # w => task'[x] = task[x]
  BY DEF RefundTypeOK

LEMMA IdleTask == Idle \in Task /\ Idle.answer = "none" /\ Idle.action = "none"
  BY DEF Idle, Task

LEMMA FreshTask ==
    ASSUME NEW r \in Refunds, NEW a \in {"submit", "reconcile"},
           NEW heard \in {"none"} \cup RefundAnswer
    PROVE  [refund |-> r, action |-> a, answer |-> heard] \in Task
  BY DEF Task

LEMMA AnsweredTask ==
    ASSUME RefundTypeOK, NEW w \in Workers, task[w] # Idle, NEW heard \in RefundAnswer,
           task' = [task EXCEPT ![w].answer = heard]
    PROVE  /\ task' \in [Workers -> Task]
           /\ task'[w].answer = heard /\ task'[w].refund = task[w].refund
           /\ \A x \in Workers : x # w => task'[x] = task[x]
<1> DEFINE t == [task[w] EXCEPT !.answer = heard]
<1>1. task[w] \in [refund: Refunds, action: {"submit", "reconcile"},
                   answer: {"none"} \cup RefundAnswer]
  BY BusyTask
<1>2. t \in [refund: Refunds, action: {"submit", "reconcile"},
             answer: {"none"} \cup RefundAnswer]
  BY <1>1
<1>3. t.answer = heard /\ t.refund = task[w].refund /\ t \in Task
  BY <1>1, <1>2 DEF Task
<1>4. task' = [task EXCEPT ![w] = t]
  OBVIOUS
<1>. HIDE DEF t
<1>. QED  BY <1>3, <1>4, NewTask

-------------------------------------------------------------------------------
(* One lemma per action *)

LEMMA InitRefund == RefundInit => RefundInv
<1> SUFFICES ASSUME RefundInit PROVE RefundInv
  OBVIOUS
<1>1. RefundTypeOK
  BY IdleTask, RefundsAssumption
     DEF RefundInit, RefundTypeOK, Refund, RefundStatus, RESERVED_STATUSES, Remote,
         Status, Fulfilled, Refunding, RefundsAssumption
<1>2. PendingHasRefund
  BY DEF RefundInit, PendingHasRefund
<1>3. RefundedIsConfirmed
  BY DEF RefundInit, RefundedIsConfirmed
<1>4. AnswersTrue /\ NewRows
  BY IdleTask DEF RefundInit, AnswersTrue, NewRows
<1>. QED  BY <1>1, <1>2, <1>3, <1>4 DEF RefundInv

\* A request is a new open row, marked as affecting the order if it moves it.
LEMMA RequestStep ==
    ASSUME RefundInv, NEW r \in Refunds, NEW amount \in 1 .. Amount, Request(r, amount)
    PROVE  RefundInv'
<1> DEFINE affects == amount = Balance(Refunds) /\ ~duplicate
<1>1. /\ refund[r].status = "absent"
      /\ refund' = [refund EXCEPT ![r] = [status |-> "requested", amount |-> amount,
                                          affects |-> affects]]
      /\ \/ order' = "refund_pending" /\ affects
         \/ order' = order
      /\ UNCHANGED <<duplicate, remote, task, crashes, overtaken>>
  BY DEF Request
<1>2. affects \in BOOLEAN
  OBVIOUS
<1>. HIDE DEF affects
<1>3. /\ refund' \in [Refunds -> Refund]
      /\ refund'[r].status = "requested" /\ refund'[r].affects = affects
      /\ \A x \in Refunds : x # r => refund'[x] = refund[x]
  BY <1>1, <1>2, RefundsAssumption
     DEF RefundInv, RefundTypeOK, Refund, RefundStatus, RESERVED_STATUSES,
         RefundsAssumption
<1>4. RefundTypeOK'
  BY <1>1, <1>3 DEF RefundInv, RefundTypeOK, Status, Refunding
<1>5. PendingHasRefund'
  BY <1>1, <1>3 DEF RefundInv, PendingHasRefund
<1>6. RefundedIsConfirmed'
  BY <1>1, <1>3 DEF RefundInv, RefundedIsConfirmed, NewRows
<1>7. AnswersTrue' /\ NewRows'
  BY <1>1, <1>3 DEF RefundInv, AnswersTrue, NewRows
<1>. QED  BY <1>4, <1>5, <1>6, <1>7 DEF RefundInv

\* A refund taken for submission is open, whatever it was before.
LEMMA StartStep ==
    ASSUME RefundInv, NEW w \in Workers, NEW r \in Refunds, Start(w, r)
    PROVE  RefundInv'
<1>1. /\ refund[r].status \in {"requested", "failed"}
      /\ Mark(r, "processing")
      /\ \/ order' = "refund_pending" /\ refund[r].affects
         \/ order' = order
      /\ task' = [task EXCEPT ![w] = [refund |-> r, action |-> "submit",
                                      answer |-> "none"]]
      /\ overtaken' \subseteq overtaken
      /\ UNCHANGED <<duplicate, remote, crashes>>
  BY DEF Start
<1>2. /\ refund' \in [Refunds -> Refund]
      /\ refund'[r].status = "processing"
      /\ \A x \in Refunds : /\ refund'[x].affects = refund[x].affects
                            /\ x # r => refund'[x] = refund[x]
  BY <1>1, MarkRow DEF RefundInv, RefundTypeOK, RefundStatus, RESERVED_STATUSES
<1>3. /\ task' \in [Workers -> Task]
      /\ task'[w].answer = "none"
      /\ \A x \in Workers : x # w => task'[x] = task[x]
  BY <1>1, NewTask, FreshTask DEF RefundInv
<1>4. RefundTypeOK'
  BY <1>1, <1>2, <1>3 DEF RefundInv, RefundTypeOK, Status, Refunding
<1>5. PendingHasRefund'
  BY <1>1, <1>2 DEF RefundInv, PendingHasRefund
<1>6. RefundedIsConfirmed'
  BY <1>1, <1>2 DEF RefundInv, RefundedIsConfirmed
<1>7. AnswersTrue' /\ NewRows'
  BY <1>1, <1>2, <1>3 DEF RefundInv, AnswersTrue, NewRows
<1>. QED  BY <1>4, <1>5, <1>6, <1>7 DEF RefundInv

\* Steps that change only the tasks and the provider keep the invariant as
\* long as what was paid stays paid and the new answer is true.
LEMMA ProviderStep ==
    ASSUME RefundInv, UNCHANGED <<refund, order, duplicate>>,
           overtaken' \subseteq Refunds, crashes' \in 0 .. MaxCrashes,
           remote' \in [Refunds -> Remote], task' \in [Workers -> Task],
           \A x \in Refunds : remote[x] = "completed" => remote'[x] = "completed",
           \A x \in Workers : \/ task'[x] = task[x]
                              \/ task'[x].answer # "completed"
                              \/ remote'[task'[x].refund] = "completed"
    PROVE  RefundInv'
<1>1. RefundTypeOK'
  BY DEF RefundInv, RefundTypeOK
<1>2. PendingHasRefund'
  BY DEF RefundInv, PendingHasRefund
<1>3. RefundedIsConfirmed'
  BY DEF RefundInv, RefundedIsConfirmed
<1>4. AnswersTrue'
  <2> SUFFICES ASSUME NEW x \in Workers, task'[x].answer = "completed"
               PROVE  remote'[task'[x].refund] = "completed"
    BY DEF AnswersTrue
  <2>1. CASE task'[x] = task[x]
    <3>1. task[x].answer = "completed" /\ task[x] # Idle
      BY <2>1, IdleTask
    <3>2. task[x].refund \in Refunds
      BY <3>1, BusyTask DEF RefundInv
    <3>. QED  BY <2>1, <3>1, <3>2 DEF RefundInv, AnswersTrue
  <2>. QED  BY <2>1
<1>5. NewRows'
  BY DEF RefundInv, NewRows
<1>. QED  BY <1>1, <1>2, <1>3, <1>4, <1>5 DEF RefundInv

\* An answer is written on the refund, and moves the order it affects out of
\* refund_pending unless the provider is still working on it.
LEMMA ApplyStep ==
    ASSUME RefundInv, NEW w \in Workers, Apply(w)
    PROVE  RefundInv'
<1> DEFINE r == task[w].refund
           heard == task[w].answer
<1>1. /\ heard \in RefundAnswer
      /\ heard = "processing" => UNCHANGED <<refund, order>>
      /\ heard # "processing" => Mark(r, heard)
      /\ refund[r].affects /\ order = "refund_pending" /\ heard # "processing" =>
            order' = IF heard = "completed" THEN "refunded" ELSE "refund_failed"
      /\ ~(refund[r].affects /\ order = "refund_pending") => order' = order
      /\ task' = [task EXCEPT ![w] = Idle]
      /\ overtaken' \subseteq overtaken \cup {r}
      /\ UNCHANGED <<duplicate, remote, crashes>>
  BY DEF Apply
<1>2. r \in Refunds /\ (heard = "completed" => remote[r] = "completed")
  BY <1>1, BusyTask, IdleTask DEF RefundInv, AnswersTrue, RefundAnswer
<1>. HIDE DEF r, heard
<1>3. /\ task' \in [Workers -> Task]
      /\ task'[w].answer = "none"
      /\ \A x \in Workers : x # w => task'[x] = task[x]
  BY <1>1, NewTask, IdleTask DEF RefundInv
<1>4. CASE heard = "processing"
  <2>1. overtaken' \subseteq Refunds /\ crashes' \in 0 .. MaxCrashes
    BY <1>1, <1>2 DEF RefundInv, RefundTypeOK
  <2>. QED  BY <1>1, <1>3, <1>4, <2>1, ProviderStep DEF RefundInv, RefundTypeOK
<1>5. CASE heard # "processing"
  <2>1. heard \in {"completed", "failed"} /\ heard \in RefundStatus
    BY <1>1, <1>5 DEF RefundAnswer, RefundStatus, RESERVED_STATUSES
  <2>2. /\ refund' \in [Refunds -> Refund]
        /\ refund'[r].status = heard
        /\ \A x \in Refunds : /\ refund'[x].affects = refund[x].affects
                              /\ x # r => refund'[x] = refund[x]
    BY <1>1, <1>2, <1>5, <2>1, MarkRow DEF RefundInv, RefundTypeOK
  <2>3. RefundTypeOK'
    BY <1>1, <1>2, <1>3, <1>5, <2>2 DEF RefundInv, RefundTypeOK, Status, Refunding
  <2>4. PendingHasRefund'
    BY <1>1, <1>2, <1>5, <2>2 DEF RefundInv, PendingHasRefund
  <2>5. RefundedIsConfirmed'
    BY <1>1, <1>2, <1>5, <2>1, <2>2 DEF RefundInv, RefundedIsConfirmed
  <2>6. AnswersTrue'
    BY <1>1, <1>3 DEF RefundInv, AnswersTrue
  <2>7. NewRows'
    BY <2>1, <2>2 DEF RefundInv, NewRows
  <2>. QED  BY <2>3, <2>4, <2>5, <2>6, <2>7 DEF RefundInv
<1>. QED  BY <1>4, <1>5

\* Every step keeps the invariant.
LEMMA RefundStep == RefundInv /\ [RefundNext]_refundVars => RefundInv'
<1> SUFFICES ASSUME RefundInv, [RefundNext]_refundVars PROVE RefundInv'
  OBVIOUS
<1>1. ASSUME NEW r \in Refunds, NEW amount \in 1 .. Amount, Request(r, amount)
      PROVE  RefundInv'
  BY <1>1, RequestStep
<1>2. ASSUME NEW w \in Workers, NEW r \in Refunds, Start(w, r)
      PROVE  RefundInv'
  BY <1>2, StartStep
<1>3. ASSUME NEW w \in Workers, NEW r \in Refunds, StartReconcile(w, r)
      PROVE  RefundInv'
  <2> DEFINE t == [refund |-> r, action |-> "reconcile", answer |-> "none"]
  <2>1. t \in Task /\ t.answer # "completed"
    BY FreshTask
  <2>2. task' = [task EXCEPT ![w] = t] /\ UNCHANGED <<refund, order, duplicate, remote, crashes, overtaken>>
    BY <1>3 DEF StartReconcile
  <2>. HIDE DEF t
  <2>. QED  BY <2>1, <2>2, NewTask, ProviderStep DEF RefundInv, RefundTypeOK
<1>4. ASSUME NEW w \in Workers, Submit(w)
      PROVE  RefundInv'
  <2> DEFINE r == task[w].refund
  <2>1. PICK state \in {remote[r]} \cup
                         (IF remote[r] \in {"none", "refused"} THEN Remote \ {"none"} ELSE {}),
             heard \in RefundAnswer :
            /\ heard \in Answers(state)
            /\ remote' = [remote EXCEPT ![r] = state]
            /\ task' = [task EXCEPT ![w].answer = heard]
    BY <1>4 DEF Submit
  <2>2. task[w] # Idle /\ UNCHANGED <<refund, order, duplicate, crashes, overtaken>>
    BY <1>4, IdleTask DEF Submit
  <2>3. r \in Refunds
    BY <2>2, BusyTask DEF RefundInv
  <2>4. /\ task' \in [Workers -> Task]
        /\ task'[w].answer = heard /\ task'[w].refund = r
        /\ \A x \in Workers : x # w => task'[x] = task[x]
    BY <2>1, <2>2, AnsweredTask DEF RefundInv
  <2>. HIDE DEF r
  <2>5. state \in Remote /\ (remote[r] = "completed" => state = "completed")
    BY <2>1, <2>3 DEF RefundInv, RefundTypeOK
  <2>6. heard = "completed" => state = "completed"
    BY <2>1 DEF Answers
  <2>7. /\ remote' \in [Refunds -> Remote] /\ remote'[r] = state
        /\ \A x \in Refunds : remote[x] = "completed" => remote'[x] = "completed"
    BY <2>1, <2>3, <2>5 DEF RefundInv, RefundTypeOK
  <2>. QED
    BY <2>2, <2>4, <2>6, <2>7, ProviderStep DEF RefundInv, RefundTypeOK
<1>5. ASSUME NEW w \in Workers, Verify(w)
      PROVE  RefundInv'
  <2>1. PICK heard \in Answers(remote[task[w].refund]) :
            task' = [task EXCEPT ![w].answer = heard]
    BY <1>5 DEF Verify
  <2>2. task[w] # Idle /\ UNCHANGED <<refund, order, duplicate, remote, crashes, overtaken>>
    BY <1>5, IdleTask DEF Verify
  <2>3. /\ heard \in RefundAnswer
        /\ heard = "completed" => remote[task[w].refund] = "completed"
    BY <2>1 DEF Answers, RefundAnswer
  <2>4. /\ task' \in [Workers -> Task]
        /\ task'[w].answer = heard /\ task'[w].refund = task[w].refund
        /\ \A x \in Workers : x # w => task'[x] = task[x]
    BY <2>1, <2>2, <2>3, AnsweredTask DEF RefundInv
  <2>. QED
    BY <2>2, <2>3, <2>4, ProviderStep DEF RefundInv, RefundTypeOK
<1>6. ASSUME NEW w \in Workers, Apply(w)
      PROVE  RefundInv'
  BY <1>6, ApplyStep
<1>7. ASSUME NEW w \in Workers, Crash(w)
      PROVE  RefundInv'
  <2>1. /\ task' = [task EXCEPT ![w] = Idle] /\ UNCHANGED <<refund, order, duplicate, remote, overtaken>>
        /\ crashes' \in 0 .. MaxCrashes
    BY <1>7, RefundsAssumption DEF Crash, RefundInv, RefundTypeOK, RefundsAssumption
  <2>. QED
    BY <2>1, IdleTask, NewTask, ProviderStep DEF RefundInv, RefundTypeOK
<1>8. ASSUME NEW r \in Refunds, RemoteSettle(r)
      PROVE  RefundInv'
  <2>1. /\ UNCHANGED <<refund, order, duplicate, task, crashes, overtaken>>
        /\ remote' \in [Refunds -> Remote]
        /\ \A x \in Refunds : remote[x] = "completed" => remote'[x] = "completed"
    BY <1>8 DEF RemoteSettle, RefundInv, RefundTypeOK, Remote
  <2>. QED  BY <2>1, ProviderStep DEF RefundInv, RefundTypeOK
<1>9. CASE UNCHANGED refundVars
  BY <1>9, ProviderStep DEF refundVars, RefundInv, RefundTypeOK
<1>. QED
  BY <1>1, <1>2, <1>3, <1>4, <1>5, <1>6, <1>7, <1>8, <1>9 DEF RefundNext

LEMMA RefundInvariance == RefundSpec => []RefundInv
  BY InitRefund, RefundStep, PTL DEF RefundSpec

-------------------------------------------------------------------------------
(* The invariants *)

\* Whatever the requests, retries, answers and deaths of workers, every row,
\* task and order status keeps its type.
THEOREM RefundTypes == RefundSpec => []RefundTypeOK
  BY RefundInvariance, PTL DEF RefundInv

\* An order in refund_pending is never left behind: an open refund that
\* affects it will move it, even when answers of several workers cross.
THEOREM PendingRefund == RefundSpec => []PendingHasRefund
  BY RefundInvariance, PTL DEF RefundInv

\* A refund is completed and an order refunded only when the provider paid.
THEOREM Confirmed == RefundSpec => []RefundedIsConfirmed
  BY RefundInvariance, PTL DEF RefundInv

-------------------------------------------------------------------------------
(* Answers that come late *)

\* A call about a refund that was not overtaken finds it still in processing.
OnProcessing ==
    \A w \in Workers :
        task[w] # Idle /\ task[w].refund \notin overtaken =>
            refund[task[w].refund].status = "processing"

\* Every step keeps that, and so leaves a completed refund alone.
LEMMA LateCallStep ==
    ASSUME RefundInv, OnProcessing, [RefundNext]_refundVars
    PROVE  /\ OnProcessing'
           /\ \A r \in Refunds \ overtaken :
                 refund[r].status = "completed" => refund'[r] = refund[r]
<1> DEFINE Final == \A r \in Refunds \ overtaken :
                       refund[r].status = "completed" => refund'[r] = refund[r]
<1>1. ASSUME NEW r \in Refunds, NEW amount \in 1 .. Amount, Request(r, amount)
      PROVE  OnProcessing' /\ Final
  <2>1. /\ refund[r].status = "absent" /\ UNCHANGED <<task, overtaken>>
        /\ \A x \in Refunds \ {r} : refund'[x] = refund[x]
    BY <1>1 DEF Request, RefundInv, RefundTypeOK
  <2>2. Final
    BY <2>1
  <2>3. OnProcessing'
    BY <2>1, BusyTask DEF OnProcessing, RefundInv
  <2>. QED  BY <2>2, <2>3
<1>2. ASSUME NEW w \in Workers, NEW r \in Refunds, Start(w, r)
      PROVE  OnProcessing' /\ Final
  <2>1. /\ refund[r].status \in {"requested", "failed"}
        /\ refund'[r].status = "processing"
        /\ \A x \in Refunds \ {r} : refund'[x] = refund[x]
    BY <1>2, MarkRow DEF Start, RefundInv, RefundTypeOK, RefundStatus, RESERVED_STATUSES
  <2>2. /\ task'[w].refund = r /\ overtaken \ {r} \subseteq overtaken'
        /\ \A x \in Workers \ {w} : task'[x] = task[x]
    BY <1>2 DEF Start, RefundInv, RefundTypeOK
  <2>3. Final
    BY <2>1
  <2>4. OnProcessing'
    <3> SUFFICES ASSUME NEW x \in Workers, task'[x] # Idle, task'[x].refund \notin overtaken'
                 PROVE  refund'[task'[x].refund].status = "processing"
      BY DEF OnProcessing
    <3>1. CASE x = w
      BY <2>1, <2>2, <3>1
    <3>2. CASE x # w /\ task[x].refund = r
      BY <2>1, <2>2, <3>2
    <3>3. CASE x # w /\ task[x].refund # r
      <4>1. task[x] # Idle /\ task[x].refund \notin overtaken /\ task[x].refund \in Refunds
        BY <2>2, <3>3, BusyTask DEF RefundInv
      <4>. QED  BY <2>1, <2>2, <3>3, <4>1 DEF OnProcessing
    <3>. QED  BY <3>1, <3>2, <3>3
  <2>. QED  BY <2>3, <2>4
<1>3. ASSUME NEW w \in Workers, NEW r \in Refunds, StartReconcile(w, r)
      PROVE  OnProcessing' /\ Final
  <2>1. /\ refund[r].status = "processing" /\ UNCHANGED <<refund, overtaken>>
        /\ task'[w].refund = r /\ \A x \in Workers \ {w} : task'[x] = task[x]
    BY <1>3 DEF StartReconcile, RefundInv, RefundTypeOK
  <2>. QED  BY <2>1 DEF OnProcessing
<1>4. ASSUME NEW w \in Workers, Submit(w) \/ Verify(w)
      PROVE  OnProcessing' /\ Final
  <2>1. /\ UNCHANGED <<refund, overtaken>> /\ task[w] # Idle
        /\ \E heard : task' = [task EXCEPT ![w].answer = heard]
    BY <1>4, IdleTask DEF Submit, Verify
  <2>2. /\ task'[w].refund = task[w].refund
        /\ \A x \in Workers \ {w} : task'[x] = task[x]
    BY <2>1, BusyTask DEF RefundInv, RefundTypeOK
  <2>. QED  BY <2>1, <2>2 DEF OnProcessing
<1>5. ASSUME NEW w \in Workers, Apply(w)
      PROVE  OnProcessing' /\ Final
  <2> DEFINE r == task[w].refund
             heard == task[w].answer
  <2>1. task[w] # Idle /\ task' = [task EXCEPT ![w] = Idle] /\ heard \in RefundAnswer
    BY <1>5, IdleTask DEF Apply, RefundAnswer
  <2>2. r \in Refunds /\ (r \notin overtaken => refund[r].status = "processing")
    BY <2>1, BusyTask DEF OnProcessing, RefundInv
  <2>3. /\ \A x \in Refunds \ {r} : refund'[x] = refund[x]
        /\ heard = "processing" => UNCHANGED refund
        /\ overtaken \subseteq overtaken'
        /\ heard # "processing" /\ CalledBesides(w, r) => r \in overtaken'
    BY <1>5, <2>2 DEF Apply, Mark, RefundInv, RefundTypeOK
  <2>4. task'[w] = Idle /\ \A x \in Workers \ {w} : task'[x] = task[x]
    BY <2>1 DEF RefundInv, RefundTypeOK
  <2>. HIDE DEF r, heard
  <2>5. Final
    BY <2>2, <2>3
  <2>6. OnProcessing'
    <3> SUFFICES ASSUME NEW x \in Workers, task'[x] # Idle, task'[x].refund \notin overtaken'
                 PROVE  refund'[task'[x].refund].status = "processing"
      BY DEF OnProcessing
    <3>1. x # w /\ task'[x] = task[x] /\ task[x] # Idle /\ task[x].refund \notin overtaken
      BY <2>3, <2>4
    <3>2. refund[task[x].refund].status = "processing" /\ task[x].refund \in Refunds
      BY <3>1, BusyTask DEF OnProcessing, RefundInv
    <3>3. CASE task[x].refund = r
      <4>1. CalledBesides(w, r)
        BY <3>1, <3>3 DEF CalledBesides
      <4>. QED  BY <2>3, <3>1, <3>2, <3>3, <4>1
    <3>4. CASE task[x].refund # r
      BY <2>3, <3>1, <3>2, <3>4
    <3>. QED  BY <3>3, <3>4
  <2>. QED  BY <2>5, <2>6
<1>6. ASSUME NEW w \in Workers, Crash(w)
      PROVE  OnProcessing' /\ Final
  <2>1. /\ UNCHANGED <<refund, overtaken>> /\ task'[w] = Idle
        /\ \A x \in Workers \ {w} : task'[x] = task[x]
    BY <1>6 DEF Crash, RefundInv, RefundTypeOK
  <2>. QED  BY <2>1 DEF OnProcessing
<1>7. CASE (\E r \in Refunds : RemoteSettle(r)) \/ UNCHANGED refundVars
  BY <1>7 DEF RemoteSettle, refundVars, OnProcessing
<1>. QED
  BY <1>1, <1>2, <1>3, <1>4, <1>5, <1>6, <1>7 DEF RefundNext

\* A completed refund is never touched again, for any number of workers, unless
\* it was completed while another call about it was under way: nothing takes it
\* up afterwards, and only a call that is under way already writes to it.
THEOREM CompletedFinal == RefundSpec => CompletedIsFinal
<1> DEFINE A == \A r \in Refunds \ overtaken :
                   refund[r].status = "completed" => refund'[r] = refund[r]
<1>1. RefundInit => OnProcessing
  BY DEF RefundInit, OnProcessing
<1>2. RefundInv /\ OnProcessing /\ [RefundNext]_refundVars => OnProcessing' /\ A
  BY LateCallStep
<1>. HIDE DEF A
<1>3. RefundSpec => [][A]_refundVars
  BY <1>1, <1>2, RefundInvariance, PTL DEF RefundSpec
<1>. QED  BY <1>3 DEF A, CompletedIsFinal

-------------------------------------------------------------------------------
(* What the refunds reserve *)

\* The weights of Total.
Claims == [r \in Refunds |-> refund[r].amount]
Reserved == ReservedIn(Refunds \ overtaken)

\* Claims are natural numbers, and those of any refunds have a sum.
LEMMA ClaimsType ==
    ASSUME RefundTypeOK
    PROVE  /\ \A r \in Refunds : Claims[r] \in Nat
           /\ \A S \in SUBSET Refunds : IsFiniteSet(S) /\ Total(S) \in Nat
<1>1. \A r \in Refunds : Claims[r] \in Nat
  BY RefundsAssumption DEF RefundsAssumption, RefundTypeOK, Refund, Claims
<1>2. ASSUME NEW S \in SUBSET Refunds
      PROVE  IsFiniteSet(S) /\ Total(S) \in Nat
  <2>1. IsFiniteSet(S)
    BY RefundsAssumption, FS_Subset DEF RefundsAssumption
  <2> DEFINE c == Claims
  <2>2. \A r \in S : c[r] \in Nat
    BY <1>1
  <2>. HIDE DEF c
  <2>3. SumFunctionOnSet(c, S) \in Nat
    BY <2>1, <2>2, SumNat
  <2>. QED  BY <2>1, <2>3 DEF c, Claims, Total
<1>. QED  BY <1>1, <1>2

\* A refund of S takes its own amount out of the total of S.
LEMMA TotalOfOne ==
    ASSUME RefundTypeOK, NEW S \in SUBSET Refunds, NEW r \in S
    PROVE  Total(S) = refund[r].amount + Total(S \ {r})
<1>1. IsFiniteSet(S) /\ \A x \in S : Claims[x] \in Int
  BY ClaimsType
<1> DEFINE c == Claims
<1>2. \A x \in S : c[x] \in Int
  BY <1>1
<1>. HIDE DEF c
<1>3. SumFunctionOnSet(c, S) = c[r] + SumFunctionOnSet(c, S \ {r})
  BY <1>1, <1>2, SumRemove
<1>. QED  BY <1>3 DEF c, Claims, Total

\* Rows whose amounts a step leaves alone have the same total after it.
LEMMA TotalStays ==
    ASSUME RefundTypeOK, NEW S \in SUBSET Refunds,
           \A r \in S : refund'[r].amount = refund[r].amount
    PROVE  SumFunctionOnSet(Claims', S) = Total(S)
<1> DEFINE c == Claims
           d == Claims'
<1>1. IsFiniteSet(S)
  BY ClaimsType
<1>2. \A r \in S : d[r] = c[r]
  BY DEF Claims
<1>. HIDE DEF c, d
<1>3. SumFunctionOnSet(d, S) = SumFunctionOnSet(c, S)
  BY <1>1, <1>2, SumAgrees
<1>. QED  BY <1>3 DEF c, d, Claims, Total

\* A step that reserves r anew stays within the payment if the balance covered
\* what r claims beside the others.
LEMMA ReserveStep ==
    ASSUME RefundTypeOK, RefundTypeOK', NEW r \in Refunds,
           \A x \in Refunds \ {r} : refund'[x] = refund[x],
           refund'[r].status \in RESERVED_STATUSES,
           refund'[r].amount <= Balance(Refunds \ {r})
    PROVE  ReservedWithinPayment'
<1> DEFINE S == ReservedIn(Refunds \ {r})
           T == Reserved'
           a == refund'[r].amount
<1>1. S \in SUBSET Refunds /\ T \ {r} \in SUBSET S /\ T \in SUBSET Refunds
  BY DEF Reserved, ReservedIn
<1>2. SumFunctionOnSet(Claims', T \ {r}) = Total(T \ {r}) /\ Total(T \ {r}) <= Total(S)
  <2>1. \A x \in T \ {r} : refund'[x].amount = refund[x].amount
    BY <1>1
  <2>2. IsFiniteSet(S) /\ \A x \in S : Claims[x] \in Nat
    BY <1>1, ClaimsType
  <2>. HIDE DEF S, T
  <2>3. T \ {r} \in SUBSET Refunds
    BY <1>1
  <2>4. SumFunctionOnSet(Claims', T \ {r}) = Total(T \ {r})
    BY <2>1, <2>3, TotalStays
  <2>5. Total(T \ {r}) <= Total(S)
    <3> DEFINE c == Claims
    <3>1. \A x \in S : c[x] \in Nat
      BY <2>2
    <3>. HIDE DEF c
    <3>2. SumFunctionOnSet(c, T \ {r}) <= SumFunctionOnSet(c, S)
      BY <1>1, <2>2, <3>1, SumSubset
    <3>. QED  BY <3>2 DEF c, Claims, Total
  <2>. QED  BY <2>4, <2>5
<1>3. r \in T => SumFunctionOnSet(Claims', T) = a + SumFunctionOnSet(Claims', T \ {r})
  <2> DEFINE d == Claims'
  <2> SUFFICES ASSUME r \in T
               PROVE  SumFunctionOnSet(Claims', T) = a + SumFunctionOnSet(Claims', T \ {r})
    OBVIOUS
  <2>1. IsFiniteSet(T) /\ \A x \in T : d[x] \in Int
    BY <1>1, RefundsAssumption, FS_Subset
       DEF RefundsAssumption, RefundTypeOK, Refund, Claims
  <2>2. d[r] = a
    BY DEF Claims
  <2>. HIDE DEF d, T, a
  <2>3. SumFunctionOnSet(d, T) = d[r] + SumFunctionOnSet(d, T \ {r})
    BY <1>1, <2>1, SumRemove
  <2>. QED  BY <2>2, <2>3 DEF d
<1>4. /\ a <= Amount - Total(S) /\ Total(S) \in Nat /\ a \in Nat
      /\ Total(T \ {r}) \in Nat
  <2>1. a \in Nat
    BY RefundsAssumption DEF RefundsAssumption, RefundTypeOK, Refund
  <2>2. T \ {r} \in SUBSET Refunds
    BY <1>1
  <2>3. Total(T \ {r}) \in Nat
    <3>. HIDE DEF T
    <3>. QED  BY <2>2, ClaimsType
  <2>. QED  BY <1>1, <2>1, <2>3, ClaimsType DEF Balance
<1>5. SumFunctionOnSet(Claims', T) <= Amount
  <2>1. Amount \in Nat
    BY RefundsAssumption DEF RefundsAssumption
  <2>. HIDE DEF S, a
  <2>2. CASE r \in T
    <3>. HIDE DEF T
    <3>. QED  BY <1>2, <1>3, <1>4, <2>1, <2>2
  <2>3. CASE r \notin T
    <3>1. T \ {r} = T
      BY <2>3
    <3>. HIDE DEF T
    <3>. QED  BY <1>2, <1>4, <2>1, <3>1
  <2>. QED  BY <2>2, <2>3
<1>. QED  BY <1>5 DEF Reserved, ReservedWithinPayment, Total, Claims

\* A step that opens no refund and changes no amount reserves no more.
LEMMA KeepStep ==
    ASSUME RefundTypeOK, ReservedWithinPayment, Reserved' \in SUBSET Reserved,
           \A x \in Refunds : refund'[x].amount = refund[x].amount,
           NEW r \in Refunds, Reserved \in SUBSET (Reserved' \cup {r})
    PROVE  ReservedWithinPayment'
<1> DEFINE S == Reserved
           T == Reserved'
<1>1. S \in SUBSET Refunds /\ T \in SUBSET Refunds
  BY DEF Reserved, ReservedIn
<1>2. SumFunctionOnSet(Claims', T) = Total(T)
  <2>. HIDE DEF T
  <2>. QED  BY <1>1, TotalStays
<1>3. Total(S) <= Amount
  BY DEF Reserved, ReservedWithinPayment
<1>4. CASE T = S
  BY <1>2, <1>3, <1>4 DEF Reserved, ReservedWithinPayment, Total, Claims
<1>5. CASE T # S
  <2>1. r \in S /\ T = S \ {r}
    BY <1>5
  <2>2. refund[r].amount \in Nat
    BY RefundsAssumption DEF RefundsAssumption, RefundTypeOK, Refund
  <2>. HIDE DEF S, T
  <2>3. Total(S) = refund[r].amount + Total(T)
    BY <1>1, <2>1, TotalOfOne
  <2>4. Total(T) \in Nat /\ Amount \in Nat
    BY <1>1, ClaimsType, RefundsAssumption DEF RefundsAssumption
  <2>5. SumFunctionOnSet(Claims', T) <= Amount
    BY <1>2, <1>3, <2>2, <2>3, <2>4
  <2>. QED  BY <2>5 DEF T, Reserved, ReservedWithinPayment, Total, Claims
<1>. QED  BY <1>4, <1>5

\* Requests and retries are covered by the balance; an answer is applied to a
\* refund that was reserved already, or was overtaken.
LEMMA ReserveNext ==
    ASSUME RefundInv, RefundInv', OnProcessing, ReservedWithinPayment,
           [RefundNext]_refundVars
    PROVE  ReservedWithinPayment'
<1>1. RefundTypeOK /\ RefundTypeOK'
  BY DEF RefundInv
<1>2. ASSUME NEW r \in Refunds, NEW amount \in 1 .. Amount, Request(r, amount)
      PROVE  ReservedWithinPayment'
  <2>1. /\ refund[r].status = "absent" /\ amount <= Balance(Refunds)
        /\ refund'[r].status = "requested" /\ refund'[r].amount = amount
        /\ \A x \in Refunds \ {r} : refund'[x] = refund[x]
    BY <1>1, <1>2 DEF Request, RefundTypeOK
  <2>2. ReservedIn(Refunds) = ReservedIn(Refunds \ {r})
    BY <2>1 DEF ReservedIn, RESERVED_STATUSES
  <2>3. refund'[r].status \in RESERVED_STATUSES
    BY <2>1 DEF RESERVED_STATUSES
  <2>. QED  BY <1>1, <2>1, <2>2, <2>3, ReserveStep DEF Balance
<1>3. ASSUME NEW w \in Workers, NEW r \in Refunds, Start(w, r)
      PROVE  ReservedWithinPayment'
  <2>1. /\ refund[r].amount <= Balance(Refunds \ {r})
        /\ refund' = [refund EXCEPT ![r].status = "processing"]
    BY <1>3 DEF Start, Mark
  <2>2. /\ refund'[r].amount = refund[r].amount
        /\ refund'[r].status \in RESERVED_STATUSES
        /\ \A x \in Refunds \ {r} : refund'[x] = refund[x]
    BY <1>1, <2>1 DEF RefundTypeOK, Refund, RESERVED_STATUSES
  <2>. QED  BY <1>1, <2>1, <2>2, ReserveStep
<1>4. ASSUME NEW w \in Workers, Apply(w)
      PROVE  ReservedWithinPayment'
  <2> DEFINE r == task[w].refund
             heard == task[w].answer
  <2>1. heard \in RefundAnswer /\ task[w] # Idle
    BY <1>4, IdleTask DEF Apply, RefundAnswer
  <2>2. r \in Refunds /\ (r \notin overtaken => refund[r].status = "processing")
    BY <2>1, BusyTask DEF OnProcessing, RefundInv
  <2>3. /\ IF heard = "processing" THEN UNCHANGED refund
                                    ELSE refund' = [refund EXCEPT ![r].status = heard]
        /\ overtaken \subseteq overtaken' /\ overtaken' \subseteq overtaken \cup {r}
    BY <1>4 DEF Apply, Mark
  <2>4. /\ \A x \in Refunds : refund'[x].amount = refund[x].amount
        /\ \A x \in Refunds \ {r} : refund'[x] = refund[x]
    BY <1>1, <2>2, <2>3 DEF RefundTypeOK, Refund
  <2>. HIDE DEF r
  <2>5. Reserved' \in SUBSET Reserved /\ Reserved \in SUBSET (Reserved' \cup {r})
    BY <2>2, <2>3, <2>4 DEF Reserved, ReservedIn, RESERVED_STATUSES
  <2>. QED  BY <1>1, <2>2, <2>4, <2>5, KeepStep
<1>5. CASE UNCHANGED <<refund, overtaken>>
  BY <1>5 DEF ReservedWithinPayment, ReservedIn, Total
<1>6. ASSUME NEW w \in Workers, NEW r \in Refunds, StartReconcile(w, r)
      PROVE  UNCHANGED <<refund, overtaken>>
  BY <1>6 DEF StartReconcile
<1>7. ASSUME NEW w \in Workers, Submit(w) \/ Verify(w) \/ Crash(w)
      PROVE  UNCHANGED <<refund, overtaken>>
  BY <1>7 DEF Submit, Verify, Crash
<1>8. ASSUME NEW r \in Refunds, RemoteSettle(r)
      PROVE  UNCHANGED <<refund, overtaken>>
  BY <1>8 DEF RemoteSettle
<1>. QED
  BY <1>2, <1>3, <1>4, <1>5, <1>6, <1>7, <1>8 DEF RefundNext, refundVars

\* The refunds of a payment never claim more than was captured, whatever number
\* of workers, requests, failures, retries and answers, but for a refund given
\* an outcome while another call about it was under way.
THEOREM ReservedWithin == RefundSpec => []ReservedWithinPayment
<1>1. RefundInit => OnProcessing
  BY DEF RefundInit, OnProcessing
<1>2. RefundInit => ReservedWithinPayment
  <2> SUFFICES ASSUME RefundInit PROVE ReservedWithinPayment
    OBVIOUS
  <2>1. ReservedIn(Refunds \ overtaken) = {}
    BY DEF RefundInit, ReservedIn, RESERVED_STATUSES
  <2>2. Total({}) = 0
    <3> DEFINE c == Claims
    <3>. HIDE DEF c
    <3>1. SumFunctionOnSet(c, {}) = 0
      BY SumEmpty
    <3>. QED  BY <3>1 DEF c, Claims, Total
  <2>. QED  BY <2>1, <2>2, RefundsAssumption DEF RefundsAssumption, ReservedWithinPayment
<1>3. RefundInv /\ OnProcessing /\ [RefundNext]_refundVars => OnProcessing'
  BY LateCallStep
<1>4. RefundInv /\ RefundInv' /\ OnProcessing /\ ReservedWithinPayment /\ [RefundNext]_refundVars
        => ReservedWithinPayment'
  BY ReserveNext
<1>. QED  BY <1>1, <1>2, <1>3, <1>4, RefundInvariance, PTL DEF RefundSpec

-------------------------------------------------------------------------------
(* Callbacks: what a call is about *)

\* A call names a payment or none, whatever was sent.
LEMMA CallPayments ==
    \A call \in Calls \cup MockCalls : call.payment \in Payments \cup {None}
<1>1. \A t : \A body \in Body : \A payload \in parse_webhook(t, body) :
         payload.payment \in Payments
  BY DEF parse_webhook, _parse_json_body, _parse_form_body, Body
<1>2. \A call \in Calls : call.payment \in Payments \cup {None}
  BY <1>1 DEF Calls, Unreadable, ReadCalls, extract_payment_id
<1>3. \A call \in MockCalls : call.payment \in Payments \cup {None}
  BY DEF MockCalls, Unreadable
<1>. QED  BY <1>2, <1>3

\* An answer that makes the provider call again leaves status and events alone,
\* whatever went wrong and wherever.
THEOREM RetriesHeard == CallbackSpec => RetriesAreHeard
<1>1. [CallbackNext]_callbackVars
        => [answer' = "error" => UNCHANGED <<row, events>>]_callbackVars
  <2> SUFFICES ASSUME CallbackNext, answer' = "error"
               PROVE  UNCHANGED <<row, events>>
    OBVIOUS
  <2>1. ~RestartServer
    BY DEF RestartServer, Silence
  <2>2. ASSUME NEW p \in Payments
        PROVE  /\ ~OpenSession(p) /\ ~CommitInitialize(p) /\ ~RollBackInitialize(p)
               /\ \A how : ~Settle(p, how)
               /\ ~RefreshCompletes(p) /\ ~RefreshFails(p) /\ ~RefreshWaits(p)
               /\ ~MockConfirm(p)
    BY DEF OpenSession, CommitInitialize, RollBackInitialize, Settle, RefreshCompletes,
           RefreshFails, RefreshWaits, Refresh, MockConfirm, Silence
  <2>3. PICK call : Deliver(call)
    BY <2>1, <2>2 DEF CallbackNext
  <2>4. /\ ~Ignore(call) /\ ~Duplicate(call) /\ ~Unknown(call) /\ ~AlreadyProcessed(call)
        /\ ~Complete(call) /\ ~Fail(call) /\ ~StillPending(call)
    BY DEF Ignore, Duplicate, Unknown, AlreadyProcessed, Complete, Fail, StillPending,
           Answer200
  <2>. QED  BY <2>3, <2>4 DEF Deliver, TurnAway, Reject, RollBack, CompletionRaises
<1>. QED  BY <1>1, PTL DEF CallbackSpec, RetriesAreHeard

-------------------------------------------------------------------------------
(* Events, lines and statuses *)

\* A payment that has been opened has a session, the mock's where the mock works.
SessionsOf(p) ==
    /\ row[p] \in RowStatus
    /\ row[p] # "absent" => session[p] # "none"
    /\ session[p] # "none" => (session[p] = "mock" <=> server.provider = "mock")

Lines(p) == {l \in audit : l.payment = p}
Noted(p) == \E e \in events : e.payment = p

\* What EvidenceIsKept says of one payment.
Story(p) ==
    /\ Says(p, "webhook_received") # {} <=> Noted(p)
    /\ Known(p) <=> Says(p, "initialization_succeeded") # {}
    /\ session[p] # "mock" =>
          (row[p] = "completed" <=>
              \E l \in Says(p, "webhook_validated") \cup Says(p, "payment_confirmed") :
                  l.says = "completed" /\ Says(p, "duplicate_payment_detected") = {})
    /\ row[p] = "refund_required" <=> Says(p, "duplicate_payment_detected") # {}
    /\ row[p] = "failed" =>
          \E l \in Says(p, "webhook_validated") \cup Says(p, "payment_failed") : l.says = "failed"
    /\ ~Known(p) => Lines(p) = {}

CallbackInv ==
    /\ row \in [Payments -> RowStatus] /\ DOMAIN session = Payments
    /\ \A p \in Payments : SessionsOf(p) /\ Story(p)

\* CallbackInv is enough.
LEMMA StoriesAreEvidence == CallbackInv => EvidenceIsKept
  BY DEF CallbackInv, Story, EvidenceIsKept, Lines, Noted

\* A payment a step does not touch keeps its story.
LEMMA StoryKept ==
    ASSUME NEW q \in Payments, Story(q), row'[q] = row[q], session'[q] = session[q],
           Lines(q)' = Lines(q), Noted(q)' <=> Noted(q)
    PROVE  Story(q)'
<1>1. \A t : Says(q, t) = {l \in Lines(q) : l.event_type = t}
  BY DEF Says, Lines
<1>2. \A t : Says(q, t)' = {l \in Lines(q)' : l.event_type = t}
  BY DEF Says, Lines
<1>3. \A t : Says(q, t)' = Says(q, t)
  BY <1>1, <1>2
<1>. QED  BY <1>3 DEF Story, Known

\* A step that writes about p only, and keeps its session and the server's
\* adapter, keeps CallbackInv if it keeps the story of p.
LEMMA OneStory ==
    ASSUME CallbackInv, NEW p \in Payments, UNCHANGED <<session, server>>,
           NEW st \in RowStatus, row' = [row EXCEPT ![p] = st],
           row[p] = "absent" => st = "absent",
           \A q \in Payments \ {p} : Lines(q)' = Lines(q) /\ (Noted(q)' <=> Noted(q)),
           Story(p)'
    PROVE  CallbackInv'
<1>1. row' \in [Payments -> RowStatus] /\ row'[p] = st
      /\ \A q \in Payments \ {p} : row'[q] = row[q]
  BY DEF CallbackInv
<1>2. \A q \in Payments : SessionsOf(q)'
  BY <1>1 DEF CallbackInv, SessionsOf
<1>3. ASSUME NEW q \in Payments \ {p} PROVE Story(q)'
  <2>1. Story(q)
    BY DEF CallbackInv
  <2>. QED  BY <1>1, <2>1, StoryKept
<1>. QED  BY <1>1, <1>2, <1>3 DEF CallbackInv

\* The lines a step records about p.
LEMMA RecordedLines ==
    ASSUME NEW p \in Payments, NEW lines, Record(lines), \A l \in lines : l.payment = p
    PROVE  /\ \A q \in Payments \ {p} : Lines(q)' = Lines(q)
           /\ Lines(p)' = Lines(p) \cup lines
           /\ \A t : Says(p, t)' = Says(p, t) \cup {l \in lines : l.event_type = t}
  BY DEF Record, Lines, Says

\* The event a step registers for p.
LEMMA RegisteredEvent ==
    ASSUME NEW p \in Payments, NEW call, Register(call, p)
    PROVE  Noted(p)' /\ \A q \in Payments \ {p} : Noted(q)' <=> Noted(q)
<1> DEFINE e == [key |-> call.key, payment |-> p]
<1>1. e.payment = p /\ events' = events \cup {e}
  BY DEF Register
<1>. HIDE DEF e
<1>2. \A q : Noted(q)' <=> (Noted(q) \/ q = p)
  BY <1>1 DEF Noted
<1>. QED  BY <1>2

\* The fields of a line.
LEMMA LineFields ==
    ASSUME NEW p, NEW t, NEW s
    PROVE  Line(p, t, s).payment = p /\ Line(p, t, s).event_type = t /\ Line(p, t, s).says = s
  BY DEF Line

\* The lines of a call that is received, and of one that is validated besides.
LEMMA WebhookLines ==
    ASSUME NEW p, NEW says
    PROVE  /\ \A l \in ReceivedLine(p) : l.payment = p /\ l.event_type = "webhook_received"
           /\ \E l \in ReceivedLine(p) : l.event_type = "webhook_received"
           /\ LET said == ReceivedLine(p) \cup {Line(p, "webhook_validated", says)}
              IN  /\ \A l \in said :
                        /\ l.payment = p
                        /\ \/ l.event_type = "webhook_received"
                           \/ l.event_type = "webhook_validated" /\ l.says = says
                  /\ \E l \in said : l.event_type = "webhook_received"
                  /\ \E l \in said : l.event_type = "webhook_validated" /\ l.says = says
<1>1. PICK none : ReceivedLine(p) = {Line(p, "webhook_received", none)}
  BY Zenon DEF ReceivedLine
<1>. QED  BY <1>1, LineFields

\* What the order makes of a completed payment.
LEMMA OutcomeKinds ==
    ASSUME NEW p \in Payments, NEW outcome \in Outcomes(p)
    PROVE  \/ /\ outcome[1] = "refund_required"
              /\ outcome[2] = {Line(p, "duplicate_payment_detected", "refund_required")}
           \/ /\ outcome[1] = "completed"
              /\ outcome[2] \subseteq {Line(p, "late_payment", "completed"),
                                       Line(p, "fulfillment_failed", "completed")}
<1> DEFINE again == {Line(p, "duplicate_payment_detected", "refund_required")}
           late == {Line(p, "late_payment", "completed")}
           short == {Line(p, "fulfillment_failed", "completed")}
<1>1. outcome \in {<<"refund_required", again>>, <<"completed", {}>>, <<"completed", late>>,
                   <<"completed", short>>}
  BY DEF Outcomes
<1>2. late \cup short = {Line(p, "late_payment", "completed"),
                         Line(p, "fulfillment_failed", "completed")}
  OBVIOUS
<1>. HIDE DEF again, late, short
<1>3. \/ outcome[1] = "refund_required" /\ outcome[2] = again
      \/ outcome[1] = "completed" /\ outcome[2] \subseteq late \cup short
  BY <1>1
<1>. QED  BY <1>2, <1>3 DEF again

\* The payment that is confirmed by a call or a poll gets the line that says so, and
\* the one that was paid twice another.
LEMMA CompletionStory ==
    ASSUME CallbackInv, NEW p \in Payments, Known(p), row[p] \notin Processed,
           UNCHANGED <<session, server>>, NEW outcome \in Outcomes(p), NEW said,
           row' = [row EXCEPT ![p] = outcome[1]], Record(said \cup outcome[2]),
           \A l \in said : /\ l.payment = p
                           /\ l.event_type \in {"webhook_received", "webhook_validated",
                                                "payment_confirmed"},
           session[p] # "mock" /\ outcome[1] = "completed" =>
              \E l \in said : /\ l.event_type \in {"webhook_validated", "payment_confirmed"}
                              /\ l.says = "completed",
           \/ Noted(p)' /\ \E l \in said : l.event_type = "webhook_received"
           \/ (Noted(p)' <=> Noted(p)) /\ \A l \in said : l.event_type # "webhook_received",
           \A q \in Payments \ {p} : Noted(q)' <=> Noted(q)
    PROVE  CallbackInv'
<1> DEFINE lines == said \cup outcome[2]
<1>0. Story(p) /\ row \in [Payments -> RowStatus]
  BY DEF CallbackInv
<1>1. \/ /\ outcome[1] = "refund_required"
         /\ outcome[2] = {Line(p, "duplicate_payment_detected", "refund_required")}
      \/ /\ outcome[1] = "completed"
         /\ outcome[2] \subseteq {Line(p, "late_payment", "completed"),
                                  Line(p, "fulfillment_failed", "completed")}
  BY OutcomeKinds
<1>2. \A l \in lines : l.payment = p
  BY <1>1, LineFields
<1>3. /\ \A q \in Payments \ {p} : Lines(q)' = Lines(q)
      /\ Lines(p)' = Lines(p) \cup lines
      /\ \A t : Says(p, t)' = Says(p, t) \cup {l \in lines : l.event_type = t}
  <2>1. Record(lines)
    OBVIOUS
  <2>. HIDE DEF lines
  <2>. QED  BY <1>2, <2>1, RecordedLines
<1>4. row'[p] = outcome[1] /\ outcome[1] \in Processed /\ Known(p)'
  BY <1>0, <1>1 DEF Processed, Known
<1>5. \A l \in outcome[2] :
         l.event_type \in {"duplicate_payment_detected", "late_payment", "fulfillment_failed"}
  BY <1>1, LineFields
<1>6. Says(p, "webhook_received")' # {} <=> Noted(p)'
  <2>1. Says(p, "webhook_received")' =
           Says(p, "webhook_received") \cup {l \in said : l.event_type = "webhook_received"}
    BY <1>3, <1>5
  <2>. QED  BY <1>0, <2>1 DEF Story
<1>7. Says(p, "initialization_succeeded")' # {}
  BY <1>0, <1>3 DEF Story
<1>8. Says(p, "duplicate_payment_detected") = {}
  BY <1>0 DEF Story, Processed
<1>9. Says(p, "duplicate_payment_detected")' # {} <=> outcome[1] = "refund_required"
  <2>1. Says(p, "duplicate_payment_detected")' =
           {l \in outcome[2] : l.event_type = "duplicate_payment_detected"}
    BY <1>3, <1>8
  <2>. QED  BY <1>1, <2>1, LineFields
<1>10. session'[p] # "mock" /\ outcome[1] = "completed" =>
          \E l \in Says(p, "webhook_validated")' \cup Says(p, "payment_confirmed")' :
              l.says = "completed"
  BY <1>3
<1>11. Story(p)'
  BY <1>1, <1>4, <1>6, <1>7, <1>9, <1>10 DEF Story
<1>12. outcome[1] \in RowStatus /\ row[p] # "absent"
  BY <1>4 DEF RowStatus, Known
<1>. QED  BY <1>3, <1>11, <1>12, OneStory

\* A step that writes lines about p that are not evidence of any status.
LEMMA PlainStory ==
    ASSUME CallbackInv, NEW p \in Payments, Known(p), UNCHANGED <<session, server>>,
           NEW st \in {"processing", "failed", row[p]}, row[p] \notin Processed \/ st = row[p],
           row' = [row EXCEPT ![p] = st], NEW said, Record(said),
           \A l \in said : /\ l.payment = p
                           /\ \/ l.event_type \in {"webhook_received", "webhook_rejected"}
                              \/ /\ l.event_type \in {"webhook_validated", "payment_failed"}
                                 /\ l.says = "failed",
           st = "failed" => \/ row[p] = "failed"
                            \/ \E l \in said :
                                 /\ l.event_type \in {"webhook_validated", "payment_failed"}
                                 /\ l.says = "failed",
           \/ Noted(p)' /\ \E l \in said : l.event_type = "webhook_received"
           \/ (Noted(p)' <=> Noted(p)) /\ \A l \in said : l.event_type # "webhook_received",
           \A q \in Payments \ {p} : Noted(q)' <=> Noted(q)
    PROVE  CallbackInv'
<1>0. Story(p) /\ row \in [Payments -> RowStatus]
  BY DEF CallbackInv
<1>1. /\ \A q \in Payments \ {p} : Lines(q)' = Lines(q)
      /\ Lines(p)' = Lines(p) \cup said
      /\ \A t : Says(p, t)' = Says(p, t) \cup {l \in said : l.event_type = t}
  BY RecordedLines
<1>2. /\ row'[p] = st /\ Known(p)' /\ row[p] # "absent" /\ st \in RowStatus
      /\ (st = "completed" <=> row[p] = "completed")
      /\ (st = "refund_required" <=> row[p] = "refund_required")
  BY <1>0 DEF Known, Processed, Unprocessed, RowStatus
<1>3. Says(p, "webhook_received")' # {} <=> Noted(p)'
  BY <1>0, <1>1 DEF Story
<1>4. Says(p, "initialization_succeeded")' # {}
  BY <1>0, <1>1 DEF Story
<1>5. Says(p, "duplicate_payment_detected")' = Says(p, "duplicate_payment_detected")
  <2>1. \A l \in said : l.event_type # "duplicate_payment_detected"
    OBVIOUS
  <2>2. {l \in said : l.event_type = "duplicate_payment_detected"} = {}
    BY <2>1
  <2>. QED  BY <1>1, <2>2
<1>6. (\E l \in Says(p, "webhook_validated")' \cup Says(p, "payment_confirmed")' :
              l.says = "completed")
        <=> \E l \in Says(p, "webhook_validated") \cup Says(p, "payment_confirmed") :
              l.says = "completed"
  <2>1. \A l \in said : l.event_type \in {"webhook_validated", "payment_confirmed"} =>
                           l.says # "completed"
    OBVIOUS
  <2>. QED  BY <1>1, <2>1
<1>7. row'[p] = "failed" =>
        \E l \in Says(p, "webhook_validated")' \cup Says(p, "payment_failed")' : l.says = "failed"
  <2>1. CASE row[p] = "failed"
    BY <1>0, <1>1, <2>1 DEF Story
  <2>2. CASE st = "failed" /\ row[p] # "failed"
    BY <1>1, <2>2
  <2>. QED  BY <1>2, <2>1, <2>2
<1>8. session'[p] # "mock" =>
        (row'[p] = "completed" <=>
           \E l \in Says(p, "webhook_validated")' \cup Says(p, "payment_confirmed")' :
              l.says = "completed" /\ Says(p, "duplicate_payment_detected")' = {})
  <2>1. session[p] # "mock" =>
          (row[p] = "completed" <=>
             \E l \in Says(p, "webhook_validated") \cup Says(p, "payment_confirmed") :
                l.says = "completed" /\ Says(p, "duplicate_payment_detected") = {})
    BY <1>0 DEF Story
  <2>. QED  BY <1>2, <1>5, <1>6, <2>1
<1>9. row'[p] = "refund_required" <=> Says(p, "duplicate_payment_detected")' # {}
  BY <1>0, <1>2, <1>5 DEF Story
<1>10. Story(p)'
  BY <1>2, <1>3, <1>4, <1>7, <1>8, <1>9 DEF Story
<1>. QED  BY <1>1, <1>2, <1>10, OneStory

\* Nothing is written.
LEMMA NothingWritten ==
    ASSUME CallbackInv, UNCHANGED <<row, session, audit, server>>,
           \A q \in Payments : Noted(q)' <=> Noted(q)
    PROVE  CallbackInv'
<1>1. ASSUME NEW q \in Payments PROVE Story(q)' /\ SessionsOf(q)'
  <2>1. Lines(q)' = Lines(q) /\ Story(q) /\ SessionsOf(q)
    BY DEF Lines, CallbackInv
  <2>. QED  BY <2>1, StoryKept DEF SessionsOf
<1>. QED  BY <1>1 DEF CallbackInv


\* Each step of the initialization, the customer, a poll and the mock keeps CallbackInv.
LEMMA PaymentSteps ==
    ASSUME CallbackInv, NEW p \in Payments,
           \/ OpenSession(p) \/ CommitInitialize(p) \/ RollBackInitialize(p)
           \/ \E how \in Settlements : Settle(p, how)
           \/ RefreshCompletes(p) \/ RefreshFails(p) \/ RefreshWaits(p)
           \/ MockConfirm(p)
    PROVE  CallbackInv'
<1>0. /\ Story(p) /\ SessionsOf(p) /\ row \in [Payments -> RowStatus]
      /\ DOMAIN session = Payments
  BY DEF CallbackInv
<1>1. UNCHANGED <<events, server>> /\ \A q \in Payments : Noted(q)' <=> Noted(q)
  BY DEF OpenSession, CommitInitialize, RollBackInitialize, Settle, RefreshCompletes,
         RefreshFails, RefreshWaits, Refresh, MockConfirm, deployVars, Noted
<1>2. CASE OpenSession(p)
  <2>1. /\ row[p] = "absent" /\ session[p] = "none" /\ UNCHANGED audit
        /\ row' = [row EXCEPT ![p] = "opened"]
        /\ session' = [session EXCEPT ![p] = IF MockOpens THEN "mock" ELSE "open"]
    BY <1>2 DEF OpenSession
  <2>2. /\ row' \in [Payments -> RowStatus] /\ DOMAIN session' = Payments
        /\ row'[p] = "opened" /\ session'[p] = (IF MockOpens THEN "mock" ELSE "open")
        /\ \A q \in Payments \ {p} : row'[q] = row[q] /\ session'[q] = session[q]
    BY <1>0, <2>1 DEF RowStatus
  <2>3. MockOpens <=> server.provider = "mock"
    BY <1>2 DEF OpenSession, MockOpens, get_payment_provider, Configured
  <2>4. SessionsOf(p)' /\ \A q \in Payments \ {p} : SessionsOf(q)'
    BY <1>1, <2>2, <2>3 DEF SessionsOf, CallbackInv, RowStatus
  <2>5. Lines(p) = {} /\ Lines(p)' = {} /\ \A q \in Payments : Lines(q)' = Lines(q)
    BY <1>0, <2>1 DEF Story, Known, Lines
  <2>6. \A t : Says(p, t) = {} /\ Says(p, t)' = {}
    BY <2>5 DEF Lines, Says
  <2>7. Story(p)'
    BY <1>0, <1>1, <2>1, <2>2, <2>5, <2>6 DEF Story, Known
  <2>8. ASSUME NEW q \in Payments \ {p} PROVE Story(q)'
    BY <1>1, <2>2, <2>5, StoryKept DEF CallbackInv
  <2>. QED  BY <2>2, <2>4, <2>7, <2>8 DEF CallbackInv
<1>3. CASE CommitInitialize(p)
  <2> DEFINE lines == {Line(p, "initialization_requested", "initializing"),
                       Line(p, "initialization_succeeded", "redirect_required")}
  <2>1. /\ row[p] = "opened" /\ row' = [row EXCEPT ![p] = "redirect_required"]
        /\ Record(lines) /\ UNCHANGED <<session, server>>
    BY <1>3 DEF CommitInitialize, deployVars
  <2>2. /\ \A l \in lines : /\ l.payment = p
                            /\ l.event_type \in {"initialization_requested",
                                                 "initialization_succeeded"}
        /\ \E l \in lines : l.event_type = "initialization_succeeded"
    BY LineFields
  <2>. HIDE DEF lines
  <2>3. /\ \A q \in Payments \ {p} : Lines(q)' = Lines(q)
        /\ \A t : Says(p, t)' = Says(p, t) \cup {l \in lines : l.event_type = t}
    BY <2>1, <2>2, RecordedLines
  <2>4. Lines(p) = {} /\ \A t : Says(p, t) = {}
    BY <1>0, <2>1 DEF Story, Known, Lines, Says
  <2>5. /\ Says(p, "webhook_received")' = {} /\ Says(p, "webhook_validated")' = {}
        /\ Says(p, "payment_confirmed")' = {} /\ Says(p, "duplicate_payment_detected")' = {}
        /\ Says(p, "initialization_succeeded")' # {}
    BY <2>2, <2>3, <2>4
  <2>6. row'[p] = "redirect_required" /\ Known(p)'
    BY <1>0, <2>1 DEF Known
  <2>7. Story(p)'
    BY <1>0, <1>1, <2>1, <2>4, <2>5, <2>6 DEF Story
  <2>. QED  BY <1>1, <2>1, <2>3, <2>7, OneStory DEF RowStatus, Unprocessed
<1>4. CASE RollBackInitialize(p)
  <2>1. /\ row[p] = "opened" /\ row' = [row EXCEPT ![p] = "absent"]
        /\ UNCHANGED <<session, server, audit>>
    BY <1>4 DEF RollBackInitialize, deployVars
  <2>2. \A q \in Payments : Lines(q)' = Lines(q)
    BY <2>1 DEF Lines
  <2>3. Lines(p) = {} /\ \A t : Says(p, t) = {} /\ Says(p, t)' = {}
    BY <1>0, <2>1 DEF Story, Known, Lines, Says
  <2>4. row'[p] = "absent"
    BY <1>0, <2>1
  <2>5. Story(p)'
    BY <1>0, <1>1, <2>1, <2>2, <2>3, <2>4 DEF Story, Known
  <2>. QED  BY <1>1, <2>1, <2>2, <2>5, OneStory DEF RowStatus
<1>5. ASSUME NEW how \in Settlements, Settle(p, how)
      PROVE  CallbackInv'
  <2>1. /\ session[p] = "open" /\ session' = [session EXCEPT ![p] = how]
        /\ UNCHANGED <<row, audit>>
    BY <1>5 DEF Settle
  <2>2. /\ DOMAIN session' = Payments /\ session'[p] = how /\ how # "mock" /\ how # "none"
        /\ \A q \in Payments \ {p} : session'[q] = session[q]
    BY <1>0, <2>1 DEF Settlements
  <2>3. \A q \in Payments : Lines(q)' = Lines(q) /\ \A t : Says(q, t)' = Says(q, t)
    BY <2>1 DEF Lines, Says
  <2>4. Story(p)'
    BY <1>0, <1>1, <2>1, <2>2, <2>3 DEF Story, Known
  <2>5. ASSUME NEW q \in Payments \ {p} PROVE Story(q)'
    BY <1>1, <2>1, <2>2, <2>3, StoryKept DEF CallbackInv
  <2>6. SessionsOf(p)' /\ \A q \in Payments \ {p} : SessionsOf(q)'
    BY <1>0, <1>1, <2>1, <2>2 DEF SessionsOf, CallbackInv
  <2>. QED  BY <1>0, <2>1, <2>2, <2>4, <2>5, <2>6 DEF CallbackInv
<1>6. CASE RefreshCompletes(p)
  <2>1. PICK outcome \in Outcomes(p) :
           /\ row' = [row EXCEPT ![p] = outcome[1]]
           /\ Record(outcome[2] \cup {Line(p, "payment_confirmed", "completed") :
                                      q \in {s \in {"completed"} : s = outcome[1]}})
    BY <1>6 DEF RefreshCompletes
  <2> DEFINE said == {Line(p, "payment_confirmed", "completed") :
                         q \in {s \in {"completed"} : s = outcome[1]}}
  <2>2. /\ \A l \in said : l.payment = p /\ l.event_type = "payment_confirmed"
        /\ outcome[1] = "completed" =>
              \E l \in said : l.event_type = "payment_confirmed" /\ l.says = "completed"
    BY LineFields
  <2>3. Record(said \cup outcome[2])
    BY <2>1 DEF Record
  <2>. HIDE DEF said
  <2>4. Known(p) /\ row[p] \notin Processed /\ UNCHANGED <<session, server>>
    BY <1>6 DEF RefreshCompletes, Refresh, deployVars
  <2>. QED  BY <1>1, <2>1, <2>2, <2>3, <2>4, CompletionStory
<1>7. CASE RefreshFails(p)
  <2> DEFINE said == {Line(p, "payment_failed", "failed")}
  <2>1. /\ Known(p) /\ row[p] \notin Processed /\ UNCHANGED <<session, server>>
        /\ row' = [row EXCEPT ![p] = "failed"] /\ Record(said)
    BY <1>7 DEF RefreshFails, Refresh, deployVars
  <2>2. /\ \A l \in said : l.payment = p /\ l.event_type = "payment_failed" /\ l.says = "failed"
        /\ \E l \in said : l.event_type = "payment_failed" /\ l.says = "failed"
    BY LineFields
  <2>. HIDE DEF said
  <2>. QED  BY <1>1, <2>1, <2>2, PlainStory
<1>8. CASE RefreshWaits(p)
  <2>1. /\ Known(p) /\ row[p] \notin Processed /\ UNCHANGED <<session, server>>
        /\ row' = [row EXCEPT ![p] = "processing"] /\ Record({})
    BY <1>8 DEF RefreshWaits, Refresh, deployVars, Record
  <2>. QED  BY <1>1, <2>1, PlainStory
<1>9. CASE MockConfirm(p)
  <2>1. PICK outcome \in Outcomes(p) :
           row' = [row EXCEPT ![p] = outcome[1]] /\ Record(outcome[2])
    BY <1>9 DEF MockConfirm, confirm_payment
  <2>2. /\ Known(p) /\ row[p] \notin Processed /\ UNCHANGED <<session, server>>
        /\ server.provider = "mock"
    BY <1>9 DEF MockConfirm, confirm_payment, deployVars
  <2>3. session[p] = "mock"
    BY <1>0, <2>2 DEF SessionsOf, Known
  <2> DEFINE said == {}
  <2>4. Record(said \cup outcome[2]) /\ \A l \in said : FALSE
    BY <2>1 DEF Record
  <2>. HIDE DEF said
  <2>. QED  BY <1>1, <2>1, <2>2, <2>3, <2>4, CompletionStory
<1>. QED  BY <1>2, <1>3, <1>4, <1>5, <1>6, <1>7, <1>8, <1>9

\* So does each call of the provider.
LEMMA CallSteps ==
    ASSUME CallbackInv, NEW call \in Calls \cup MockCalls, Deliver(call)
    PROVE  CallbackInv'
<1> DEFINE p == call.payment
<1>0. /\ p \in Payments \cup {None} /\ None \notin Payments
      /\ row \in [Payments -> RowStatus]
  BY CallPayments, CallbackAssumption DEF CallbackAssumption, CallbackInv
<1>1. UNCHANGED <<session, server>>
  BY DEF Deliver, TurnAway, Ignore, Reject, Duplicate, Unknown, AlreadyProcessed, RollBack,
         Complete, CompletionRaises, Fail, StillPending, Confirming, Admitted, Receive, deployVars
<1>2. CASE \/ TurnAway \/ Ignore(call) \/ Duplicate(call) \/ RollBack(call)
           \/ CompletionRaises(call)
  <2>1. UNCHANGED <<row, audit, events>>
    BY <1>2 DEF TurnAway, Ignore, Duplicate, RollBack, CompletionRaises
  <2>2. \A q \in Payments : Noted(q)' <=> Noted(q)
    BY <2>1 DEF Noted
  <2>. QED  BY <1>1, <2>1, <2>2, NothingWritten
<1>3. CASE Unknown(call)
  <2>1. UNCHANGED <<row, audit>> /\ Register(call, None)
    BY <1>3 DEF Unknown
  <2> DEFINE e == [key |-> call.key, payment |-> None]
  <2>2. events' = events \cup {e} /\ e.payment = None
    BY <2>1 DEF Register
  <2>. HIDE DEF e
  <2>3. \A q \in Payments : Noted(q)' <=> Noted(q)
    BY <1>0, <2>2 DEF Noted
  <2>. QED  BY <1>1, <2>1, <2>3, NothingWritten
<1>4. CASE Reject(call)
  <2> DEFINE said == {Line(q, "webhook_rejected", "authentication") :
                         q \in {x \in Payments : x = call.payment /\ Known(x)}}
  <2>1. UNCHANGED <<row, events>> /\ Record(said)
    BY <1>4 DEF Reject
  <2>2. \A q \in Payments : Noted(q)' <=> Noted(q)
    BY <2>1 DEF Noted
  <2>3. CASE p \in Payments /\ Known(p)
    <3>1. \A l \in said : l.payment = p /\ l.event_type = "webhook_rejected"
      BY LineFields
    <3>2. row' = [row EXCEPT ![p] = row[p]]
      BY <1>0, <2>1, <2>3
    <3>. HIDE DEF said, p
    <3>. QED  BY <1>1, <2>1, <2>2, <2>3, <3>1, <3>2, PlainStory DEF CallbackInv
  <2>4. CASE ~(p \in Payments /\ Known(p))
    <3>1. said = {}
      BY <2>4
    <3>2. UNCHANGED audit
      BY <2>1, <3>1 DEF Record
    <3>. QED  BY <1>1, <2>1, <2>2, <3>2, NothingWritten
  <2>. QED  BY <2>3, <2>4
<1>5. CASE AlreadyProcessed(call) \/ StillPending(call)
  <2>1. /\ Known(p) /\ p \in Payments /\ UNCHANGED row /\ Register(call, p)
        /\ Record(ReceivedLine(p))
    BY <1>0, <1>5 DEF AlreadyProcessed, StillPending, Confirming, Admitted
  <2>2. Noted(p)' /\ \A q \in Payments \ {p} : Noted(q)' <=> Noted(q)
    BY <2>1, RegisteredEvent
  <2>3. /\ \A l \in ReceivedLine(p) : l.payment = p /\ l.event_type = "webhook_received"
        /\ \E l \in ReceivedLine(p) : l.event_type = "webhook_received"
    BY WebhookLines
  <2>4. row' = [row EXCEPT ![p] = row[p]]
    BY <1>0, <2>1
  <2>. HIDE DEF p
  <2>. QED  BY <1>1, <2>1, <2>2, <2>3, <2>4, PlainStory
<1>6. CASE Fail(call)
  <2> DEFINE said == ReceivedLine(p) \cup {Line(p, "webhook_validated", "failed")}
  <2>1. /\ Known(p) /\ p \in Payments /\ row[p] \notin Processed
        /\ row' = [row EXCEPT ![p] = "failed"] /\ Register(call, p) /\ Record(said)
    BY <1>0, <1>6 DEF Fail, Confirming, Admitted
  <2>2. Noted(p)' /\ \A q \in Payments \ {p} : Noted(q)' <=> Noted(q)
    BY <2>1, RegisteredEvent
  <2>3. /\ \A l \in said : /\ l.payment = p
                           /\ \/ l.event_type = "webhook_received"
                              \/ l.event_type = "webhook_validated" /\ l.says = "failed"
        /\ \E l \in said : l.event_type = "webhook_received"
        /\ \E l \in said : l.event_type = "webhook_validated" /\ l.says = "failed"
    BY WebhookLines
  <2>. HIDE DEF said, p
  <2>. QED  BY <1>1, <2>1, <2>2, <2>3, PlainStory
<1>7. CASE Complete(call)
  <2> DEFINE said == ReceivedLine(p) \cup {Line(p, "webhook_validated", "completed")}
  <2>1. PICK outcome \in Outcomes(p) :
            row' = [row EXCEPT ![p] = outcome[1]] /\ Record(said \cup outcome[2])
    BY <1>7 DEF Complete
  <2>2. Known(p) /\ p \in Payments /\ row[p] \notin Processed /\ Register(call, p)
    BY <1>0, <1>7 DEF Complete, Confirming, Admitted
  <2>3. Noted(p)' /\ \A q \in Payments \ {p} : Noted(q)' <=> Noted(q)
    BY <2>2, RegisteredEvent
  <2>4. /\ \A l \in said : /\ l.payment = p
                           /\ l.event_type \in {"webhook_received", "webhook_validated"}
        /\ \E l \in said : l.event_type = "webhook_received"
        /\ \E l \in said : l.event_type = "webhook_validated" /\ l.says = "completed"
    BY WebhookLines
  <2>. HIDE DEF said, p
  <2>. QED  BY <1>1, <2>1, <2>2, <2>3, <2>4, CompletionStory
<1>. QED  BY <1>2, <1>3, <1>4, <1>5, <1>6, <1>7 DEF Deliver

\* A restart undoes what was under way, of which there are no lines yet.
LEMMA RestartStep ==
    ASSUME CallbackInv, RestartServer
    PROVE  CallbackInv'
<1>1. /\ UNCHANGED <<session, events, audit>>
      /\ row' = [p \in Payments |-> IF row[p] = "opened" THEN "absent" ELSE row[p]]
      /\ SameDatabase
  BY DEF RestartServer
<1>2. row' \in [Payments -> RowStatus] /\ DOMAIN session' = Payments
  BY <1>1 DEF CallbackInv, RowStatus
<1>3. ASSUME NEW p \in Payments PROVE SessionsOf(p)' /\ Story(p)'
  <2>1. SessionsOf(p) /\ Story(p)
    BY DEF CallbackInv
  <2>2. SessionsOf(p)'
    BY <1>1, <1>2, <2>1 DEF SessionsOf, SameDatabase, RowStatus
  <2>3. Lines(p)' = Lines(p) /\ (\A t : Says(p, t)' = Says(p, t)) /\ (Noted(p)' <=> Noted(p))
    BY <1>1 DEF Lines, Says, Noted
  <2>4. Known(p)' <=> Known(p)
    BY <1>1 DEF Known
  <2>. QED  BY <1>1, <2>1, <2>2, <2>3, <2>4 DEF Story
<1>. QED  BY <1>2, <1>3 DEF CallbackInv

\* However calls, polls, restarts and the mock's confirmation interleave, and
\* whatever is rolled back with them, the events, the audit lines and the
\* statuses of the payments tell one story.
THEOREM EvidenceKept == CallbackSpec => []EvidenceIsKept
<1>1. CallbackInit => CallbackInv
  <2> SUFFICES ASSUME CallbackInit, NEW p \in Payments
               PROVE  CallbackInit => SessionsOf(p) /\ Story(p) /\ row[p] \in RowStatus
    BY DEF CallbackInit, CallbackInv, RowStatus
  <2>. QED  BY DEF CallbackInit, SessionsOf, Story, Says, Lines, Noted, Known, RowStatus
<1>2. CallbackInv /\ [CallbackNext]_callbackVars => CallbackInv'
  <2> SUFFICES ASSUME CallbackInv, [CallbackNext]_callbackVars PROVE CallbackInv'
    OBVIOUS
  <2>1. CASE UNCHANGED callbackVars
    <3>1. UNCHANGED <<row, session, audit, server, events>>
      BY <2>1 DEF callbackVars, deployVars
    <3>. QED  BY <3>1, NothingWritten DEF Noted
  <2>. QED  BY <2>1, PaymentSteps, CallSteps, RestartStep DEF CallbackNext
<1>. QED  BY <1>1, <1>2, StoriesAreEvidence, PTL DEF CallbackSpec

-------------------------------------------------------------------------------
(* The environment a server reads *)

\* The entries of an environment that decide who is heard.  Where the settings
\* module is left unsaid, all others are the example's.
LEMMA EnvironmentEntries ==
    ASSUME NEW e \in Environments
    PROVE  /\ e.ALLOWED_IPS \in {"unset", "malformed", "caller", "elsewhere"}
           /\ e.DJANGO_SETTINGS_MODULE = "unset" =>
                 e.ALLOWED_IPS = "unset" /\ e.SIGNATURE_REQUIRED = "unset"
<1>1. {"ALLOWED_IPS", "SIGNATURE_REQUIRED", "DJANGO_SETTINGS_MODULE", "PAYMENT_PROVIDER"}
         \subseteq Names
  BY DEF Names, Raw
<1>2. Raw["ALLOWED_IPS"] = {"unset", "malformed", "caller", "elsewhere"}
  BY DEF Raw
<1>3. /\ DOMAIN Example = Names
      /\ Example["ALLOWED_IPS"] = "unset" /\ Example["SIGNATURE_REQUIRED"] = "unset"
      /\ Example["DJANGO_SETTINGS_MODULE"] = "production"
  BY <1>1 DEF Example
<1>4. CASE e = Developer
  BY <1>1, <1>3, <1>4 DEF Developer
<1>5. ASSUME NEW name \in Names, NEW raw \in Raw[name], e = [Example EXCEPT ![name] = raw]
      PROVE  /\ e.ALLOWED_IPS \in {"unset", "malformed", "caller", "elsewhere"}
             /\ e.DJANGO_SETTINGS_MODULE = "unset" =>
                   e.ALLOWED_IPS = "unset" /\ e.SIGNATURE_REQUIRED = "unset"
  <2>1. \A n \in Names : e[n] = IF n = name THEN raw ELSE Example[n]
    BY <1>3, <1>5
  <2>. QED  BY <1>1, <1>2, <1>3, <1>5, <2>1
<1>6. e = Developer \/ \E name \in Names : \E raw \in Raw[name] : e = [Example EXCEPT ![name] = raw]
  BY Zenon DEF Environments
<1>. QED  BY <1>4, <1>5, <1>6

\* A server that reads an environment manage.py check accepted.
LEMMA CheckedBoot ==
    ASSUME NEW e \in Environments, Check(e), Boot(e).provider = "ligdicash"
    PROVE  authenticate(Boot(e)) \/ Boot(e).allowed = "elsewhere"
<1> DEFINE m == WebModule(e)
           s == Settings(m, e)
<1>1. Boot(e) = s
  <2>1. Boot(e) # Down
    BY DEF Down
  <2>. QED  BY <2>1 DEF Boot
<1>2. /\ s.provider = "ligdicash"
      /\ s.allowed = env_optional(e.ALLOWED_IPS, "everyone")
      /\ s.signature <=> env_bool(e.SIGNATURE_REQUIRED, "false") = "true"
  BY <1>1 DEF Settings
<1>3. /\ e.ALLOWED_IPS \in {"unset", "malformed", "caller", "elsewhere"}
      /\ e.DJANGO_SETTINGS_MODULE = "unset" =>
            e.ALLOWED_IPS = "unset" /\ e.SIGNATURE_REQUIRED = "unset"
  BY EnvironmentEntries
<1>4. s.allowed \in {"everyone", "malformed", "caller", "elsewhere"}
  BY <1>2, <1>3 DEF env_optional
<1>5. CASE e.DJANGO_SETTINGS_MODULE = "unset"
  <2>1. s.allowed = "everyone" /\ ~s.signature
    BY <1>2, <1>3, <1>5 DEF env_optional, env_bool
  <2>. QED  BY <1>1, <2>1 DEF authenticate, _validate_source_ip
<1>6. CASE e.DJANGO_SETTINGS_MODULE # "unset"
  <2>1. ManageModule(e) = m
    BY <1>6 DEF ManageModule, WebModule, env_optional
  <2>2. payment_configuration_check(s)
    BY <2>1 DEF Check
  <2>. HIDE DEF s, m
  <2>3. s.allowed # "malformed" /\ ~s.signature
    BY <1>2, <2>2 DEF payment_configuration_check, webhook_signature_supported
  <2>. QED  BY <1>1, <1>4, <2>3 DEF authenticate, _validate_source_ip
<1>. QED  BY <1>5, <1>6

\* Whatever one entry of the environment an operator got wrong: if the check
\* accepted it, nothing but an allow-list of other addresses makes the server
\* that read it turn a call of the provider down.
THEOREM CheckedServerHears == CallbackSpec => []CheckedServersListen
<1>1. CallbackInit => CheckedServersListen
  BY DEF CallbackInit, DeployInit, CheckedServersListen
<1>2. CheckedServersListen /\ [CallbackNext]_callbackVars => CheckedServersListen'
  <2>1. CASE UNCHANGED deployVars
    BY <2>1 DEF CheckedServersListen, deployVars, authenticate, _validate_source_ip
  <2>2. CASE RestartServer
    <3>1. PICK d \in Deployments : server' = d.server /\ vetted' = (d.vetted /\ Running(d.server))
      BY <2>2 DEF RestartServer, Deploy
    <3>2. CASE ~d.vetted
      BY <3>1, <3>2 DEF CheckedServersListen
    <3>3. CASE d.vetted
      <4>1. PICK e \in Environments : Check(e) /\ d.server = Boot(e)
        BY <3>3 DEF Deployments
      <4>. QED  BY <3>1, <4>1, CheckedBoot DEF CheckedServersListen
    <3>. QED  BY <3>2, <3>3
  <2>3. ASSUME NEW p \in Payments,
               \/ OpenSession(p) \/ CommitInitialize(p) \/ RollBackInitialize(p)
               \/ \E how \in Settlements : Settle(p, how)
               \/ RefreshCompletes(p) \/ RefreshFails(p) \/ RefreshWaits(p)
               \/ MockConfirm(p)
        PROVE  UNCHANGED deployVars
    BY <2>3 DEF OpenSession, CommitInitialize, RollBackInitialize, Settle, RefreshCompletes,
                RefreshFails, RefreshWaits, Refresh, MockConfirm
  <2>4. ASSUME NEW call, Deliver(call) PROVE UNCHANGED deployVars
    BY <2>4 DEF Deliver, TurnAway, Ignore, Reject, Duplicate, Unknown, AlreadyProcessed,
                RollBack, Complete, CompletionRaises, Fail, StillPending, Confirming, Admitted,
                Receive
  <2>. QED  BY <2>1, <2>2, <2>3, <2>4 DEF CallbackNext, callbackVars
<1>. QED  BY <1>1, <1>2, PTL DEF CallbackSpec
===============================================================================
