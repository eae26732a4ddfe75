------------------------------ MODULE Payments ------------------------------
(***************************************************************************)
(* Payment of a Submission: iPaymu checkout attempts and notifications     *)
(* (service/payment.service.ts), the Admin's waiver                        *)
(* (service/adminOps.service.ts) and the global payment setting            *)
(* (service/settings.service.ts).                                          *)
(*                                                                         *)
(* The provider is outside the repository.  It is modelled from how the    *)
(* code uses it: a request may reach it before or after the ten seconds    *)
(* the code waits, it opens a hosted session or refuses, a student may pay *)
(* an open session, and its notifications are lost, repeated, late and in  *)
(* any order.  A refusal means that no session exists.                     *)
(***************************************************************************)
EXTENDS AssessmentTables

payFrame == <<accountVars, answers, page, flagVars, assignment>>

\* Mutant: paymentRequired alone decides, whatever the status.
CheckoutInAnyStatus(p, s) ==
  /\ payment[p].status = "NONE"
  /\ submission[s].status # "NONE"
  /\ submission[s].paymentRequired
  /\ payment' = [payment EXCEPT ![p] =
       [submission |-> s, status |-> "PENDING", calling |-> TRUE]]
  /\ UNCHANGED <<payFrame, submission, provider, waived, paymentEnabled, request>>

\* PENDING row committed, then the HTTP call is outstanding.  Any number of
\* attempts may exist for one Submission.
CreateIpaymuCheckout(p, s) ==
  /\ payment[p].status = "NONE"
  /\ submission[s].status = "AWAITING_PAYMENT"
  /\ submission[s].paymentRequired
  /\ payment' = [payment EXCEPT ![p] =
       [submission |-> s, status |-> "PENDING", calling |-> TRUE]]
  /\ UNCHANGED <<payFrame, submission, provider, waived, paymentEnabled, request>>

\* The call is answered with a session, times out, or its process dies: the
\* attempt stays as it is.  The session id the code then stores is left out.
CheckoutReturns(p) ==
  /\ payment[p].calling
  /\ payment' = [payment EXCEPT ![p].calling = FALSE]
  /\ UNCHANGED <<payFrame, submission, provider, waived, paymentEnabled, request>>

\* A refusal that arrives in time fails the attempt, whatever its status.
CheckoutRejected(p) ==
  /\ payment[p].calling
  /\ provider[p] = "rejected"
  /\ payment' = [payment EXCEPT ![p].calling = FALSE, ![p].status = "FAILED"]
  /\ UNCHANGED <<payFrame, submission, provider, waived, paymentEnabled, request>>

\* Mutant: a failure is taken in any status.
NotifyFailedAlways(p) ==
  /\ provider[p] \in {"open", "collected"}
  /\ payment[p].status # "NONE"
  /\ payment' = [payment EXCEPT ![p].status = "FAILED"]
  /\ UNCHANGED <<payFrame, submission, provider, waived, paymentEnabled, request>>

\* A notification that the attempt failed or its session expired: only a
\* PENDING attempt takes it, since it may be older than a success.
NotifyFailed(p) ==
  /\ provider[p] \in {"open", "collected"}
  /\ payment[p].status = "PENDING"
  /\ payment' = [payment EXCEPT ![p].status = "FAILED"]
  /\ UNCHANGED <<payFrame, submission, provider, waived, paymentEnabled, request>>

\* verifyIpaymuTransaction: the provider's own record of the transaction, not
\* the notification, says that it is paid.
IsVerified(p) == provider[p] = "collected"

\* Mutant: only a PENDING attempt takes a success.
NotifySuccessWhilePending(p) ==
  LET s == payment[p].submission IN
  /\ payment[p].status = "PENDING"
  /\ IsVerified(p)
  /\ payment' = [payment EXCEPT ![p].status = "PAID"]
  /\ submission' = IF submission[s].status = "AWAITING_PAYMENT"
                     THEN [submission EXCEPT ![s].status = "PAID"]
                     ELSE submission
  /\ UNCHANGED <<payFrame, provider, waived, paymentEnabled, request>>

\* A success settles the attempt, and the Submission if it still waits for it.
NotifySuccess(p) ==
  LET s == payment[p].submission IN
  /\ payment[p].status \in {"PENDING", "FAILED"}
  /\ IsVerified(p)
  /\ payment' = [payment EXCEPT ![p].status = "PAID"]
  /\ submission' = IF submission[s].status = "AWAITING_PAYMENT"
                     THEN [submission EXCEPT ![s].status = "PAID"]
                     ELSE submission
  /\ UNCHANGED <<payFrame, provider, waived, paymentEnabled, request>>

-----------------------------------------------------------------------------
(* The provider. *)

\* The request reaches it, possibly after the code stopped waiting.
ProviderAnswers(p, answer) ==
  /\ payment[p].status # "NONE"
  /\ provider[p] = "unasked"
  /\ provider' = [provider EXCEPT ![p] = answer]
  /\ UNCHANGED <<payFrame, submission, payment, waived, paymentEnabled, request>>

\* The student pays on the hosted page.
ProviderCollects(p) ==
  /\ provider[p] = "open"
  /\ provider' = [provider EXCEPT ![p] = "collected"]
  /\ UNCHANGED <<payFrame, submission, payment, waived, paymentEnabled, request>>

-----------------------------------------------------------------------------
(* Waiver and setting. *)

\* assertActiveAdmin reads before the Submission row is locked.  A request for a
\* Submission that is past payment fails and ends (RequestEnds).
BeginWaiveSubmissionPayment(r, s, u) ==
  /\ request[r].op = "idle"
  /\ submission[s].status \in {"IN_PROGRESS", "FLAG_REVIEW", "AWAITING_PAYMENT"}
  /\ IsActiveAdmin(u)
  /\ request' = [request EXCEPT ![r] =
       [op |-> "waive", target |-> s, by |-> u, enabled |-> TRUE, stage |-> "ready"]]
  /\ UNCHANGED <<payFrame, submission, payVars, paymentEnabled>>

\* Mutant: the waiver leaves paymentRequired as it was.
WaiveKeepingRequirement(r) ==
  LET s == request[r].target IN
  /\ request[r].op = "waive"
  /\ submission[s].status = "AWAITING_PAYMENT"
  /\ waived' = waived \cup {s}
  /\ submission' = [submission EXCEPT ![s].status = "PAID"]
  /\ request' = [request EXCEPT ![r] = IdleRequest]
  /\ UNCHANGED <<payFrame, payment, provider, paymentEnabled>>

CommitWaiveSubmissionPayment(r) ==
  LET s == request[r].target IN
  /\ request[r].op = "waive"
  /\ submission[s].status = "AWAITING_PAYMENT"
  /\ waived' = waived \cup {s}
  /\ submission' = [submission EXCEPT ![s].paymentRequired = FALSE, ![s].status = "PAID"]
  /\ request' = [request EXCEPT ![r] = IdleRequest]
  /\ UNCHANGED <<payFrame, payment, provider, paymentEnabled>>

UpdatePaymentEnabled(enabled) ==
  /\ paymentEnabled' = enabled
  /\ UNCHANGED <<payFrame, submission, payVars, request>>

PaymentsNext ==
  \/ \E p \in Payments :
       \/ \E s \in Submissions : CreateIpaymuCheckout(p, s)
       \/ CheckoutReturns(p)
       \/ CheckoutRejected(p)
       \/ NotifyFailed(p)
       \/ NotifySuccess(p)
       \/ \E answer \in {"open", "rejected"} : ProviderAnswers(p, answer)
       \/ ProviderCollects(p)
  \/ \E r \in Requests, s \in Submissions, u \in Users :
       BeginWaiveSubmissionPayment(r, s, u)
  \/ \E r \in Requests : CommitWaiveSubmissionPayment(r)
  \/ \E enabled \in SettingValues : UpdatePaymentEnabled(enabled)
=============================================================================
