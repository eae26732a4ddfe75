------------------------- MODULE AssessmentLifecycle -------------------------
(***************************************************************************)
(* The life of Submissions from their start to a scored or voided end: the *)
(* components Recording, FlagReview, Payments, Examining and Accounts over *)
(* the shared tables, the properties that make them correct together, and  *)
(* the promise they implement.                                             *)
(***************************************************************************)
EXTENDS Recording, Payments, Examining, Accounts

Next ==
  \/ RecordingNext
  \/ FlagReviewNext
  \/ PaymentsNext
  \/ ExaminingNext
  \/ AccountsNext
  \/ \E r \in Requests : RequestEnds(r)

Spec == Init /\ [][Next]_vars

(***************************************************************************)
(* Fairness.  server.ts runs the sweeper at an interval on every instance, *)
(* and time passes.  iPaymu repeats a notification until it is accepted.   *)
(* Nothing else is fair: students, Examiners and Admins may stop.          *)
(***************************************************************************)
Fairness ==
  /\ WF_vars(AbandonStaleSubmissions)
  /\ \A s \in Submissions : WF_vars(GraceElapses(s))
  /\ \A p \in Payments : WF_vars(NotifySuccess(p))

FairSpec == Spec /\ Fairness

-----------------------------------------------------------------------------
(* Where a Submission is. *)

\* It went past payment routing and is not voided.
IsRouted(s) ==
  \/ submission[s].status \in {"AWAITING_PAYMENT", "PAID", "SCORING", "SCORED"}
  \/ submission[s].status = "FLAG_REVIEW" /\ submission[s].returnTo = "SCORING"

\* Its Examiners were assigned and it is not voided.
IsExamined(s) ==
  \/ submission[s].status \in {"SCORING", "SCORED"}
  \/ submission[s].status = "FLAG_REVIEW" /\ submission[s].returnTo = "SCORING"

PaidAttempts(s) == {p \in Payments : payment[p].submission = s /\ payment[p].status = "PAID"}

-----------------------------------------------------------------------------
(* Invariants. *)

\* An open flag stops its Submission: once recording ended it is in FLAG_REVIEW
\* or abandoned, and FLAG_REVIEW is never left without a decision to make.
\* Completion, device flags, integrity concerns, dismissals and assignment all
\* read the open flags under the Submission lock.
OpenFlagStopsTheFlow ==
  \A s \in Submissions :
    /\ OpenFlags(s) # {} =>
         submission[s].status \in {"IN_PROGRESS", "ABANDONED", "FLAG_REVIEW"}
    /\ submission[s].status = "FLAG_REVIEW" => OpenFlags(s) # {}

\* A Submission is VOIDED exactly when one flag on it was confirmed, and a void
\* grants its student exactly one retake credit (confirmFlag).
VoidGrantsOneCredit ==
  \A s \in Submissions :
    LET confirmed == {f \in Flags : flag[f].submission = s /\ flag[f].resolution = "CONFIRMED"}
        granted == {c \in credits : c.voided = s}
    IN IF submission[s].status = "VOIDED"
         THEN /\ \E f \in Flags : confirmed = {f}
              /\ \E c \in CreditRow : granted = {c} /\ c.student = submission[s].owner
         ELSE confirmed = {} /\ granted = {}

\* A redeemed credit paid for one other Submission of the same student, which is
\* past routing and needs no payment; no Submission redeems two credits
\* (routeRecordedSubmission).
RedemptionPaysForOne ==
  /\ \A c \in credits :
       c.redeemedBy # None =>
         /\ c.redeemedBy # c.voided
         /\ submission[c.redeemedBy].owner = c.student
         /\ ~submission[c.redeemedBy].paymentRequired
         /\ IsRouted(c.redeemedBy) \/ submission[c.redeemedBy].status = "VOIDED"
  /\ \A c, d \in credits : c.redeemedBy = d.redeemedBy /\ c.redeemedBy # None => c = d

\* Nobody's Submission is scored unpaid: one that is assignment-ready or beyond
\* needs no payment or has a settled attempt, whatever callbacks, waivers,
\* dismissals and settings crossed on the way.
ServedIsSettled ==
  \A s \in Submissions :
    IsRouted(s) /\ submission[s].status # "AWAITING_PAYMENT" =>
      ~submission[s].paymentRequired \/ PaidAttempts(s) # {}

\* A Payment is PAID only when the provider collected the money, however its
\* notifications are ordered or repeated (processIpaymuNotification).
PaidMeansCollected ==
  \A p \in Payments : payment[p].status = "PAID" => provider[p] = "collected"

\* A Submission voided for a flag raised during the test was never charged: it
\* has no payment attempt, no waiver and no redeemed credit (the reason
\* completion sends flags to review before payment).
DeviceVoidIsNeverCharged ==
  \A f \in Flags :
    flag[f].source = "STUDENT_DEVICE" /\ flag[f].resolution = "CONFIRMED" =>
      LET s == flag[f].submission IN
      /\ \A p \in Payments : payment[p].submission # s
      /\ s \notin waived
      /\ \A c \in credits : c.redeemedBy # s

\* An assignment set is two distinct Examiners, neither of them the student, and
\* it exists exactly from the claim on (createExaminerAssignmentSet,
\* reassignment, account transitions).
ExaminersAreIndependent ==
  \A s \in Submissions :
    LET e == [k \in Slots |-> assignment[<<s, k>>].examiner] IN
    /\ e[1] # None => e[1] # e[2]
    /\ \A k \in Slots :
         /\ e[k] = None <=> assignment[<<s, k>>].status = "NONE"
         /\ e[k] # None => e[k] # submission[s].owner
         /\ IsExamined(s) => e[k] # None
         /\ e[k] # None => IsExamined(s) \/ submission[s].status = "VOIDED"

\* Open work is never stranded: unless its Submission is voided, the account it
\* belongs to is active and an EXAMINER or an ADMIN (transitionInsideTransaction).
OpenWorkHasCapableExaminer ==
  \A a \in Assignments :
    IsOpenWork(a) /\ submission[a[1]].status # "VOIDED" =>
      LET u == assignment[a].examiner IN
      u # None /\ active[u] /\ role[u] \in {"EXAMINER", "ADMIN"}

\* A Submission is SCORED exactly when both Examiners have completed with a
\* Score; while it is scored or its scoring is paused, one still works
\* (completeExaminerScoring).
ScoredByBoth ==
  \A s \in Submissions :
    /\ IsExamined(s) =>
         (submission[s].status = "SCORED" <=>
            \A k \in Slots : assignment[<<s, k>>].status = "COMPLETED")
    /\ \A k \in Slots :
         assignment[<<s, k>>].status = "COMPLETED" => assignment[<<s, k>>].score # None

\* FluentCheck always keeps an active administrator, though Admins demote and
\* deactivate each other.
AnAdminRemains == \E u \in Users : IsActiveAdmin(u)

-----------------------------------------------------------------------------
(* Action properties. *)

\* A completed assignment never changes: not its Score, not its Examiner.
CompletedIsFrozen ==
  [][\A a \in Assignments :
       assignment[a].status = "COMPLETED" => assignment'[a] = assignment[a]]_vars

\* Work an Examiner has begun, or left a Score on, stays with that Examiner.
BegunWorkStays ==
  [][\A a \in Assignments :
       assignment[a].status = "IN_PROGRESS" \/ assignment[a].score # None =>
         assignment'[a].examiner = assignment[a].examiner]_vars

\* While a flag is open neither Examiner can start, save or complete.
FlagPausesScoring ==
  [][\A a \in Assignments :
       OpenFlags(a[1]) # {} =>
         /\ assignment'[a].status = assignment[a].status
         /\ assignment'[a].score = assignment[a].score]_vars

\* A retake credit is never lost or spent twice: it stays until one Submission of
\* its student redeems it, and then for ever as that Submission's.
CreditIsSpentOnce ==
  [][\A c \in credits :
       \/ c \in credits'
       \/ /\ c.redeemedBy = None
          /\ \E s \in Submissions : [c EXCEPT !.redeemedBy = s] \in credits']_vars

\* A settled attempt is never overwritten by an older failure.
SettledStays ==
  [][\A p \in Payments : payment[p].status = "PAID" => payment'[p].status = "PAID"]_vars

-----------------------------------------------------------------------------
(* Liveness, under FairSpec. *)

\* An Assessment whose page is closed ends without anybody's help, even when the
\* page's own abandon request was lost (abandonStaleSubmissions).
LeftAssessmentEnds ==
  \A s \in Submissions :
    (submission[s].status = "IN_PROGRESS" /\ ~page[s].open)
      ~> submission[s].status # "IN_PROGRESS"

\* Money the provider collected is always recorded, and the Submission stops
\* waiting for it, even after a failure notification for the same attempt.
CollectedIsRecorded ==
  \A p \in Payments :
    provider[p] = "collected" ~>
      /\ payment[p].status = "PAID"
      /\ submission[payment[p].submission].status # "AWAITING_PAYMENT"

-----------------------------------------------------------------------------
(* The lifecycle implements the promise. *)

SP == INSTANCE SubmissionPromise WITH
  phase   <- [s \in Submissions |-> submission[s].status],
  concern <- {s \in Submissions : OpenFlags(s) # {}},
  granted <- {s \in Submissions : \E c \in credits : c.voided = s}

\* Whatever the components do is a step the promise allows, or none.
KeepsThePromise == SP!Promise

=============================================================================
