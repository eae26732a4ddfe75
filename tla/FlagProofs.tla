----------------------------- MODULE FlagProofs -----------------------------
(***************************************************************************)
(* The flag workflow, for every value of the constants: an open flag stops *)
(* its Submission, and FLAG_REVIEW always has a decision to make.          *)
(* OpenFlagStopsTheFlow is inductive together with TypeInv.                *)
(*                                                                         *)
(* Retake credits: a void makes one, a routing spends one, and no step      *)
(* takes one away (CreditInv).  Only the routing of a Submission redeems    *)
(* for it.                                                                 *)
(***************************************************************************)
EXTENDS AssessmentProofs

FlagInv == TypeInv /\ OpenFlagStopsTheFlow

\* A step that changes no flag and moves Submissions only between statuses an
\* open flag treats alike.
LEMMA FlagsStay ==
  ASSUME FlagInv, UNCHANGED flag,
         \A s \in Submissions :
           \/ submission'[s].status = submission[s].status
           \/ /\ submission[s].status = "NONE"
              /\ submission'[s].status = "IN_PROGRESS"
           \/ /\ submission[s].status = "IN_PROGRESS"
              /\ submission'[s].status = "ABANDONED"
           \/ /\ submission[s].status \in {"AWAITING_PAYMENT", "PAID", "SCORING"}
              /\ submission'[s].status \in {"AWAITING_PAYMENT", "PAID", "SCORING", "SCORED"}
           \/ /\ OpenFlags(s) = {}
              /\ submission'[s].status # "FLAG_REVIEW"
           \/ /\ OpenFlags(s) # {}
              /\ submission'[s].status = "FLAG_REVIEW"
  PROVE  OpenFlagStopsTheFlow'
  BY DEF FlagInv, OpenFlagStopsTheFlow, OpenFlags

\* A new flag on a Submission that is recording, or that is in review after it.
LEMMA FlagRaised ==
  ASSUME FlagInv, NEW f \in Flags, NEW s \in Submissions,
         NEW source \in {"STUDENT_DEVICE", "EXAMINER"}, CreateFlag(f, s, source),
         submission'[s].status \in {"IN_PROGRESS", "FLAG_REVIEW"},
         \A t \in Submissions \ {s} : submission'[t] = submission[t]
  PROVE  OpenFlagStopsTheFlow'
<1>1. flag \in [Flags -> FlagRow]
  BY DEF FlagInv, TypeInv, TypeOK
<1>2. f \in OpenFlags(s)'
  BY <1>1 DEF CreateFlag, OpenFlags
<1>3. ASSUME NEW t \in Submissions \ {s}
      PROVE  OpenFlags(t)' = OpenFlags(t)
  BY <1>1 DEF CreateFlag, OpenFlags
<1> QED
  BY <1>2, <1>3 DEF FlagInv, OpenFlagStopsTheFlow

LEMMA RecordingFlow == FlagInv /\ RecordingNext => OpenFlagStopsTheFlow'
<1> SUFFICES ASSUME FlagInv, RecordingNext PROVE OpenFlagStopsTheFlow'
  OBVIOUS
<1> USE DEF accountVars, flagVars, payVars
<1>0. submission \in [Submissions -> SubmissionRow]
  BY DEF FlagInv, TypeInv, TypeOK
<1>1. ASSUME NEW u \in Users, NEW s \in Submissions, StartAssessment(u, s)
      PROVE  OpenFlagStopsTheFlow'
  BY <1>0, <1>1, FlagsStay DEF StartAssessment, ActiveSubmissions, SubmissionRow
<1>2. ASSUME NEW s \in Submissions, NEW failed \in BOOLEAN, ConfirmLastUpload(s, failed)
      PROVE  OpenFlagStopsTheFlow'
  <2>1. CASE UNCHANGED flag
    BY <1>2, <2>1, FlagsStay DEF ConfirmLastUpload
  <2>2. CASE \E f \in Flags : CreateFlag(f, s, "STUDENT_DEVICE")
    BY <1>2, <2>2, FlagRaised DEF ConfirmLastUpload, OwnerMayRecord
  <2> QED
    BY <1>2, <2>1, <2>2 DEF ConfirmLastUpload
<1>3. ASSUME NEW s \in Submissions,
             ClosePage(s) \/ GraceElapses(s) \/ RecordSubmissionHeartbeat(s)
      PROVE  OpenFlagStopsTheFlow'
  BY <1>3, FlagsStay DEF ClosePage, GraceElapses, RecordSubmissionHeartbeat
<1>4. ASSUME NEW s \in Submissions, AbandonSubmission(s)
      PROVE  OpenFlagStopsTheFlow'
  BY <1>0, <1>4, FlagsStay DEF AbandonSubmission, OwnerMayRecord, SubmissionRow
<1>5. CASE AbandonStaleSubmissions
  BY <1>0, <1>5, FlagsStay DEF AbandonStaleSubmissions, IsStale, SubmissionRow
<1>6. ASSUME NEW r \in Requests, NEW s \in Submissions, BeginCompleteSubmission(r, s)
      PROVE  OpenFlagStopsTheFlow'
  BY <1>6, FlagsStay DEF BeginCompleteSubmission
<1>7. ASSUME NEW r \in Requests, CommitCompleteSubmission(r)
      PROVE  OpenFlagStopsTheFlow'
  <2> DEFINE s == request[r].target
  <2>1. s \in Submissions /\ UNCHANGED flag /\ TypeOK
    BY <1>7, RequestFields DEF CommitCompleteSubmission, FlagInv, TypeInv
  <2>2. CASE /\ OpenFlags(s) # {}
             /\ submission' = [submission EXCEPT ![s].status = "FLAG_REVIEW",
                                                 ![s].returnTo = None]
    BY <1>0, <2>1, <2>2, FlagsStay DEF SubmissionRow
  <2>3. CASE OpenFlags(s) = {} /\ RouteRecordedSubmission(r, s)
    BY <2>1, <2>3, RoutingTyped, FlagsStay
  <2> QED
    BY <1>7, <2>2, <2>3 DEF CommitCompleteSubmission
<1> QED
  BY <1>1, <1>2, <1>3, <1>4, <1>5, <1>6, <1>7 DEF RecordingNext

LEMMA ConfirmFlow ==
  ASSUME FlagInv, NEW r \in Requests, CommitConfirmFlag(r)
  PROVE  OpenFlagStopsTheFlow'
<1>1. PICK f \in Flags : f = request[r].target
  BY RequestFields DEF CommitConfirmFlag, FlagInv, TypeInv
<1>2. PICK s \in Submissions : s = flag[f].submission
  BY <1>1 DEF CommitConfirmFlag, IsReviewable, FlagInv, TypeInv, Linked
<1>3. /\ flag \in [Flags -> FlagRow]
      /\ submission \in [Submissions -> SubmissionRow]
  BY DEF FlagInv, TypeInv, TypeOK
<1>4. /\ flag' = [g \in Flags |->
           IF g \notin OpenFlags(s) THEN flag[g]
           ELSE [flag[g] EXCEPT
                   !.resolution = IF g = f THEN "CONFIRMED" ELSE "SUPERSEDED",
                   !.resolvedBy = request[r].by]]
      /\ submission' = [submission EXCEPT ![s].status = "VOIDED", ![s].returnTo = None]
  BY <1>1, <1>2 DEF CommitConfirmFlag
<1>5. submission'[s].status = "VOIDED"
  BY <1>2, <1>3, <1>4 DEF SubmissionRow
<1>6. \A t \in Submissions \ {s} : submission'[t] = submission[t]
  BY <1>3, <1>4
<1>7. ASSUME NEW g \in Flags
      PROVE  IF g \in OpenFlags(s) THEN g \notin OpenFlags(s)' ELSE flag'[g] = flag[g]
  BY <1>3, <1>4 DEF OpenFlags, FlagRow
<1>8. ASSUME NEW g \in OpenFlags(s)
      PROVE  flag'[g].resolution # "OPEN"
  <2>1. g \in Flags /\ flag[g] \in FlagRow
    BY <1>3 DEF OpenFlags
  <2> QED
    BY <1>4, <2>1 DEF FlagRow
<1>9. OpenFlags(s)' = {}
  BY <1>7, <1>8 DEF OpenFlags
<1>10. ASSUME NEW t \in Submissions \ {s}
       PROVE  OpenFlags(t)' = OpenFlags(t)
  BY <1>7, <1>8 DEF OpenFlags
<1> QED
  BY <1>5, <1>6, <1>9, <1>10 DEF FlagInv, OpenFlagStopsTheFlow

LEMMA DismissFlow ==
  ASSUME FlagInv, NEW r \in Requests, CommitDismissFlag(r)
  PROVE  OpenFlagStopsTheFlow'
<1>1. PICK f \in Flags : f = request[r].target
  BY RequestFields DEF CommitDismissFlag, FlagInv, TypeInv
<1>2. PICK s \in Submissions : s = flag[f].submission
  BY <1>1 DEF CommitDismissFlag, IsReviewable, FlagInv, TypeInv, Linked
<1>3. /\ TypeOK
      /\ flag \in [Flags -> FlagRow]
      /\ submission \in [Submissions -> SubmissionRow]
      /\ flag[f].resolution = "OPEN"
      /\ submission[s].status = "FLAG_REVIEW"
  BY <1>1, <1>2 DEF CommitDismissFlag, IsReviewable, FlagInv, TypeInv, TypeOK
<1>4. flag' = [flag EXCEPT ![f].resolution = "DISMISSED", ![f].resolvedBy = request[r].by]
  BY <1>1 DEF CommitDismissFlag
<1>5. /\ flag'[f].submission = s
      /\ flag'[f].resolution = "DISMISSED"
      /\ \A g \in Flags \ {f} : flag'[g] = flag[g]
  BY <1>2, <1>3, <1>4 DEF FlagRow
<1>6. OpenFlags(s)' = OpenFlags(s) \ {f}
  BY <1>5 DEF OpenFlags
<1>7. \A t \in Submissions \ {s} : OpenFlags(t)' = OpenFlags(t)
  BY <1>2, <1>5 DEF OpenFlags
<1>8. f \in OpenFlags(s)
  BY <1>2, <1>3 DEF OpenFlags
<1>9. CASE OpenFlags(s) # {f} /\ UNCHANGED submission
  BY <1>3, <1>6, <1>7, <1>8, <1>9 DEF FlagInv, OpenFlagStopsTheFlow
<1>10. CASE /\ OpenFlags(s) = {f}
            /\ submission[s].returnTo # None
            /\ submission' = [submission EXCEPT ![s].status = submission[s].returnTo,
                                                ![s].returnTo = None]
  <2>1. submission[s].returnTo = "SCORING"
    BY <1>2, <1>3, <1>10 DEF SubmissionRow
  <2>2. /\ submission'[s].status = "SCORING"
        /\ \A t \in Submissions \ {s} : submission'[t] = submission[t]
    BY <1>2, <1>3, <1>10, <2>1 DEF SubmissionRow
  <2> QED
    BY <1>6, <1>7, <1>10, <2>2 DEF FlagInv, OpenFlagStopsTheFlow
<1>11. CASE OpenFlags(s) = {f} /\ RouteRecordedSubmission(r, s)
  <2>1. /\ submission'[s].status \in {"PAID", "AWAITING_PAYMENT"}
        /\ \A t \in Submissions \ {s} : submission'[t] = submission[t]
    BY <1>3, <1>11, RoutingTyped
  <2> QED
    BY <1>6, <1>7, <1>11, <2>1 DEF FlagInv, OpenFlagStopsTheFlow
<1> QED
  BY <1>1, <1>2, <1>9, <1>10, <1>11 DEF CommitDismissFlag

LEMMA FlagReviewFlow == FlagInv /\ FlagReviewNext => OpenFlagStopsTheFlow'
<1> SUFFICES ASSUME FlagInv, FlagReviewNext PROVE OpenFlagStopsTheFlow'
  OBVIOUS
<1> USE DEF accountVars, flagVars, payVars
<1>1. ASSUME NEW s \in Submissions, NEW f \in Flags, RaiseDeviceFlag(s, f)
      PROVE  OpenFlagStopsTheFlow'
  BY <1>1, FlagRaised DEF RaiseDeviceFlag
<1>2. ASSUME NEW a \in Assignments, NEW f \in Flags, RaiseIntegrityConcern(a, f)
      PROVE  OpenFlagStopsTheFlow'
  <2>1. a[1] \in Submissions /\ submission \in [Submissions -> SubmissionRow]
    BY DEF Assignments, FlagInv, TypeInv, TypeOK
  <2>2. CreateFlag(f, a[1], "EXAMINER")
    BY <1>2 DEF RaiseIntegrityConcern
  <2>3. /\ submission'[a[1]].status = "FLAG_REVIEW"
        /\ \A t \in Submissions \ {a[1]} : submission'[t] = submission[t]
    BY <1>2, <2>1 DEF RaiseIntegrityConcern, SubmissionRow
  <2> QED
    BY <2>1, <2>2, <2>3, FlagRaised
<1>3. ASSUME NEW r \in Requests, NEW f \in Flags, NEW u \in Users,
             BeginConfirmFlag(r, f, u) \/ BeginDismissFlag(r, f, u)
      PROVE  OpenFlagStopsTheFlow'
  BY <1>3, FlagsStay DEF BeginConfirmFlag, BeginDismissFlag
<1>4. ASSUME NEW r \in Requests, CheckDismissingAdmin(r)
      PROVE  OpenFlagStopsTheFlow'
  BY <1>4, FlagsStay DEF CheckDismissingAdmin
<1> QED
  BY <1>1, <1>2, <1>3, <1>4, ConfirmFlow, DismissFlow DEF FlagReviewNext

LEMMA PaymentsFlow == FlagInv /\ PaymentsNext => OpenFlagStopsTheFlow'
<1> SUFFICES ASSUME FlagInv, PaymentsNext PROVE OpenFlagStopsTheFlow'
  OBVIOUS
<1> USE DEF accountVars, flagVars, payVars, payFrame
<1>0. submission \in [Submissions -> SubmissionRow]
  BY DEF FlagInv, TypeInv, TypeOK
<1>1. ASSUME NEW p \in Payments, NotifySuccess(p)
      PROVE  OpenFlagStopsTheFlow'
  BY <1>0, <1>1, FlagsStay DEF NotifySuccess, SubmissionRow
<1>2. ASSUME NEW r \in Requests, CommitWaiveSubmissionPayment(r)
      PROVE  OpenFlagStopsTheFlow'
  <2> DEFINE s == request[r].target
  <2>1. s \in Submissions
    BY <1>2, RequestFields DEF CommitWaiveSubmissionPayment, FlagInv, TypeInv
  <2>2. /\ submission[s].status = "AWAITING_PAYMENT"
        /\ submission' = [submission EXCEPT ![s].paymentRequired = FALSE, ![s].status = "PAID"]
        /\ UNCHANGED flag
    BY <1>2 DEF CommitWaiveSubmissionPayment
  <2> QED
    BY <1>0, <2>1, <2>2, FlagsStay DEF SubmissionRow
<1>3. CASE UNCHANGED <<submission, flag>>
  BY <1>3, FlagsStay
<1> QED
  BY <1>1, <1>2, <1>3
     DEF PaymentsNext, CreateIpaymuCheckout, CheckoutReturns, CheckoutRejected,
         NotifyFailed, ProviderAnswers, ProviderCollects, BeginWaiveSubmissionPayment,
         UpdatePaymentEnabled

LEMMA ExaminingFlow == FlagInv /\ ExaminingNext => OpenFlagStopsTheFlow'
<1> SUFFICES ASSUME FlagInv, ExaminingNext PROVE OpenFlagStopsTheFlow'
  OBVIOUS
<1> USE DEF accountVars, flagVars, payVars, examFrame
<1>0. submission \in [Submissions -> SubmissionRow]
  BY DEF FlagInv, TypeInv, TypeOK
<1>1. ASSUME NEW s \in Submissions, NEW e1 \in Users, NEW e2 \in Users,
             CreateExaminerAssignmentSet(s, e1, e2)
      PROVE  OpenFlagStopsTheFlow'
  BY <1>0, <1>1, FlagsStay DEF CreateExaminerAssignmentSet, SubmissionRow
<1>2. ASSUME NEW a \in Assignments, CompleteExaminerScoring(a)
      PROVE  OpenFlagStopsTheFlow'
  BY <1>0, <1>2, FlagsStay DEF CompleteExaminerScoring, IsScoringLifecycle, SubmissionRow
<1>3. CASE UNCHANGED <<submission, flag>>
  BY <1>3, FlagsStay
<1> QED
  BY <1>1, <1>2, <1>3
     DEF ExaminingNext, StartExaminerAssignment, SaveExaminerScore, ReassignExaminerAssignment

LEMMA FlagInitially == Init => FlagInv
<1>1. Init => OpenFlagStopsTheFlow
  BY DEF Init, OpenFlagStopsTheFlow, OpenFlags
<1> QED
  BY <1>1, InitTyped DEF FlagInv

LEMMA FlagInductive == FlagInv /\ [Next]_vars => FlagInv'
<1> SUFFICES ASSUME FlagInv, [Next]_vars PROVE OpenFlagStopsTheFlow'
  BY NextTyped DEF FlagInv
<1>1. CASE UNCHANGED <<submission, flag>>
  BY <1>1, FlagsStay
<1>2. CASE AccountsNext
  BY <1>1, <1>2 DEF AccountsNext, TransitionAccountRole, DeactivateAccount, Transition,
                    accountFrame, flagVars
<1>3. ASSUME NEW r \in Requests, RequestEnds(r)
      PROVE  UNCHANGED <<submission, flag>>
  BY <1>3 DEF RequestEnds, flagVars
<1>4. CASE UNCHANGED vars
  BY <1>1, <1>4 DEF vars
<1> QED
  BY <1>1, <1>2, <1>3, <1>4, RecordingFlow, FlagReviewFlow, PaymentsFlow, ExaminingFlow
     DEF Next

\* An open flag stops its Submission, however requests interleave.
THEOREM FlagsStopTheFlow == Spec => []OpenFlagStopsTheFlow
<1>1. FlagInv => OpenFlagStopsTheFlow
  BY DEF FlagInv
<1> QED
  BY <1>1, FlagInitially, FlagInductive, PTL DEF Spec

-----------------------------------------------------------------------------
(* How Submissions move, whatever component moves them. *)

\* A Submission that was never past payment routing.
NeverRouted(s) ==
  \/ submission[s].status \in {"NONE", "IN_PROGRESS", "ABANDONED"}
  \/ submission[s].status = "FLAG_REVIEW" /\ submission[s].returnTo = None

\* Its Examiners were assigned and it is in review.
InReviewOfScoring(s) ==
  submission[s].status = "FLAG_REVIEW" /\ submission[s].returnTo = "SCORING"

\* It is recording, or in review before it was ever routed.
AwaitsRouting(s) ==
  \/ submission[s].status = "IN_PROGRESS"
  \/ submission[s].status = "FLAG_REVIEW" /\ submission[s].returnTo = None

\* The row of s is routed to payment or to its Examiners.
RowRouted(s) ==
  /\ AwaitsRouting(s)
  /\ submission'[s].owner = submission[s].owner
  /\ submission'[s].status \in {"PAID", "AWAITING_PAYMENT"}
  /\ submission'[s].status = "PAID" => ~submission'[s].paymentRequired

\* The row of s moves in a way that keeps its payment.
RowMoved(s) ==
  /\ submission'[s].owner = submission[s].owner
  /\ submission'[s].paymentRequired = submission[s].paymentRequired
  /\ \/ /\ submission[s].status = "IN_PROGRESS"
        /\ submission'[s].status = "ABANDONED"
     \/ /\ submission[s].status = "IN_PROGRESS"
        /\ submission'[s].status = "FLAG_REVIEW"
        /\ submission'[s].returnTo = None
     \/ /\ submission[s].status = "SCORING"
        /\ InReviewOfScoring(s)'
     \/ /\ InReviewOfScoring(s)
        /\ submission'[s].status = "SCORING"

\* The row of s stops waiting for payment.
RowSettled(s) ==
  /\ submission[s].status = "AWAITING_PAYMENT"
  /\ submission'[s].status = "PAID"
  /\ submission'[s].owner = submission[s].owner
  /\ \/ ~submission'[s].paymentRequired
     \/ /\ submission'[s].paymentRequired = submission[s].paymentRequired
        /\ \E p \in Payments : payment'[p].submission = s /\ payment'[p].status = "PAID"

\* The row of s is voided.
RowVoided(s) ==
  /\ submission[s].status = "FLAG_REVIEW"
  /\ submission'[s].status = "VOIDED"
  /\ submission'[s].owner = submission[s].owner
  /\ submission'[s].paymentRequired = submission[s].paymentRequired

\* The row of s is claimed by its Examiners, or scored.
RowExamined(s) ==
  /\ submission'[s].owner = submission[s].owner
  /\ submission'[s].paymentRequired = submission[s].paymentRequired
  /\ \/ submission[s].status = "PAID" /\ submission'[s].status = "SCORING"
     \/ submission[s].status = "SCORING" /\ submission'[s].status = "SCORED"

\* The row of s as recording, review without a confirmation, and payment leave it.
RowStep(s) ==
  \/ submission'[s] = submission[s]
  \/ submission[s].status = "NONE" /\ submission'[s].status = "IN_PROGRESS"
  \/ RowMoved(s)
  \/ RowRouted(s)
  \/ RowSettled(s)

\* Routing takes one row to one of two statuses.
LEMMA RoutingMoves ==
  ASSUME TypeOK, NEW r \in Requests, NEW s \in Submissions, RouteRecordedSubmission(r, s),
         AwaitsRouting(s)
  PROVE  RowRouted(s) /\ \A t \in Submissions \ {s} : submission'[t] = submission[t]
<1>1. submission \in [Submissions -> SubmissionRow]
  BY DEF TypeOK
<1>2. RouteTo(s, "PAID", FALSE) \/ RouteTo(s, "AWAITING_PAYMENT", TRUE)
  BY DEF RouteRecordedSubmission
<1> QED
  BY <1>1, <1>2 DEF RouteTo, RowRouted, SubmissionRow

LEMMA RecordingSteps ==
  ASSUME TypeOK, RecordingNext, NEW t \in Submissions
  PROVE  RowStep(t)
<1> USE DEF accountVars, flagVars, payVars
<1>0. TypeOK /\ submission \in [Submissions -> SubmissionRow]
  BY DEF TypeOK
<1>1. ASSUME NEW u \in Users, NEW s \in Submissions, StartAssessment(u, s)
      PROVE  RowStep(t)
  <2>1. submission[t] \in SubmissionRow /\ submission[s].status = "NONE"
    BY <1>0, <1>1 DEF StartAssessment
  <2>2. CASE t = s
    BY <1>1, <2>1, <2>2 DEF StartAssessment, RowStep
  <2>3. CASE t # s /\ t \in ActiveSubmissions(u)
    <3>1. submission'[t] = [submission[t] EXCEPT !.status = "ABANDONED"]
      BY <1>1, <2>3 DEF StartAssessment
    <3> QED
      BY <2>1, <2>3, <3>1 DEF ActiveSubmissions, SubmissionRow, RowStep, RowMoved
  <2>4. CASE t # s /\ t \notin ActiveSubmissions(u)
    BY <1>1, <2>4 DEF StartAssessment, RowStep
  <2> QED
    BY <2>2, <2>3, <2>4
<1>2. CASE UNCHANGED submission
  BY <1>2 DEF RowStep
<1>3. ASSUME NEW s \in Submissions, AbandonSubmission(s)
      PROVE  RowStep(t)
  BY <1>0, <1>3 DEF AbandonSubmission, OwnerMayRecord, SubmissionRow, RowStep, RowMoved
<1>4. CASE AbandonStaleSubmissions
  BY <1>0, <1>4 DEF AbandonStaleSubmissions, IsStale, SubmissionRow, RowStep, RowMoved
<1>5. ASSUME NEW r \in Requests, CommitCompleteSubmission(r)
      PROVE  RowStep(t)
  <2>1. PICK s \in Submissions : /\ s = request[r].target
                                 /\ submission[s].status = "IN_PROGRESS"
    BY <1>5, RequestFields DEF CommitCompleteSubmission
  <2>2. CASE submission' = [submission EXCEPT ![s].status = "FLAG_REVIEW",
                                              ![s].returnTo = None]
    BY <1>0, <2>1, <2>2 DEF SubmissionRow, RowStep, RowMoved
  <2>3. CASE RouteRecordedSubmission(r, s)
    <3>1. RowRouted(s) /\ \A v \in Submissions \ {s} : submission'[v] = submission[v]
      BY <1>0, <2>1, <2>3, RoutingMoves DEF AwaitsRouting
    <3> QED
      BY <3>1 DEF RowStep
  <2> QED
    BY <1>5, <2>1, <2>2, <2>3 DEF CommitCompleteSubmission
<1> QED
  BY <1>1, <1>2, <1>3, <1>4, <1>5
     DEF RecordingNext, ConfirmLastUpload, ClosePage, GraceElapses,
         RecordSubmissionHeartbeat, BeginCompleteSubmission

LEMMA FlagReviewSteps ==
  ASSUME TypeInv, FlagReviewNext, NEW t \in Submissions
  PROVE  \/ RowStep(t)
         \/ RowVoided(t) /\ \E r \in Requests : CommitConfirmFlag(r)
<1> USE DEF accountVars, flagVars, payVars
<1>0. TypeOK /\ submission \in [Submissions -> SubmissionRow]
  BY DEF TypeInv, TypeOK
<1>1. UNCHANGED submission => RowStep(t)
  BY DEF RowStep
<1>2. ASSUME NEW a \in Assignments, NEW f \in Flags, RaiseIntegrityConcern(a, f)
      PROVE  RowStep(t)
  <2>1. a[1] \in Submissions
    BY DEF Assignments
  <2> QED
    BY <1>0, <1>2, <2>1
       DEF RaiseIntegrityConcern, SubmissionRow, RowStep, RowMoved, InReviewOfScoring
<1>3. ASSUME NEW r \in Requests, CommitConfirmFlag(r) \/ CommitDismissFlag(r)
      PROVE  RowStep(t) \/ (RowVoided(t) /\ CommitConfirmFlag(r))
  <2>1. PICK s \in Submissions : /\ s = flag[request[r].target].submission
                                 /\ submission[s].status = "FLAG_REVIEW"
    BY <1>0, <1>3, RequestFields
       DEF CommitConfirmFlag, CommitDismissFlag, IsReviewable, TypeInv, Linked
  <2>2. CommitConfirmFlag(r) => RowStep(t) \/ RowVoided(t)
    <3> SUFFICES ASSUME CommitConfirmFlag(r) PROVE RowStep(t) \/ RowVoided(t)
      OBVIOUS
    <3>1. submission' = [submission EXCEPT ![s].status = "VOIDED", ![s].returnTo = None]
      BY <2>1 DEF CommitConfirmFlag
    <3> QED
      BY <1>0, <2>1, <3>1 DEF SubmissionRow, RowStep, RowVoided
  <2>3. CommitDismissFlag(r) => RowStep(t)
    <3> SUFFICES ASSUME CommitDismissFlag(r) PROVE RowStep(t)
      OBVIOUS
    <3>1. CASE /\ submission[s].returnTo # None
               /\ submission' = [submission EXCEPT ![s].status = submission[s].returnTo,
                                                   ![s].returnTo = None]
      <4>1. submission[s] \in SubmissionRow /\ submission[s].returnTo = "SCORING"
        BY <1>0, <2>1, <3>1 DEF SubmissionRow
      <4>2. CASE t = s
        BY <1>0, <2>1, <3>1, <4>1, <4>2 DEF SubmissionRow, RowStep, RowMoved, InReviewOfScoring
      <4>3. CASE t # s
        BY <1>0, <3>1, <4>3 DEF RowStep
      <4> QED
        BY <4>2, <4>3
    <3>2. CASE submission[s].returnTo = None /\ RouteRecordedSubmission(r, s)
      BY <1>0, <2>1, <3>2, RoutingMoves DEF RowStep, AwaitsRouting
    <3> QED
      BY <1>1, <2>1, <3>1, <3>2 DEF CommitDismissFlag
  <2> QED
    BY <1>3, <2>2, <2>3
<1> QED
  BY <1>1, <1>2, <1>3
     DEF FlagReviewNext, RaiseDeviceFlag, BeginConfirmFlag, BeginDismissFlag,
         CheckDismissingAdmin

LEMMA PaymentsSteps ==
  ASSUME TypeOK, PaymentsNext, NEW t \in Submissions
  PROVE  submission'[t] = submission[t] \/ RowSettled(t)
<1> USE DEF accountVars, flagVars, payVars, payFrame
<1>0. /\ submission \in [Submissions -> SubmissionRow]
      /\ payment \in [Payments -> PaymentRow]
  BY DEF TypeOK
<1>1. CASE UNCHANGED submission
  BY <1>1
<1>2. ASSUME NEW p \in Payments, NotifySuccess(p)
      PROVE  submission'[t] = submission[t] \/ RowSettled(t)
  <2>1. CASE t = payment[p].submission /\ submission[t].status = "AWAITING_PAYMENT"
    <3>1. submission' = [submission EXCEPT ![t].status = "PAID"]
      BY <1>2, <2>1 DEF NotifySuccess
    <3>2. payment'[p].submission = t /\ payment'[p].status = "PAID"
      BY <1>0, <1>2, <2>1 DEF NotifySuccess, PaymentRow
    <3> QED
      BY <1>0, <2>1, <3>1, <3>2 DEF SubmissionRow, RowSettled
  <2>2. CASE ~(t = payment[p].submission /\ submission[t].status = "AWAITING_PAYMENT")
    BY <1>0, <1>2, <2>2 DEF NotifySuccess
  <2> QED
    BY <2>1, <2>2
<1>3. ASSUME NEW r \in Requests, CommitWaiveSubmissionPayment(r)
      PROVE  submission'[t] = submission[t] \/ RowSettled(t)
  <2> DEFINE s == request[r].target
  <2>1. /\ s \in Submissions
        /\ submission[s].status = "AWAITING_PAYMENT"
        /\ submission' = [submission EXCEPT ![s].paymentRequired = FALSE, ![s].status = "PAID"]
    BY <1>3, RequestFields DEF CommitWaiveSubmissionPayment
  <2> QED
    BY <1>0, <2>1 DEF SubmissionRow, RowSettled
<1> QED
  BY <1>1, <1>2, <1>3
     DEF PaymentsNext, CreateIpaymuCheckout, CheckoutReturns, CheckoutRejected,
         NotifyFailed, ProviderAnswers, ProviderCollects, BeginWaiveSubmissionPayment,
         UpdatePaymentEnabled

LEMMA ExaminingSteps ==
  ASSUME TypeOK, ExaminingNext, NEW t \in Submissions
  PROVE  submission'[t] = submission[t] \/ RowExamined(t)
<1> USE DEF examFrame
<1>0. submission \in [Submissions -> SubmissionRow]
  BY DEF TypeOK
<1>1. ASSUME NEW s \in Submissions, NEW e1 \in Users, NEW e2 \in Users,
             CreateExaminerAssignmentSet(s, e1, e2)
      PROVE  submission'[t] = submission[t] \/ RowExamined(t)
  BY <1>0, <1>1 DEF CreateExaminerAssignmentSet, SubmissionRow, RowExamined
<1>2. ASSUME NEW a \in Assignments, CompleteExaminerScoring(a)
      PROVE  submission'[t] = submission[t] \/ RowExamined(t)
  BY <1>0, <1>2 DEF CompleteExaminerScoring, IsScoringLifecycle, SubmissionRow, RowExamined
<1> QED
  BY <1>1, <1>2
     DEF ExaminingNext, StartExaminerAssignment, SaveExaminerScore, ReassignExaminerAssignment

\* Every step of the system moves a row in one of these ways.
LEMMA RowSteps ==
  ASSUME TypeInv, [Next]_vars, NEW t \in Submissions
  PROVE  \/ RowStep(t)
         \/ RowVoided(t) /\ \E r \in Requests : CommitConfirmFlag(r)
         \/ RowExamined(t) /\ ExaminingNext
<1>0. TypeOK
  BY DEF TypeInv
<1>1. CASE UNCHANGED submission
  BY <1>1 DEF RowStep
<1>2. CASE RecordingNext
  BY <1>0, <1>2, RecordingSteps
<1>3. CASE FlagReviewNext
  BY <1>3, FlagReviewSteps
<1>4. CASE PaymentsNext
  BY <1>0, <1>4, PaymentsSteps DEF RowStep
<1>5. CASE ExaminingNext
  BY <1>0, <1>5, ExaminingSteps DEF RowStep
<1>6. AccountsNext => UNCHANGED submission
  BY DEF AccountsNext, TransitionAccountRole, DeactivateAccount, Transition, accountFrame
<1>7. (\E r \in Requests : RequestEnds(r)) => UNCHANGED submission
  BY DEF RequestEnds
<1>8. UNCHANGED vars => UNCHANGED submission
  BY DEF vars
<1> QED
  BY <1>1, <1>2, <1>3, <1>4, <1>5, <1>6, <1>7, <1>8 DEF Next

\* Past routing there is no way back: the Submission stays routed or is voided,
\* and payment is never required of it again.
LEMMA RoutedStays ==
  ASSUME TypeInv, [Next]_vars, NEW s \in Submissions,
         IsRouted(s) \/ submission[s].status = "VOIDED"
  PROVE  /\ submission'[s].owner = submission[s].owner
         /\ IsRouted(s)' \/ submission'[s].status = "VOIDED"
         /\ ~submission[s].paymentRequired => ~submission'[s].paymentRequired
<1>1. CASE RowStep(s)
  BY <1>1, NoneAssumption
     DEF RowStep, RowMoved, RowRouted, AwaitsRouting, RowSettled, InReviewOfScoring, IsRouted
<1>2. CASE RowVoided(s)
  BY <1>2 DEF RowVoided
<1>3. CASE RowExamined(s)
  BY <1>3 DEF RowExamined, IsRouted
<1> QED
  BY <1>1, <1>2, <1>3, RowSteps

-----------------------------------------------------------------------------
(* Retake credits.  Only two steps touch them: a confirmation grants one    *)
(* and routing redeems one.                                                 *)

Confirmed(s) == {f \in Flags : flag[f].submission = s /\ flag[f].resolution = "CONFIRMED"}

Grants(s) == {c \in credits : c.voided = s}

\* Routing redeems credit c for Submission s.
Redeems(c, s) ==
  /\ c \in credits
  /\ c.redeemedBy = None
  /\ c.student = submission[s].owner
  /\ credits' = (credits \ {c}) \cup {[c EXCEPT !.redeemedBy = s]}
  /\ AwaitsRouting(s)
  /\ submission'[s].status = "PAID"
  /\ submission'[s].owner = submission[s].owner
  /\ ~submission'[s].paymentRequired

\* What a redemption does to a credit.
LEMMA RedeemedRow ==
  ASSUME NEW c \in CreditRow, NEW s \in Submissions
  PROVE  /\ [c EXCEPT !.redeemedBy = s] \in CreditRow
         /\ [c EXCEPT !.redeemedBy = s].student = c.student
         /\ [c EXCEPT !.redeemedBy = s].voided = c.voided
         /\ [c EXCEPT !.redeemedBy = s].redeemedBy = s
  BY DEF CreditRow

LEMMA RoutingRedeems ==
  ASSUME TypeOK, NEW r \in Requests, NEW s \in Submissions, AwaitsRouting(s),
         RouteRecordedSubmission(r, s)
  PROVE  UNCHANGED credits \/ \E c \in credits : Redeems(c, s)
<1>1. submission \in [Submissions -> SubmissionRow]
  BY DEF TypeOK
<1>2. ASSUME NEW c \in UnredeemedCredits(submission[s].owner),
             credits' = (credits \ {c}) \cup {[c EXCEPT !.redeemedBy = s]},
             RouteTo(s, "PAID", FALSE)
      PROVE  Redeems(c, s) /\ c \in credits
  <2>1. /\ submission'[s].status = "PAID"
        /\ submission'[s].owner = submission[s].owner
        /\ ~submission'[s].paymentRequired
    BY <1>1, <1>2 DEF RouteTo, SubmissionRow
  <2> QED
    BY <1>2, <2>1 DEF Redeems, UnredeemedCredits
<1> QED
  BY <1>2 DEF RouteRecordedSubmission

\* Outside confirmation and routing no credit changes.
LEMMA CreditSteps ==
  ASSUME TypeInv, [Next]_vars
  PROVE  \/ UNCHANGED credits
         \/ \E r \in Requests : CommitConfirmFlag(r)
         \/ \E s \in Submissions, c \in credits : Redeems(c, s)
<1> USE DEF accountVars, flagVars, payVars
<1>0. TypeOK
  BY DEF TypeInv
<1>1. ASSUME NEW r \in Requests, CommitCompleteSubmission(r)
      PROVE  UNCHANGED credits \/ \E s \in Submissions, c \in credits : Redeems(c, s)
  <2>1. PICK s \in Submissions : s = request[r].target /\ AwaitsRouting(s)
    BY <1>0, <1>1, RequestFields DEF CommitCompleteSubmission, AwaitsRouting
  <2>2. UNCHANGED credits \/ RouteRecordedSubmission(r, s)
    BY <1>1, <2>1 DEF CommitCompleteSubmission
  <2> QED
    BY <1>0, <2>1, <2>2, RoutingRedeems
<1>2. ASSUME NEW r \in Requests, CommitDismissFlag(r)
      PROVE  UNCHANGED credits \/ \E s \in Submissions, c \in credits : Redeems(c, s)
  <2>1. PICK s \in Submissions : /\ s = flag[request[r].target].submission
                                 /\ submission[s].status = "FLAG_REVIEW"
    BY <1>0, <1>2, RequestFields DEF CommitDismissFlag, IsReviewable, TypeInv, Linked
  <2>2. \/ UNCHANGED credits
        \/ submission[s].returnTo = None /\ RouteRecordedSubmission(r, s)
    BY <1>2, <2>1 DEF CommitDismissFlag
  <2> QED
    BY <1>0, <2>1, <2>2, RoutingRedeems DEF AwaitsRouting
<1>3. RecordingNext => UNCHANGED credits \/ \E r \in Requests : CommitCompleteSubmission(r)
  BY DEF RecordingNext, StartAssessment, ConfirmLastUpload, ClosePage, GraceElapses,
         RecordSubmissionHeartbeat, AbandonSubmission, AbandonStaleSubmissions,
         BeginCompleteSubmission
<1>4. FlagReviewNext =>
        UNCHANGED credits \/ \E r \in Requests : CommitConfirmFlag(r) \/ CommitDismissFlag(r)
  BY DEF FlagReviewNext, RaiseDeviceFlag, RaiseIntegrityConcern, BeginConfirmFlag,
         BeginDismissFlag, CheckDismissingAdmin
<1>5. ExaminingNext => UNCHANGED credits
  BY DEF ExaminingNext, CreateExaminerAssignmentSet, StartExaminerAssignment,
         SaveExaminerScore, CompleteExaminerScoring, ReassignExaminerAssignment, examFrame
<1>6. PaymentsNext => UNCHANGED credits
  BY DEF PaymentsNext, CreateIpaymuCheckout, CheckoutReturns, CheckoutRejected, NotifyFailed,
         NotifySuccess, ProviderAnswers, ProviderCollects, BeginWaiveSubmissionPayment,
         CommitWaiveSubmissionPayment, UpdatePaymentEnabled, payFrame
<1>7. AccountsNext => UNCHANGED credits
  BY DEF AccountsNext, TransitionAccountRole, DeactivateAccount, Transition, accountFrame
<1>8. (\E r \in Requests : RequestEnds(r)) => UNCHANGED credits
  BY DEF RequestEnds
<1>9. UNCHANGED vars => UNCHANGED credits
  BY DEF vars
<1> QED
  BY <1>1, <1>2, <1>3, <1>4, <1>5, <1>6, <1>7, <1>8, <1>9 DEF Next

\* How one flag changes: it is raised, or an open one is decided.
FlagStep(f) ==
  \/ flag'[f] = flag[f]
  \/ /\ flag[f].resolution = "NONE"
     /\ flag'[f].resolution = "OPEN"
     /\ flag'[f].submission \in Submissions
     /\ flag'[f].source = "STUDENT_DEVICE" =>
          submission'[flag'[f].submission].status = "IN_PROGRESS"
  \/ /\ flag[f].resolution = "OPEN"
     /\ flag'[f].submission = flag[f].submission
     /\ flag'[f].source = flag[f].source
     /\ \/ flag'[f].resolution = "DISMISSED"
        \/ /\ flag'[f].resolution \in {"CONFIRMED", "SUPERSEDED"}
           /\ \E r \in Requests : CommitConfirmFlag(r)

LEMMA FlagSteps ==
  ASSUME TypeInv, [Next]_vars, NEW g \in Flags
  PROVE  FlagStep(g)
<1> USE DEF accountVars, flagVars, payVars
<1>0. TypeOK /\ flag \in [Flags -> FlagRow]
  BY DEF TypeInv, TypeOK
<1>1. UNCHANGED flag => FlagStep(g)
  BY DEF FlagStep
<1>2. ASSUME NEW f \in Flags, NEW t \in Submissions,
             NEW source \in {"STUDENT_DEVICE", "EXAMINER"}, CreateFlag(f, t, source),
             source = "STUDENT_DEVICE" => submission'[t].status = "IN_PROGRESS"
      PROVE  FlagStep(g)
  <2>1. CASE g = f
    BY <1>0, <1>2, <2>1 DEF CreateFlag, FlagStep
  <2>2. CASE g # f
    BY <1>0, <1>2, <2>2 DEF CreateFlag, FlagStep
  <2> QED
    BY <2>1, <2>2
<1>3. ASSUME NEW r \in Requests, CommitDismissFlag(r)
      PROVE  FlagStep(g)
  <2>1. PICK f \in Flags : f = request[r].target
    BY <1>0, <1>3, RequestFields DEF CommitDismissFlag
  <2>2. /\ flag[f].resolution = "OPEN"
        /\ flag' = [flag EXCEPT ![f].resolution = "DISMISSED", ![f].resolvedBy = request[r].by]
    BY <1>3, <2>1 DEF CommitDismissFlag, IsReviewable
  <2> QED
    BY <1>0, <2>1, <2>2 DEF FlagStep, FlagRow
<1>4. ASSUME NEW r \in Requests, CommitConfirmFlag(r)
      PROVE  FlagStep(g)
  <2>1. PICK f, s : /\ f = request[r].target
                    /\ s = flag[f].submission
    OBVIOUS
  <2>2. flag' = [h \in Flags |->
           IF h \notin OpenFlags(s) THEN flag[h]
           ELSE [flag[h] EXCEPT
                   !.resolution = IF h = f THEN "CONFIRMED" ELSE "SUPERSEDED",
                   !.resolvedBy = request[r].by]]
    BY <1>4, <2>1 DEF CommitConfirmFlag
  <2>3. CASE g \notin OpenFlags(s)
    BY <2>2, <2>3 DEF FlagStep
  <2>4. CASE g \in OpenFlags(s)
    <3>1. /\ flag'[g].submission = flag[g].submission
          /\ flag'[g].source = flag[g].source
          /\ flag'[g].resolution \in {"CONFIRMED", "SUPERSEDED"}
      BY <1>0, <2>2, <2>4 DEF FlagRow
    <3> QED
      BY <1>4, <2>4, <3>1 DEF FlagStep, OpenFlags
  <2> QED
    BY <2>3, <2>4
<1>5. ASSUME NEW t \in Submissions, NEW failed \in BOOLEAN, ConfirmLastUpload(t, failed)
      PROVE  FlagStep(g)
  BY <1>1, <1>2, <1>5 DEF ConfirmLastUpload, OwnerMayRecord
<1>6. ASSUME NEW t \in Submissions, NEW f \in Flags, RaiseDeviceFlag(t, f)
      PROVE  FlagStep(g)
  BY <1>2, <1>6 DEF RaiseDeviceFlag
<1>7. ASSUME NEW a \in Assignments, NEW f \in Flags, RaiseIntegrityConcern(a, f)
      PROVE  FlagStep(g)
  <2>1. a[1] \in Submissions
    BY DEF Assignments
  <2> QED
    BY <1>2, <1>7, <2>1 DEF RaiseIntegrityConcern
<1>8. RecordingNext =>
        \/ UNCHANGED flag
        \/ \E t \in Submissions, failed \in BOOLEAN : ConfirmLastUpload(t, failed)
  BY DEF RecordingNext, StartAssessment, ClosePage, GraceElapses, RecordSubmissionHeartbeat,
         AbandonSubmission, AbandonStaleSubmissions, BeginCompleteSubmission,
         CommitCompleteSubmission
<1>9. FlagReviewNext =>
        \/ UNCHANGED flag
        \/ \E t \in Submissions, f \in Flags : RaiseDeviceFlag(t, f)
        \/ \E a \in Assignments, f \in Flags : RaiseIntegrityConcern(a, f)
        \/ \E r \in Requests : CommitConfirmFlag(r) \/ CommitDismissFlag(r)
  BY DEF FlagReviewNext, BeginConfirmFlag, BeginDismissFlag, CheckDismissingAdmin
<1>10. ExaminingNext => UNCHANGED flag
  BY DEF ExaminingNext, CreateExaminerAssignmentSet, StartExaminerAssignment,
         SaveExaminerScore, CompleteExaminerScoring, ReassignExaminerAssignment, examFrame
<1>11. PaymentsNext => UNCHANGED flag
  BY DEF PaymentsNext, CreateIpaymuCheckout, CheckoutReturns, CheckoutRejected, NotifyFailed,
         NotifySuccess, ProviderAnswers, ProviderCollects, BeginWaiveSubmissionPayment,
         CommitWaiveSubmissionPayment, UpdatePaymentEnabled, payFrame
<1>12. AccountsNext => UNCHANGED flag
  BY DEF AccountsNext, TransitionAccountRole, DeactivateAccount, Transition, accountFrame
<1>13. (\E r \in Requests : RequestEnds(r)) => UNCHANGED flag
  BY DEF RequestEnds
<1>14. UNCHANGED vars => UNCHANGED flag
  BY DEF vars
<1> QED
  BY <1>1, <1>3, <1>4, <1>5, <1>6, <1>7, <1>8, <1>9, <1>10, <1>11, <1>12, <1>13, <1>14
     DEF Next

\* Only a confirmation confirms a flag.
LEMMA ConfirmedKept ==
  ASSUME TypeInv, [Next]_vars, NEW s \in Submissions
  PROVE  \/ \E r \in Requests : CommitConfirmFlag(r)
         \/ Confirmed(s)' = Confirmed(s)
<1>1. \A f \in Flags : FlagStep(f)
  BY FlagSteps
<1> QED
  BY <1>1 DEF FlagStep, Confirmed

CreditInv ==
  /\ FlagInv
  /\ VoidGrantsOneCredit
  /\ RedemptionPaysForOne

\* VoidGrantsOneCredit says this of each Submission.
VoidedOnce(s) ==
  IF submission[s].status = "VOIDED"
    THEN /\ \E f \in Flags : Confirmed(s) = {f}
         /\ \E c \in CreditRow : Grants(s) = {c} /\ c.student = submission[s].owner
    ELSE Confirmed(s) = {} /\ Grants(s) = {}

LEMMA VoidedEachOnce == VoidGrantsOneCredit <=> \A s \in Submissions : VoidedOnce(s)
  BY DEF VoidGrantsOneCredit, VoidedOnce, Confirmed, Grants

LEMMA VoidedEachOnceNext == VoidGrantsOneCredit' <=> \A s \in Submissions : VoidedOnce(s)'
  BY DEF VoidGrantsOneCredit, VoidedOnce, Confirmed, Grants

\* A row that is not being voided is VOIDED after the step if it was before.
LEMMA VoidedOrNot ==
  ASSUME TypeInv, [Next]_vars, NEW s \in Submissions,
         ~\E r \in Requests : CommitConfirmFlag(r)
  PROVE  /\ submission'[s].status = "VOIDED" <=> submission[s].status = "VOIDED"
         /\ submission[s].status = "VOIDED" => submission'[s].owner = submission[s].owner
  BY RowSteps, RoutedStays
     DEF RowStep, RowMoved, RowRouted, AwaitsRouting, RowSettled, RowExamined, InReviewOfScoring

\* A redemption leaves each Submission the credit it granted.
LEMMA RedemptionKeepsGrants ==
  ASSUME CreditInv, [Next]_vars, ~\E r \in Requests : CommitConfirmFlag(r),
         NEW s \in Submissions, NEW c \in credits, Redeems(c, s), NEW t \in Submissions
  PROVE  VoidedOnce(t)'
<1>1. /\ credits \subseteq CreditRow
      /\ TypeInv
      /\ VoidedOnce(t)
  BY VoidedEachOnce DEF CreditInv, FlagInv, TypeInv, TypeOK
<1>2. PICK d : d = [c EXCEPT !.redeemedBy = s]
  OBVIOUS
<1>3. /\ d \in CreditRow
      /\ d.student = c.student
      /\ d.voided = c.voided
      /\ credits' = (credits \ {c}) \cup {d}
  BY <1>1, <1>2, RedeemedRow DEF Redeems
<1>4. Confirmed(t)' = Confirmed(t)
  BY <1>1, ConfirmedKept
<1>5. /\ submission'[t].status = "VOIDED" <=> submission[t].status = "VOIDED"
      /\ submission[t].status = "VOIDED" => submission'[t].owner = submission[t].owner
  BY <1>1, VoidedOrNot
<1>6. CASE c.voided # t
  <2>1. Grants(t)' = Grants(t)
    BY <1>3, <1>6 DEF Grants
  <2> QED
    BY <1>1, <1>4, <1>5, <2>1 DEF VoidedOnce
<1>7. CASE c.voided = t
  <2>1. c \in Grants(t)
    BY <1>7 DEF Grants
  <2>2. /\ submission[t].status = "VOIDED"
        /\ Grants(t) = {c}
        /\ c.student = submission[t].owner
    BY <1>1, <2>1 DEF VoidedOnce
  <2>3. Grants(t)' = {d}
    BY <1>3, <1>7, <2>2 DEF Grants
  <2> QED
    BY <1>1, <1>3, <1>4, <1>5, <2>2, <2>3 DEF VoidedOnce
<1> QED
  BY <1>6, <1>7

\* A confirmation voids one Submission and grants its credit.
LEMMA ConfirmationGrants ==
  ASSUME CreditInv, NEW r \in Requests, CommitConfirmFlag(r), NEW t \in Submissions
  PROVE  VoidedOnce(t)'
<1>1. PICK f \in Flags : f = request[r].target
  BY RequestFields DEF CommitConfirmFlag, CreditInv, FlagInv, TypeInv
<1>2. PICK s \in Submissions : s = flag[f].submission
  BY <1>1 DEF CommitConfirmFlag, IsReviewable, CreditInv, FlagInv, TypeInv, Linked
<1>3. /\ flag \in [Flags -> FlagRow]
      /\ submission \in [Submissions -> SubmissionRow]
      /\ credits \subseteq CreditRow
      /\ flag[f].resolution = "OPEN"
      /\ submission[s].status = "FLAG_REVIEW"
      /\ submission[s].owner \in Users
      /\ VoidedOnce(t)
      /\ VoidedOnce(s)
  BY <1>1, <1>2, VoidedEachOnce
     DEF CommitConfirmFlag, IsReviewable, CreditInv, FlagInv, TypeInv, TypeOK, Linked
<1>4. /\ flag' = [g \in Flags |->
           IF g \notin OpenFlags(s) THEN flag[g]
           ELSE [flag[g] EXCEPT
                   !.resolution = IF g = f THEN "CONFIRMED" ELSE "SUPERSEDED",
                   !.resolvedBy = request[r].by]]
      /\ submission' = [submission EXCEPT ![s].status = "VOIDED", ![s].returnTo = None]
      /\ credits' = credits \cup
           {[student |-> submission[s].owner, voided |-> s, redeemedBy |-> None]}
  BY <1>1, <1>2 DEF CommitConfirmFlag
<1> DEFINE row == [student |-> submission[s].owner, voided |-> s, redeemedBy |-> None]
<1>5. /\ row \in CreditRow
      /\ row.student = submission[s].owner
      /\ row.voided = s
  BY <1>3 DEF CreditRow
<1>6. PICK c \in CreditRow : /\ credits' = credits \cup {c}
                              /\ c.student = submission[s].owner
                              /\ c.voided = s
  <2>1. credits' = credits \cup {row}
    BY <1>4
  <2> HIDE DEF row
  <2> QED
    BY <1>5, <2>1
<1> HIDE DEF row
<1>7. f \in OpenFlags(s)
  BY <1>2, <1>3 DEF OpenFlags
<1>8. ASSUME NEW g \in Flags
      PROVE  /\ flag'[g].submission = flag[g].submission
             /\ g \notin OpenFlags(s) => flag'[g] = flag[g]
             /\ g \in OpenFlags(s) /\ g # f => flag'[g].resolution = "SUPERSEDED"
             /\ g = f => flag'[g].resolution = "CONFIRMED"
  <2>1. flag[g] \in FlagRow
    BY <1>3
  <2> QED
    BY <1>4, <1>7, <2>1 DEF FlagRow
<1>9. CASE t # s
  <2>1. submission'[t] = submission[t]
    BY <1>3, <1>4, <1>9
  <2>2. Grants(t)' = Grants(t)
    BY <1>9, <1>6 DEF Grants
  <2>3. \A g \in OpenFlags(s) : flag[g].submission # t
    BY <1>9 DEF OpenFlags
  <2>4. Confirmed(t)' = Confirmed(t)
    BY <1>2, <1>8, <1>9, <2>3 DEF Confirmed
  <2> QED
    BY <1>3, <2>1, <2>2, <2>4 DEF VoidedOnce
<1>10. CASE t = s
  <2>1. submission'[s].status = "VOIDED" /\ submission'[s].owner = submission[s].owner
    BY <1>2, <1>3, <1>4 DEF SubmissionRow
  <2>2. Confirmed(s) = {} /\ Grants(s) = {}
    BY <1>3 DEF VoidedOnce
  <2>3. Confirmed(s)' = {f}
    <3>1. f \in Confirmed(s)'
      BY <1>2, <1>8 DEF Confirmed
    <3>2. ASSUME NEW g \in Flags \ {f}
          PROVE  g \notin Confirmed(s)'
      BY <1>8, <2>2 DEF Confirmed
    <3> QED
      BY <3>1, <3>2 DEF Confirmed
  <2>4. Grants(s)' = {c}
    BY <1>6, <2>2 DEF Grants
  <2> QED
    BY <1>10, <1>6, <2>1, <2>3, <2>4 DEF VoidedOnce
<1> QED
  BY <1>9, <1>10

LEMMA VoidsStayOnce ==
  ASSUME CreditInv, [Next]_vars
  PROVE  VoidGrantsOneCredit'
<1>0. TypeInv /\ \A t \in Submissions : VoidedOnce(t)
  BY VoidedEachOnce DEF CreditInv, FlagInv
<1>1. SUFFICES ASSUME NEW t \in Submissions
               PROVE  VoidedOnce(t)'
  BY VoidedEachOnceNext
<1>2. CASE \E r \in Requests : CommitConfirmFlag(r)
  BY <1>2, ConfirmationGrants
<1>3. CASE ~\E r \in Requests : CommitConfirmFlag(r)
  <2>1. CASE \E s \in Submissions, c \in credits : Redeems(c, s)
    BY <1>3, <2>1, RedemptionKeepsGrants
  <2>2. CASE UNCHANGED credits
    <3>1. Grants(t)' = Grants(t)
      BY <2>2 DEF Grants
    <3>2. Confirmed(t)' = Confirmed(t)
      BY <1>0, <1>3, ConfirmedKept
    <3> QED
      BY <1>0, <1>3, <3>1, <3>2, VoidedOrNot DEF VoidedOnce
  <2> QED
    BY <1>0, <1>3, <2>1, <2>2, CreditSteps
<1> QED
  BY <1>2, <1>3

LEMMA RedemptionsStay ==
  ASSUME CreditInv, [Next]_vars
  PROVE  RedemptionPaysForOne'
<1>0. /\ TypeInv
      /\ RedemptionPaysForOne
      /\ credits \subseteq CreditRow
      /\ None \notin Submissions
  BY NoneAssumption DEF CreditInv, FlagInv, TypeInv, TypeOK
\* A credit that is redeemed already stays well spent.
<1>1. ASSUME NEW c \in credits, c.redeemedBy # None
      PROVE  /\ c.redeemedBy # c.voided
             /\ submission'[c.redeemedBy].owner = c.student
             /\ ~submission'[c.redeemedBy].paymentRequired
             /\ \/ IsRouted(c.redeemedBy)'
                \/ submission'[c.redeemedBy].status = "VOIDED"
  <2>1. PICK s \in Submissions : s = c.redeemedBy
    BY <1>0, <1>1 DEF CreditRow
  <2>2. /\ s # c.voided
        /\ submission[s].owner = c.student
        /\ ~submission[s].paymentRequired
        /\ IsRouted(s) \/ submission[s].status = "VOIDED"
    BY <1>0, <1>1, <2>1 DEF RedemptionPaysForOne
  <2>3. /\ submission'[s].owner = submission[s].owner
        /\ IsRouted(s)' \/ submission'[s].status = "VOIDED"
        /\ ~submission[s].paymentRequired => ~submission'[s].paymentRequired
    BY <1>0, <2>2, RoutedStays
  <2> QED
    BY <2>1, <2>2, <2>3 DEF IsRouted
<1>2. CASE UNCHANGED credits
  BY <1>0, <1>1, <1>2 DEF RedemptionPaysForOne
<1>3. ASSUME NEW r \in Requests, CommitConfirmFlag(r)
      PROVE  RedemptionPaysForOne'
  <2>1. PICK d : credits' = credits \cup {d} /\ d.redeemedBy = None
    <3> DEFINE s == flag[request[r].target].submission
               row == [student |-> submission[s].owner, voided |-> s, redeemedBy |-> None]
    <3>1. credits' = credits \cup {row} /\ row.redeemedBy = None
      BY <1>3 DEF CommitConfirmFlag
    <3> HIDE DEF row
    <3> QED
      BY <3>1
  <2> QED
    BY <1>0, <1>1, <2>1 DEF RedemptionPaysForOne
<1>4. ASSUME NEW s \in Submissions, NEW c \in credits, Redeems(c, s)
      PROVE  RedemptionPaysForOne'
  <2>1. PICK d : d = [c EXCEPT !.redeemedBy = s]
    OBVIOUS
  <2>2. /\ d.student = c.student
        /\ d.voided = c.voided
        /\ d.redeemedBy = s
        /\ credits' = (credits \ {c}) \cup {d}
    BY <1>0, <1>4, <2>1, RedeemedRow DEF Redeems
  <2>3. /\ submission'[s].owner = d.student
        /\ ~submission'[s].paymentRequired
        /\ IsRouted(s)'
    BY <1>4, <2>2 DEF Redeems, IsRouted
  <2>4. ~IsRouted(s) /\ submission[s].status # "VOIDED"
    BY <1>4, NoneAssumption DEF Redeems, AwaitsRouting, IsRouted
  <2>5. d.voided # s
    <3>1. c.voided \in Submissions /\ VoidedOnce(c.voided)
      BY <1>0, VoidedEachOnce DEF CreditRow, CreditInv
    <3>2. submission[c.voided].status = "VOIDED"
      BY <3>1 DEF VoidedOnce, Grants
    <3> QED
      BY <2>2, <2>4, <3>2
  <2>6. \A e \in credits : e.redeemedBy # s
    BY <1>0, <2>4 DEF RedemptionPaysForOne
  <2>7. \A e \in credits' : e.redeemedBy # None =>
          /\ e.redeemedBy # e.voided
          /\ submission'[e.redeemedBy].owner = e.student
          /\ ~submission'[e.redeemedBy].paymentRequired
          /\ IsRouted(e.redeemedBy)' \/ submission'[e.redeemedBy].status = "VOIDED"
    BY <1>1, <2>2, <2>3, <2>5
  <2>8. \A e, g \in credits' :
          e.redeemedBy = g.redeemedBy /\ e.redeemedBy # None => e = g
    BY <1>0, <2>2, <2>6 DEF RedemptionPaysForOne
  <2> QED
    BY <2>7, <2>8 DEF RedemptionPaysForOne
<1> QED
  BY <1>0, <1>2, <1>3, <1>4, CreditSteps

LEMMA CreditInductive ==
  /\ Init => CreditInv
  /\ CreditInv /\ [Next]_vars => CreditInv'
<1>1. Init => CreditInv
  <2>1. Init => FlagInv
    BY FlagInitially
  <2>2. Init => VoidGrantsOneCredit /\ RedemptionPaysForOne
    BY DEF Init, VoidGrantsOneCredit, RedemptionPaysForOne
  <2> QED
    BY <2>1, <2>2 DEF CreditInv
<1>2. ASSUME CreditInv, [Next]_vars
      PROVE  CreditInv'
  <2>1. FlagInv'
    BY <1>2, FlagInductive DEF CreditInv
  <2> QED
    BY <1>2, <2>1, VoidsStayOnce, RedemptionsStay DEF CreditInv
<1> QED
  BY <1>1, <1>2

\* A void grants its student exactly one credit, and nothing else grants one,
\* however confirmations and dismissals of the same Submission cross.
THEOREM VoidsGrantOnce == Spec => []VoidGrantsOneCredit
<1>1. CreditInv => VoidGrantsOneCredit
  BY DEF CreditInv
<1> QED
  BY <1>1, CreditInductive, PTL DEF Spec

\* A redeemed credit pays for one other Submission of its student, for good.
THEOREM RedemptionsPayOnce == Spec => []RedemptionPaysForOne
<1>1. CreditInv => RedemptionPaysForOne
  BY DEF CreditInv
<1> QED
  BY <1>1, CreditInductive, PTL DEF Spec

\* A retake credit is never lost or spent twice, whichever requests redeem at once.
THEOREM CreditsAreSpentOnce == Spec => CreditIsSpentOnce
<1> DEFINE Kept == \A c \in credits :
                     \/ c \in credits'
                     \/ /\ c.redeemedBy = None
                        /\ \E s \in Submissions : [c EXCEPT !.redeemedBy = s] \in credits'
<1>1. ASSUME CreditInv, [Next]_vars
      PROVE  [Kept]_vars
  <2>1. CASE UNCHANGED credits
    BY <2>1
  <2>2. ASSUME NEW r \in Requests, CommitConfirmFlag(r)
        PROVE  Kept
    BY <2>2 DEF CommitConfirmFlag
  <2>3. ASSUME NEW s \in Submissions, NEW c \in credits, Redeems(c, s)
        PROVE  Kept
    BY <2>3 DEF Redeems
  <2> HIDE DEF Kept
  <2> QED
    BY <1>1, <2>1, <2>2, <2>3, CreditSteps DEF CreditInv, FlagInv, Kept
<1> QED
  BY <1>1, CreditInductive, PTL DEF Spec, CreditIsSpentOnce
=============================================================================
