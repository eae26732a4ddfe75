-------------------------- MODULE AssessmentProofs --------------------------
(***************************************************************************)
(* Theorems about AssessmentLifecycle, for every value of its constants.   *)
(*                                                                         *)
(* TypeOK is not inductive by itself: a confirmation grants a credit for   *)
(* the Submission its flag points to, so a flag in use must point to a     *)
(* Submission, and a Submission in use must have an owner.  Linked says    *)
(* so, and TypeInv is inductive.                                           *)
(***************************************************************************)
EXTENDS AssessmentLifecycle, TLAPS

\* The foreign keys: a flag in use has its Submission, a Submission its student.
Linked ==
  /\ \A f \in Flags : flag[f].resolution # "NONE" => flag[f].submission \in Submissions
  /\ \A s \in Submissions : submission[s].status # "NONE" => submission[s].owner \in Users

TypeInv == TypeOK /\ Linked

-----------------------------------------------------------------------------
(* Every component keeps the rows well formed. *)

LEMMA InitTyped == Init => TypeInv
  BY NoneAssumption, RoleAssumption, SettingAssumption
     DEF Init, TypeInv, TypeOK, Linked, Roles, Status, SubmissionRow, PageRow, FlagRow,
         CreditRow, PaymentRow, ProviderState, AssignmentRow, RequestRow, IdleRequest

\* What a request in progress carries.
LEMMA RequestFields ==
  ASSUME TypeOK, NEW r \in Requests
  PROVE  /\ request[r].op \in {"complete", "waive"} =>
              request[r].target \in Submissions /\ request[r].by \in Users
         /\ request[r].op \in {"confirm", "dismiss"} =>
              request[r].target \in Flags /\ request[r].by \in Users
<1>1. request[r] \in RequestRow
  BY DEF TypeOK
<1>2. CASE request[r] = IdleRequest
  BY <1>2 DEF IdleRequest
<1>3. CASE request[r] \in [op : {"complete", "waive"}, target : Submissions, by : Users,
                           enabled : BOOLEAN, stage : {"ready"}]
  BY <1>3
<1>4. CASE request[r] \in [op : {"confirm", "dismiss"}, target : Flags, by : Users,
                           enabled : BOOLEAN, stage : {"read", "ready"}]
  BY <1>4
<1> QED
  BY <1>1, <1>2, <1>3, <1>4 DEF RequestRow

LEMMA RequestCleared ==
  ASSUME TypeOK, NEW r \in Requests, request' = [request EXCEPT ![r] = IdleRequest]
  PROVE  request' \in [Requests -> RequestRow]
  BY DEF TypeOK, RequestRow

\* Replacing one Submission row, its owner kept.
LEMMA RowReplaced ==
  ASSUME TypeOK, NEW s \in Submissions, NEW row \in SubmissionRow,
         row.owner = submission[s].owner,
         submission' = [submission EXCEPT ![s] = row]
  PROVE  /\ submission' \in [Submissions -> SubmissionRow]
         /\ \A t \in Submissions : submission'[t].owner = submission[t].owner
         /\ \A t \in Submissions \ {s} : submission'[t] = submission[t]
         /\ submission'[s] = row
<1>1. submission \in [Submissions -> SubmissionRow]
  BY DEF TypeOK
<1>2. submission' \in [Submissions -> SubmissionRow]
  BY <1>1
<1>3. submission'[s] = row /\ \A t \in Submissions \ {s} : submission'[t] = submission[t]
  BY <1>1
<1> QED
  BY <1>2, <1>3

LEMMA StatusReplaced ==
  ASSUME TypeOK, NEW s \in Submissions, NEW status \in Status,
         submission' = [submission EXCEPT ![s].status = status]
  PROVE  /\ submission' \in [Submissions -> SubmissionRow]
         /\ \A t \in Submissions : submission'[t].owner = submission[t].owner
         /\ \A t \in Submissions \ {s} : submission'[t] = submission[t]
         /\ submission'[s].status = status
<1>1. submission[s] \in SubmissionRow
  BY DEF TypeOK
<1>2. PICK row : row = [submission[s] EXCEPT !.status = status]
  OBVIOUS
<1>3. row \in SubmissionRow /\ row.owner = submission[s].owner /\ row.status = status
  BY <1>1, <1>2 DEF SubmissionRow
<1>4. submission' = [submission EXCEPT ![s] = row]
  BY <1>2
<1> QED
  BY <1>3, <1>4, RowReplaced

LEMMA StatusAndReturnReplaced ==
  ASSUME TypeOK, NEW s \in Submissions, NEW status \in Status,
         submission' = [submission EXCEPT ![s].status = status, ![s].returnTo = None]
  PROVE  /\ submission' \in [Submissions -> SubmissionRow]
         /\ \A t \in Submissions : submission'[t].owner = submission[t].owner
         /\ \A t \in Submissions \ {s} : submission'[t] = submission[t]
<1>1. submission[s] \in SubmissionRow
  BY DEF TypeOK
<1>2. PICK row : row = [submission[s] EXCEPT !.status = status, !.returnTo = None]
  OBVIOUS
<1>3. row \in SubmissionRow /\ row.owner = submission[s].owner
  BY <1>1, <1>2 DEF SubmissionRow
<1>4. submission' = [submission EXCEPT ![s] = row]
  BY <1>2
<1> QED
  BY <1>3, <1>4, RowReplaced

\* Routing changes one Submission row, and never its owner.
LEMMA RouteToTyped ==
  ASSUME TypeOK, NEW s \in Submissions, NEW status \in Status, NEW payable \in BOOLEAN,
         RouteTo(s, status, payable)
  PROVE  /\ submission' \in [Submissions -> SubmissionRow]
         /\ \A t \in Submissions : submission'[t].owner = submission[t].owner
         /\ \A t \in Submissions \ {s} : submission'[t] = submission[t]
         /\ submission'[s].status = status
         /\ submission'[s].returnTo = None
<1>1. submission[s] \in SubmissionRow
  BY DEF TypeOK
<1>2. PICK row : row = [submission[s] EXCEPT !.status = status, !.paymentRequired = payable,
                                           !.returnTo = None]
  OBVIOUS
<1>3. /\ row \in SubmissionRow
      /\ row.owner = submission[s].owner
      /\ row.status = status
      /\ row.returnTo = None
  BY <1>1, <1>2 DEF SubmissionRow
<1>4. submission' = [submission EXCEPT ![s] = row]
  BY <1>2 DEF RouteTo
<1> QED
  BY <1>3, <1>4, RowReplaced

LEMMA RoutingTyped ==
  ASSUME TypeOK, NEW r \in Requests, NEW s \in Submissions,
         RouteRecordedSubmission(r, s)
  PROVE  /\ submission' \in [Submissions -> SubmissionRow]
         /\ credits' \subseteq CreditRow
         /\ \A t \in Submissions : submission'[t].owner = submission[t].owner
         /\ \A t \in Submissions \ {s} : submission'[t] = submission[t]
         /\ submission'[s].status \in {"PAID", "AWAITING_PAYMENT"}
         /\ submission'[s].returnTo = None
<1>1. "PAID" \in Status /\ "AWAITING_PAYMENT" \in Status
  BY DEF Status
<1>2. \E status \in {"PAID", "AWAITING_PAYMENT"}, payable \in BOOLEAN :
        RouteTo(s, status, payable)
  BY DEF RouteRecordedSubmission
<1>3. ASSUME NEW c \in credits,
             credits' = (credits \ {c}) \cup {[c EXCEPT !.redeemedBy = s]}
      PROVE  credits' \subseteq CreditRow
  BY <1>3 DEF TypeOK, CreditRow
<1>4. credits' \subseteq CreditRow
  BY <1>3 DEF RouteRecordedSubmission, UnredeemedCredits, TypeOK
<1> QED
  BY <1>1, <1>2, <1>4, RouteToTyped

\* A new flag belongs to the Submission it is raised on.
LEMMA CreateFlagTyped ==
  ASSUME TypeInv, NEW f \in Flags, NEW s \in Submissions,
         NEW source \in {"STUDENT_DEVICE", "EXAMINER"}, CreateFlag(f, s, source)
  PROVE  /\ flag' \in [Flags -> FlagRow]
         /\ \A g \in Flags : flag'[g].resolution # "NONE" => flag'[g].submission \in Submissions
<1> DEFINE row == [submission |-> s, source |-> source, resolution |-> "OPEN",
                   resolvedBy |-> None]
<1>1. row \in FlagRow
  BY DEF FlagRow
<1>2. flag' = [flag EXCEPT ![f] = row]
  BY DEF CreateFlag
<1> QED
  BY <1>1, <1>2 DEF TypeInv, TypeOK, Linked

LEMMA RecordingTyped == TypeInv /\ RecordingNext => TypeInv'
<1> SUFFICES ASSUME TypeInv, RecordingNext PROVE TypeInv'
  OBVIOUS
<1> USE DEF TypeInv, accountVars, flagVars, payVars
<1>1. ASSUME NEW u \in Users, NEW s \in Submissions, StartAssessment(u, s)
      PROVE  TypeInv'
  <2>1. page' \in [Submissions -> PageRow]
    BY <1>1 DEF StartAssessment, TypeOK, PageRow
  <2>2. submission' \in [Submissions -> SubmissionRow]
    <3>1. submission \in [Submissions -> SubmissionRow]
      BY DEF TypeOK
    <3>2. [owner |-> u, status |-> "IN_PROGRESS", paymentRequired |-> TRUE, returnTo |-> None]
            \in SubmissionRow
      BY DEF SubmissionRow, Status
    <3>3. \A t \in Submissions : [submission[t] EXCEPT !.status = "ABANDONED"] \in SubmissionRow
      BY <3>1 DEF SubmissionRow, Status
    <3> QED
      BY <1>1, <3>1, <3>2, <3>3 DEF StartAssessment
  <2>3. \A t \in Submissions : submission'[t].status # "NONE" => submission'[t].owner \in Users
    BY <1>1 DEF StartAssessment, ActiveSubmissions, TypeOK, Linked, SubmissionRow
  <2> QED
    BY <1>1, <2>1, <2>2, <2>3 DEF StartAssessment, TypeOK, Linked
<1>2. ASSUME NEW s \in Submissions, NEW failed \in BOOLEAN, ConfirmLastUpload(s, failed)
      PROVE  TypeInv'
  <2>1. CASE UNCHANGED flag
    BY <1>2, <2>1 DEF ConfirmLastUpload, TypeOK, Linked
  <2>2. CASE \E f \in Flags : CreateFlag(f, s, "STUDENT_DEVICE")
    BY <1>2, <2>2, CreateFlagTyped DEF ConfirmLastUpload, TypeOK, Linked
  <2> QED
    BY <1>2, <2>1, <2>2 DEF ConfirmLastUpload
<1>3. ASSUME NEW s \in Submissions,
             ClosePage(s) \/ GraceElapses(s) \/ RecordSubmissionHeartbeat(s)
      PROVE  TypeInv'
  <2>1. page \in [Submissions -> PageRow]
    BY DEF TypeOK
  <2>2. ASSUME ClosePage(s)
        PROVE  page' \in [Submissions -> PageRow]
    BY <2>1, <2>2 DEF ClosePage, PageRow
  <2>3. ASSUME GraceElapses(s)
        PROVE  page' \in [Submissions -> PageRow]
    BY <2>1, <2>3 DEF GraceElapses, PageRow
  <2>4. ASSUME RecordSubmissionHeartbeat(s)
        PROVE  page' \in [Submissions -> PageRow]
    BY <2>1, <2>4 DEF RecordSubmissionHeartbeat, PageRow
  <2>5. page' \in [Submissions -> PageRow]
    BY <1>3, <2>2, <2>3, <2>4
  <2> QED
    BY <1>3, <2>5 DEF ClosePage, GraceElapses, RecordSubmissionHeartbeat, TypeOK, Linked
<1>4. ASSUME NEW s \in Submissions, AbandonSubmission(s)
      PROVE  TypeInv'
  <2>1. submission' \in [Submissions -> SubmissionRow]
    BY <1>4 DEF AbandonSubmission, TypeOK, SubmissionRow, Status
  <2>2. \A t \in Submissions : /\ submission'[t].owner = submission[t].owner
                              /\ submission'[t].status # "NONE" => submission[t].status # "NONE"
    BY <1>4 DEF AbandonSubmission, OwnerMayRecord, TypeOK, SubmissionRow
  <2> QED
    BY <1>4, <2>1, <2>2 DEF AbandonSubmission, TypeOK, Linked
<1>5. CASE AbandonStaleSubmissions
  <2>1. submission' \in [Submissions -> SubmissionRow]
    BY <1>5 DEF AbandonStaleSubmissions, TypeOK, SubmissionRow, Status
  <2>2. \A t \in Submissions : /\ submission'[t].owner = submission[t].owner
                              /\ submission'[t].status # "NONE" => submission[t].status # "NONE"
    BY <1>5 DEF AbandonStaleSubmissions, IsStale, TypeOK, SubmissionRow
  <2> QED
    BY <1>5, <2>1, <2>2 DEF AbandonStaleSubmissions, TypeOK, Linked
<1>6. ASSUME NEW r \in Requests, NEW s \in Submissions, BeginCompleteSubmission(r, s)
      PROVE  TypeInv'
  <2>1. submission[s].owner \in Users /\ paymentEnabled \in BOOLEAN
    BY <1>6 DEF BeginCompleteSubmission, OwnerMayRecord, TypeOK, Linked
  <2>2. request' \in [Requests -> RequestRow]
    BY <1>6, <2>1 DEF BeginCompleteSubmission, TypeOK, RequestRow
  <2> QED
    BY <1>6, <2>2 DEF BeginCompleteSubmission, TypeOK, Linked
<1>7. ASSUME NEW r \in Requests, CommitCompleteSubmission(r)
      PROVE  TypeInv'
  <2> DEFINE s == request[r].target
  <2>1. s \in Submissions
    BY <1>7, RequestFields DEF CommitCompleteSubmission
  <2>2. request' \in [Requests -> RequestRow]
    BY <1>7, RequestCleared DEF CommitCompleteSubmission
  <2>3. CASE /\ submission' = [submission EXCEPT ![s].status = "FLAG_REVIEW",
                                                 ![s].returnTo = None]
             /\ UNCHANGED credits
    <3>1. /\ submission' \in [Submissions -> SubmissionRow]
          /\ \A t \in Submissions : submission'[t].owner = submission[t].owner
          /\ \A t \in Submissions \ {s} : submission'[t] = submission[t]
      <4>1. "FLAG_REVIEW" \in Status
        BY DEF Status
      <4> QED
        BY <2>1, <2>3, <4>1, StatusAndReturnReplaced
    <3> QED
      BY <1>7, <2>1, <2>2, <2>3, <3>1 DEF CommitCompleteSubmission, TypeOK, Linked
  <2>4. CASE RouteRecordedSubmission(r, s)
    BY <1>7, <2>1, <2>2, <2>4, RoutingTyped
       DEF CommitCompleteSubmission, TypeOK, Linked
  <2> QED
    BY <1>7, <2>3, <2>4 DEF CommitCompleteSubmission
<1> QED
  BY <1>1, <1>2, <1>3, <1>4, <1>5, <1>6, <1>7 DEF RecordingNext

LEMMA FlagReviewTyped == TypeInv /\ FlagReviewNext => TypeInv'
<1> SUFFICES ASSUME TypeInv, FlagReviewNext PROVE TypeInv'
  OBVIOUS
<1> USE DEF TypeInv, accountVars, flagVars, payVars
<1>1. ASSUME NEW s \in Submissions, NEW f \in Flags, RaiseDeviceFlag(s, f)
      PROVE  TypeInv'
  BY <1>1, CreateFlagTyped DEF RaiseDeviceFlag, TypeOK, Linked
<1>2. ASSUME NEW a \in Assignments, NEW f \in Flags, RaiseIntegrityConcern(a, f)
      PROVE  TypeInv'
  <2>1. a[1] \in Submissions
    BY DEF Assignments
  <2>2. CreateFlag(f, a[1], "EXAMINER")
    BY <1>2 DEF RaiseIntegrityConcern
  <2>3. /\ submission' \in [Submissions -> SubmissionRow]
        /\ \A t \in Submissions : /\ submission'[t].owner = submission[t].owner
                                 /\ submission'[t].status # "NONE" => submission[t].status # "NONE"
    BY <1>2, <2>1 DEF RaiseIntegrityConcern, TypeOK, SubmissionRow, Status
  <2> QED
    BY <1>2, <2>1, <2>2, <2>3, CreateFlagTyped DEF RaiseIntegrityConcern, TypeOK, Linked
<1>3. ASSUME NEW r \in Requests, NEW f \in Flags, NEW u \in Users,
             BeginConfirmFlag(r, f, u) \/ BeginDismissFlag(r, f, u)
      PROVE  TypeInv'
  <2>1. PICK row \in [op : {"confirm", "dismiss"}, target : Flags, by : Users,
                     enabled : BOOLEAN, stage : {"read", "ready"}] :
               request' = [request EXCEPT ![r] = row]
    BY <1>3 DEF BeginConfirmFlag, BeginDismissFlag, TypeOK
  <2>2. request' \in [Requests -> RequestRow]
    BY <2>1 DEF TypeOK, RequestRow
  <2> QED
    BY <1>3, <2>2 DEF BeginConfirmFlag, BeginDismissFlag, TypeOK, Linked
<1>4. ASSUME NEW r \in Requests, CheckDismissingAdmin(r)
      PROVE  TypeInv'
  <2>1. request' \in [Requests -> RequestRow]
    BY <1>4 DEF CheckDismissingAdmin, TypeOK, RequestRow, IdleRequest
  <2> QED
    BY <1>4, <2>1 DEF CheckDismissingAdmin, TypeOK, Linked
<1>5. ASSUME NEW r \in Requests, CommitConfirmFlag(r)
      PROVE  TypeInv'
  <2> DEFINE f == request[r].target
             s == flag[f].submission
  <2>1. /\ f \in Flags
        /\ request[r].by \in Users
        /\ request' \in [Requests -> RequestRow]
    BY <1>5, RequestFields, RequestCleared DEF CommitConfirmFlag
  <2>2. s \in Submissions /\ submission[s].owner \in Users
    BY <1>5, <2>1 DEF CommitConfirmFlag, IsReviewable, Linked
  <2>3. /\ flag' = [g \in Flags |->
             IF g \notin OpenFlags(s) THEN flag[g]
             ELSE [flag[g] EXCEPT
                     !.resolution = IF g = f THEN "CONFIRMED" ELSE "SUPERSEDED",
                     !.resolvedBy = request[r].by]]
        /\ submission' = [submission EXCEPT ![s].status = "VOIDED", ![s].returnTo = None]
        /\ credits' = credits \cup
             {[student |-> submission[s].owner, voided |-> s, redeemedBy |-> None]}
    BY <1>5 DEF CommitConfirmFlag
  <2>4. ASSUME NEW g \in Flags
        PROVE  /\ flag'[g] \in FlagRow
               /\ flag'[g].submission = flag[g].submission
               /\ flag'[g].resolution # "NONE" => flag[g].resolution # "NONE"
    <3>1. flag[g] \in FlagRow
      BY DEF TypeOK
    <3>2. CASE g \notin OpenFlags(s)
      BY <2>3, <3>1, <3>2
    <3>3. CASE g \in OpenFlags(s)
      BY <2>1, <2>3, <3>1, <3>3 DEF FlagRow, OpenFlags
    <3> QED
      BY <3>2, <3>3
  <2>5. /\ submission' \in [Submissions -> SubmissionRow]
        /\ submission'[s].owner = submission[s].owner
        /\ \A t \in Submissions \ {s} : submission'[t] = submission[t]
    <3>1. "VOIDED" \in Status
      BY DEF Status
    <3> QED
      BY <2>2, <2>3, <3>1, StatusAndReturnReplaced
  <2>6. credits' \subseteq CreditRow
    <3>1. [student |-> submission[s].owner, voided |-> s, redeemedBy |-> None] \in CreditRow
      BY <2>2 DEF CreditRow
    <3>2. credits \subseteq CreditRow
      BY DEF TypeOK
    <3> QED
      BY <2>3, <3>1, <3>2
  <2>7. flag' \in [Flags -> FlagRow]
    BY <2>3, <2>4
  <2>8. Linked'
    BY <2>2, <2>4, <2>5 DEF Linked
  <2> QED
    BY <1>5, <2>1, <2>5, <2>6, <2>7, <2>8 DEF CommitConfirmFlag, TypeOK
<1>6. ASSUME NEW r \in Requests, CommitDismissFlag(r)
      PROVE  TypeInv'
  <2> DEFINE f == request[r].target
             s == flag[f].submission
  <2>1. /\ f \in Flags
        /\ request[r].by \in Users
        /\ request' \in [Requests -> RequestRow]
    BY <1>6, RequestFields, RequestCleared DEF CommitDismissFlag
  <2>2. s \in Submissions /\ submission[s].owner \in Users
    BY <1>6, <2>1 DEF CommitDismissFlag, IsReviewable, Linked
  <2>3. /\ flag' \in [Flags -> FlagRow]
        /\ \A g \in Flags : /\ flag'[g].submission = flag[g].submission
                            /\ flag'[g].resolution # "NONE" => flag[g].resolution # "NONE"
    <3>1. flag' = [flag EXCEPT ![f].resolution = "DISMISSED",
                               ![f].resolvedBy = request[r].by]
      BY <1>6 DEF CommitDismissFlag
    <3>2. flag[f].resolution = "OPEN"
      BY <1>6 DEF CommitDismissFlag, IsReviewable
    <3> QED
      BY <2>1, <3>1, <3>2 DEF TypeOK, FlagRow
  <2>4. CASE UNCHANGED <<submission, credits>>
    BY <1>6, <2>1, <2>3, <2>4 DEF CommitDismissFlag, TypeOK, Linked
  <2>5. CASE /\ submission[s].returnTo # None
             /\ submission' = [submission EXCEPT ![s].status = submission[s].returnTo,
                                                 ![s].returnTo = None]
             /\ UNCHANGED credits
    <3>1. submission[s].returnTo = "SCORING"
      BY <2>2, <2>5 DEF TypeOK, SubmissionRow
    <3>2. /\ submission' \in [Submissions -> SubmissionRow]
          /\ \A t \in Submissions : submission'[t].owner = submission[t].owner
          /\ \A t \in Submissions \ {s} : submission'[t] = submission[t]
      <4>1. "SCORING" \in Status
        BY DEF Status
      <4> QED
        BY <2>2, <2>5, <3>1, <4>1, StatusAndReturnReplaced
    <3>3. Linked'
      BY <2>2, <2>3, <3>2 DEF Linked
    <3> QED
      BY <1>6, <2>1, <2>3, <2>5, <3>2, <3>3 DEF CommitDismissFlag, TypeOK
  <2>6. CASE RouteRecordedSubmission(r, s)
    <3>1. Linked'
      BY <2>2, <2>3, <2>6, RoutingTyped DEF Linked
    <3> QED
      BY <1>6, <2>1, <2>2, <2>3, <2>6, <3>1, RoutingTyped DEF CommitDismissFlag, TypeOK
  <2> QED
    BY <1>6, <2>4, <2>5, <2>6 DEF CommitDismissFlag
<1> QED
  BY <1>1, <1>2, <1>3, <1>4, <1>5, <1>6 DEF FlagReviewNext

LEMMA PaymentsTyped == TypeInv /\ PaymentsNext => TypeInv'
<1> SUFFICES ASSUME TypeInv, PaymentsNext PROVE TypeInv'
  OBVIOUS
<1> USE DEF TypeInv, accountVars, flagVars, payVars, payFrame
<1>1. ASSUME NEW p \in Payments, NEW s \in Submissions, CreateIpaymuCheckout(p, s)
      PROVE  TypeInv'
  <2>1. [submission |-> s, status |-> "PENDING", calling |-> TRUE] \in PaymentRow
    BY DEF PaymentRow
  <2>2. payment' \in [Payments -> PaymentRow]
    BY <1>1, <2>1 DEF CreateIpaymuCheckout, TypeOK
  <2> QED
    BY <1>1, <2>2 DEF CreateIpaymuCheckout, TypeOK, Linked
<1>2. ASSUME NEW p \in Payments, CheckoutReturns(p) \/ CheckoutRejected(p) \/ NotifyFailed(p)
      PROVE  TypeInv'
  <2>1. payment \in [Payments -> PaymentRow]
    BY DEF TypeOK
  <2>2. ASSUME CheckoutReturns(p)
        PROVE  payment' \in [Payments -> PaymentRow]
    BY <2>1, <2>2 DEF CheckoutReturns, PaymentRow
  <2>3. ASSUME CheckoutRejected(p)
        PROVE  payment' \in [Payments -> PaymentRow]
    BY <2>1, <2>3 DEF CheckoutRejected, PaymentRow
  <2>4. ASSUME NotifyFailed(p)
        PROVE  payment' \in [Payments -> PaymentRow]
    BY <2>1, <2>4 DEF NotifyFailed, PaymentRow
  <2>5. payment' \in [Payments -> PaymentRow]
    BY <1>2, <2>2, <2>3, <2>4
  <2> QED
    BY <1>2, <2>5 DEF CheckoutReturns, CheckoutRejected, NotifyFailed, TypeOK, Linked
<1>3. ASSUME NEW p \in Payments, NotifySuccess(p)
      PROVE  TypeInv'
  <2>1. payment' \in [Payments -> PaymentRow]
    BY <1>3 DEF NotifySuccess, TypeOK, PaymentRow
  <2>2. /\ submission' \in [Submissions -> SubmissionRow]
        /\ \A t \in Submissions : /\ submission'[t].owner = submission[t].owner
                                 /\ submission'[t].status # "NONE" => submission[t].status # "NONE"
    <3> DEFINE s == payment[p].submission
    <3>1. submission \in [Submissions -> SubmissionRow] /\ "PAID" \in Status
      BY DEF TypeOK, Status
    <3>2. CASE submission' = submission
      BY <3>1, <3>2
    <3>3. CASE /\ submission[s].status = "AWAITING_PAYMENT"
               /\ submission' = [submission EXCEPT ![s].status = "PAID"]
      <4>1. CASE s \notin Submissions
        BY <3>1, <3>3, <4>1
      <4>2. CASE s \in Submissions
        BY <3>1, <3>3, <4>2, StatusReplaced
      <4> QED
        BY <4>1, <4>2
    <3> QED
      BY <1>3, <3>2, <3>3 DEF NotifySuccess
  <2> QED
    BY <1>3, <2>1, <2>2 DEF NotifySuccess, TypeOK, Linked
<1>4. ASSUME NEW p \in Payments, ProviderCollects(p) \/ ProviderAnswers(p, "open")
                                  \/ ProviderAnswers(p, "rejected")
      PROVE  TypeInv'
  <2>1. provider' \in [Payments -> ProviderState]
    BY <1>4 DEF ProviderCollects, ProviderAnswers, TypeOK, ProviderState
  <2> QED
    BY <1>4, <2>1 DEF ProviderCollects, ProviderAnswers, TypeOK, Linked
<1>5. ASSUME NEW r \in Requests, NEW s \in Submissions, NEW u \in Users,
             BeginWaiveSubmissionPayment(r, s, u)
      PROVE  TypeInv'
  <2>1. [op |-> "waive", target |-> s, by |-> u, enabled |-> TRUE, stage |-> "ready"]
          \in RequestRow
    BY DEF RequestRow
  <2>2. request' \in [Requests -> RequestRow]
    BY <1>5, <2>1 DEF BeginWaiveSubmissionPayment, TypeOK
  <2> QED
    BY <1>5, <2>2 DEF BeginWaiveSubmissionPayment, TypeOK, Linked
<1>6. ASSUME NEW r \in Requests, CommitWaiveSubmissionPayment(r)
      PROVE  TypeInv'
  <2> DEFINE s == request[r].target
  <2>1. s \in Submissions /\ request' \in [Requests -> RequestRow]
    BY <1>6, RequestFields, RequestCleared DEF CommitWaiveSubmissionPayment
  <2>2. submission' = [submission EXCEPT ![s].paymentRequired = FALSE, ![s].status = "PAID"]
    BY <1>6 DEF CommitWaiveSubmissionPayment
  <2>3. submission[s].status = "AWAITING_PAYMENT"
    BY <1>6 DEF CommitWaiveSubmissionPayment
  <2>4. /\ submission' \in [Submissions -> SubmissionRow]
        /\ \A t \in Submissions : /\ submission'[t].owner = submission[t].owner
                                 /\ submission'[t].status # "NONE" => submission[t].status # "NONE"
    <3>1. submission[s] \in SubmissionRow
      BY <2>1 DEF TypeOK
    <3>2. PICK row : row = [submission[s] EXCEPT !.paymentRequired = FALSE, !.status = "PAID"]
      OBVIOUS
    <3>3. row \in SubmissionRow /\ row.owner = submission[s].owner
      BY <3>1, <3>2 DEF SubmissionRow, Status
    <3>4. submission' = [submission EXCEPT ![s] = row]
      BY <2>2, <3>2
    <3> QED
      BY <2>1, <2>3, <3>3, <3>4, RowReplaced
  <2> QED
    BY <1>6, <2>1, <2>4 DEF CommitWaiveSubmissionPayment, TypeOK, Linked
<1>7. ASSUME NEW enabled \in SettingValues, UpdatePaymentEnabled(enabled)
      PROVE  TypeInv'
  BY <1>7, SettingAssumption DEF UpdatePaymentEnabled, TypeOK, Linked
<1> QED
  BY <1>1, <1>2, <1>3, <1>4, <1>5, <1>6, <1>7 DEF PaymentsNext

LEMMA ExaminingTyped == TypeInv /\ ExaminingNext => TypeInv'
<1> SUFFICES ASSUME TypeInv, ExaminingNext PROVE TypeInv'
  OBVIOUS
<1> USE DEF TypeInv, accountVars, flagVars, payVars, examFrame
<1>1. ASSUME NEW s \in Submissions, NEW e1 \in Users, NEW e2 \in Users,
             CreateExaminerAssignmentSet(s, e1, e2)
      PROVE  TypeInv'
  <2>1. assignment' \in [Assignments -> AssignmentRow]
    BY <1>1 DEF CreateExaminerAssignmentSet, TypeOK, AssignmentRow
  <2>2. /\ submission' \in [Submissions -> SubmissionRow]
        /\ \A t \in Submissions : /\ submission'[t].owner = submission[t].owner
                                 /\ submission'[t].status # "NONE" => submission[t].status # "NONE"
    <3>1. "SCORING" \in Status /\ submission[s].status # "NONE"
      BY <1>1 DEF CreateExaminerAssignmentSet, Status
    <3>2. submission' = [submission EXCEPT ![s].status = "SCORING"]
      BY <1>1 DEF CreateExaminerAssignmentSet
    <3> QED
      BY <3>1, <3>2, StatusReplaced
  <2> QED
    BY <1>1, <2>1, <2>2 DEF CreateExaminerAssignmentSet, TypeOK, Linked
<1>2. ASSUME NEW a \in Assignments, StartExaminerAssignment(a)
      PROVE  TypeInv'
  <2>1. assignment' \in [Assignments -> AssignmentRow]
    BY <1>2 DEF StartExaminerAssignment, TypeOK, AssignmentRow
  <2> QED
    BY <1>2, <2>1 DEF StartExaminerAssignment, TypeOK, Linked
<1>3. ASSUME NEW a \in Assignments, NEW mark \in Marks, SaveExaminerScore(a, mark)
      PROVE  TypeInv'
  <2>1. assignment' \in [Assignments -> AssignmentRow]
    <3>1. /\ assignment' = [assignment EXCEPT ![a].score = mark, ![a].status = "IN_PROGRESS"]
          /\ assignment \in [Assignments -> AssignmentRow]
      BY <1>3 DEF SaveExaminerScore, TypeOK
    <3> QED
      BY <3>1 DEF AssignmentRow
  <2> QED
    BY <1>3, <2>1 DEF SaveExaminerScore, TypeOK, Linked
<1>4. ASSUME NEW a \in Assignments, CompleteExaminerScoring(a)
      PROVE  TypeInv'
  <2>1. assignment' \in [Assignments -> AssignmentRow]
    BY <1>4 DEF CompleteExaminerScoring, TypeOK, AssignmentRow
  <2>2. /\ submission' \in [Submissions -> SubmissionRow]
        /\ \A t \in Submissions : /\ submission'[t].owner = submission[t].owner
                                 /\ submission'[t].status # "NONE" => submission[t].status # "NONE"
    <3>1. submission \in [Submissions -> SubmissionRow] /\ "SCORED" \in Status
      BY DEF TypeOK, Status
    <3>2. a[1] \in Submissions /\ submission[a[1]].status # "NONE"
      BY <1>4 DEF CompleteExaminerScoring, IsScoringLifecycle, Assignments
    <3>3. CASE submission' = submission
      BY <3>1, <3>3
    <3>4. CASE submission' = [submission EXCEPT ![a[1]].status = "SCORED"]
      BY <3>1, <3>2, <3>4, StatusReplaced
    <3> QED
      BY <1>4, <3>3, <3>4 DEF CompleteExaminerScoring
  <2> QED
    BY <1>4, <2>1, <2>2 DEF CompleteExaminerScoring, TypeOK, Linked
<1>5. ASSUME NEW a \in Assignments, NEW admin \in Users, NEW u \in Users,
             ReassignExaminerAssignment(admin, a, u)
      PROVE  TypeInv'
  <2>1. assignment' \in [Assignments -> AssignmentRow]
    BY <1>5 DEF ReassignExaminerAssignment, TypeOK, AssignmentRow
  <2> QED
    BY <1>5, <2>1 DEF ReassignExaminerAssignment, TypeOK, Linked
<1> QED
  BY <1>1, <1>2, <1>3, <1>4, <1>5 DEF ExaminingNext

LEMMA TransitionTyped ==
  ASSUME TypeInv, NEW admin \in Users, NEW u \in Users, NEW newRole \in Roles,
         NEW deactivate \in BOOLEAN, Transition(admin, u, newRole, deactivate)
  PROVE  TypeInv'
<1> USE DEF TypeInv, accountVars, flagVars, payVars, accountFrame
<1>1. role' \in [Users -> Roles] /\ active' \in [Users -> BOOLEAN]
  BY DEF Transition, TypeOK
<1>2. assignment' \in [Assignments -> AssignmentRow]
  <2>1. CASE UNCHANGED assignment
    BY <2>1 DEF TypeOK
  <2>2. ASSUME NEW map \in [OpenAssignments(u) -> Users],
               assignment' = [a \in Assignments |->
                  IF a \in OpenAssignments(u)
                    THEN [assignment[a] EXCEPT !.examiner = map[a]]
                    ELSE assignment[a]]
        PROVE  assignment' \in [Assignments -> AssignmentRow]
    BY <2>2 DEF TypeOK, AssignmentRow
  <2> QED
    BY <2>1, <2>2 DEF Transition
<1>3. Linked'
  BY DEF Transition, Linked
<1> QED
  BY <1>1, <1>2, <1>3 DEF Transition, TypeOK

LEMMA AccountsTyped ==
  ASSUME TypeInv, AccountsNext, Movable \subseteq Users
  PROVE  TypeInv'
<1>1. ASSUME NEW admin \in Users, NEW u \in Movable, NEW newRole \in Roles,
             TransitionAccountRole(admin, u, newRole)
      PROVE  TypeInv'
  BY <1>1, TransitionTyped DEF TransitionAccountRole
<1>2. ASSUME NEW admin \in Users, NEW u \in Movable, DeactivateAccount(admin, u)
      PROVE  TypeInv'
  <2>1. role[u] \in Roles
    BY DEF TypeInv, TypeOK
  <2> QED
    BY <1>2, <2>1, TransitionTyped DEF DeactivateAccount
<1> QED
  BY <1>1, <1>2 DEF AccountsNext

LEMMA NextTyped == TypeInv /\ [Next]_vars => TypeInv'
<1> SUFFICES ASSUME TypeInv, [Next]_vars PROVE TypeInv'
  OBVIOUS
<1>1. ASSUME NEW r \in Requests, RequestEnds(r)
      PROVE  TypeInv'
  <2>1. request' \in [Requests -> RequestRow]
    BY <1>1, RequestCleared DEF RequestEnds, TypeInv
  <2> QED
    BY <1>1, <2>1 DEF RequestEnds, TypeInv, TypeOK, Linked, accountVars, flagVars, payVars
<1>2. CASE UNCHANGED vars
  BY <1>2 DEF vars, TypeInv, TypeOK, Linked
<1> QED
  BY <1>1, <1>2, RecordingTyped, FlagReviewTyped, PaymentsTyped, ExaminingTyped,
     AccountsTyped, MovableAssumption DEF Next

\* Every row of every table stays well formed, whatever requests interleave.
THEOREM TypeSafety == Spec => []TypeOK
<1>1. Init => TypeInv
  BY InitTyped
<1>2. TypeInv /\ [Next]_vars => TypeInv'
  BY NextTyped
<1>3. TypeInv => TypeOK
  BY DEF TypeInv
<1> QED
  BY <1>1, <1>2, <1>3, PTL DEF Spec

-----------------------------------------------------------------------------
(* Administrators: they may demote and deactivate each other in any order.  *)
(* One who acts on another one stays; one who acts on the own account is    *)
(* refused unless another is active.                                        *)

LEMMA TransitionKeepsAnAdmin ==
  ASSUME TypeInv, NEW admin \in Users, NEW u \in Users, NEW newRole \in Roles,
         NEW deactivate \in BOOLEAN, Transition(admin, u, newRole, deactivate)
  PROVE  AnAdminRemains'
<1>1. /\ role \in [Users -> Roles]
      /\ active \in [Users -> BOOLEAN]
  BY DEF TypeInv, TypeOK
<1>2. \A v \in Users \ {u} : role'[v] = role[v] /\ active'[v] = active[v]
  BY <1>1 DEF Transition
<1>3. CASE admin # u
  BY <1>2, <1>3 DEF Transition, IsActiveAdmin, IsActive, AnAdminRemains
<1>4. CASE admin = u /\ (deactivate \/ newRole # "ADMIN")
  <2>1. KeepsAnAdmin(u)
    BY <1>4 DEF Transition, IsActiveAdmin, IsActive
  <2> QED
    BY <1>2, <2>1 DEF KeepsAnAdmin, IsActiveAdmin, IsActive, AnAdminRemains
<1>5. CASE admin = u /\ ~deactivate /\ newRole = "ADMIN"
  BY <1>1, <1>5 DEF Transition, IsActiveAdmin, IsActive, AnAdminRemains
<1> QED
  BY <1>3, <1>4, <1>5

\* Only an account transition changes an account.
LEMMA AccountsOnly ==
  ASSUME [Next]_vars
  PROVE  AccountsNext \/ UNCHANGED <<role, active>>
<1> USE DEF accountVars, flagVars, payVars
<1>1. RecordingNext => UNCHANGED <<role, active>>
  BY DEF RecordingNext, StartAssessment, ConfirmLastUpload, ClosePage, GraceElapses,
         RecordSubmissionHeartbeat, AbandonSubmission, AbandonStaleSubmissions,
         BeginCompleteSubmission, CommitCompleteSubmission
<1>2. FlagReviewNext => UNCHANGED <<role, active>>
  BY DEF FlagReviewNext, RaiseDeviceFlag, RaiseIntegrityConcern, BeginConfirmFlag,
         CommitConfirmFlag, BeginDismissFlag, CheckDismissingAdmin, CommitDismissFlag
<1>3. ExaminingNext => UNCHANGED <<role, active>>
  BY DEF ExaminingNext, CreateExaminerAssignmentSet, StartExaminerAssignment,
         SaveExaminerScore, CompleteExaminerScoring, ReassignExaminerAssignment, examFrame
<1>4. PaymentsNext => UNCHANGED <<role, active>>
  BY DEF PaymentsNext, CreateIpaymuCheckout, CheckoutReturns, CheckoutRejected, NotifyFailed,
         NotifySuccess, ProviderAnswers, ProviderCollects, BeginWaiveSubmissionPayment,
         CommitWaiveSubmissionPayment, UpdatePaymentEnabled, payFrame
<1>5. (\E r \in Requests : RequestEnds(r)) => UNCHANGED <<role, active>>
  BY DEF RequestEnds
<1>6. UNCHANGED vars => UNCHANGED <<role, active>>
  BY DEF vars
<1> QED
  BY <1>1, <1>2, <1>3, <1>4, <1>5, <1>6 DEF Next

\* There is always an active administrator, whoever demotes or deactivates whom.
THEOREM AdminRemains == Spec => []AnAdminRemains
<1> DEFINE Inv == TypeInv /\ AnAdminRemains
<1>1. Init => Inv
  BY InitTyped, RoleAssumption DEF Init, AnAdminRemains, IsActiveAdmin, IsActive
<1>2. Inv /\ [Next]_vars => Inv'
  <2> SUFFICES ASSUME Inv, [Next]_vars PROVE AnAdminRemains'
    BY NextTyped
  <2>1. CASE UNCHANGED <<role, active>>
    BY <2>1 DEF AnAdminRemains, IsActiveAdmin, IsActive
  <2>2. ASSUME NEW admin \in Users, NEW u \in Movable, NEW newRole \in Roles,
               TransitionAccountRole(admin, u, newRole)
        PROVE  AnAdminRemains'
    BY <2>2, MovableAssumption, TransitionKeepsAnAdmin DEF TransitionAccountRole
  <2>3. ASSUME NEW admin \in Users, NEW u \in Movable, DeactivateAccount(admin, u)
        PROVE  AnAdminRemains'
    <3>1. u \in Users /\ role[u] \in Roles
      BY MovableAssumption DEF TypeInv, TypeOK
    <3> QED
      BY <2>3, <3>1, TransitionKeepsAnAdmin DEF DeactivateAccount
  <2> QED
    BY <2>1, <2>2, <2>3, AccountsOnly DEF AccountsNext
<1> QED
  BY <1>1, <1>2, PTL DEF Spec
=============================================================================
