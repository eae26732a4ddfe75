----------------------------- MODULE FlagReview -----------------------------
(***************************************************************************)
(* Flags, their review by an Admin and the retake credits a void grants    *)
(* (service/submissionFlag.service.ts).  A flag is raised by the student's *)
(* device while recording or by an Examiner while scoring; an Admin        *)
(* confirms one flag, which voids the Submission, or dismisses them one by *)
(* one until none is open.                                                 *)
(***************************************************************************)
EXTENDS AssessmentTables

(***************************************************************************)
(* routeRecordedSubmission: a recorded Submission with no open flag either *)
(* waits for payment or, when payment is off or its student holds an       *)
(* unredeemed credit, becomes PAID.  The setting is the one request r read *)
(* before its transaction.                                                 *)
(*                                                                         *)
(* The credit is taken with FOR UPDATE SKIP LOCKED: one that another       *)
(* routing transaction of the student has locked, and may yet give back by *)
(* rolling back, is passed over.  The code takes the oldest credit it can  *)
(* lock; which one is left open here.                                      *)
(***************************************************************************)
RouteTo(s, status, payable) ==
  submission' = [submission EXCEPT ![s].status = status,
                                   ![s].paymentRequired = payable,
                                   ![s].returnTo = None]

TargetSubmission(r) ==
  IF request[r].op \in {"confirm", "dismiss"} THEN flag[request[r].target].submission
  ELSE request[r].target

\* The transaction of r may hold a credit: what it locked sends it to routing.
IsRouting(r) ==
  LET s == TargetSubmission(r) IN
  /\ request[r].enabled
  /\ \/ /\ request[r].op = "complete"
        /\ submission[s].status = "IN_PROGRESS"
        /\ s \in answers
        /\ OpenFlags(s) = {}
     \/ /\ request[r].op = "dismiss"
        /\ request[r].stage = "ready"
        /\ submission[s].status = "FLAG_REVIEW"
        /\ submission[s].returnTo = None
        /\ OpenFlags(s) = {request[r].target}

\* The other transactions that may hold a credit of the same student; each
\* works on another Submission, since r has locked its own.
Rivals(r) ==
  {q \in Requests \ {r} :
     /\ IsRouting(q)
     /\ TargetSubmission(q) # TargetSubmission(r)
     /\ submission[TargetSubmission(q)].owner = submission[TargetSubmission(r)].owner}

\* Mutant: the credit is looked up without redeemedSubmissionId = NULL.
RouteWithAnyCredit(r, s) ==
  LET spendable == {c \in credits : c.student = submission[s].owner}
      charged == request[r].enabled /\ spendable = {}
  IN
  /\ IF request[r].enabled /\ spendable # {}
       THEN \E c \in spendable :
              credits' = (credits \ {c}) \cup {[c EXCEPT !.redeemedBy = s]}
       ELSE UNCHANGED credits
  /\ RouteTo(s, IF charged THEN "AWAITING_PAYMENT" ELSE "PAID", charged)

\* Mutant: one redemption marks every credit the student holds.
RouteRedeemingAll(r, s) ==
  LET spendable == UnredeemedCredits(submission[s].owner)
      charged == request[r].enabled /\ spendable = {}
  IN
  /\ credits' = IF request[r].enabled
                  THEN (credits \ spendable)
                         \cup {[c EXCEPT !.redeemedBy = s] : c \in spendable}
                  ELSE credits
  /\ RouteTo(s, IF charged THEN "AWAITING_PAYMENT" ELSE "PAID", charged)

RouteRecordedSubmission(r, s) ==
  LET spendable == UnredeemedCredits(submission[s].owner) IN
  \/ /\ ~request[r].enabled
     /\ RouteTo(s, "PAID", FALSE)
     /\ UNCHANGED credits
  \/ /\ request[r].enabled
     /\ \E c \in spendable :
          credits' = (credits \ {c}) \cup {[c EXCEPT !.redeemedBy = s]}
     /\ RouteTo(s, "PAID", FALSE)
  \/ /\ request[r].enabled
     /\ Cardinality(spendable) <= Cardinality(Rivals(r))
     /\ RouteTo(s, "AWAITING_PAYMENT", TRUE)
     /\ UNCHANGED credits

\* A new SubmissionFlag row in an unused id.
CreateFlag(f, s, source) ==
  /\ flag[f].resolution = "NONE"
  /\ flag' = [flag EXCEPT ![f] = [submission |-> s, source |-> source,
                                  resolution |-> "OPEN", resolvedBy |-> None]]

-----------------------------------------------------------------------------
(* Raising. *)

\* The device may fail at any time while recording; the status stays.
RaiseDeviceFlag(s, f) ==
  /\ submission[s].status = "IN_PROGRESS"
  /\ IsActive(submission[s].owner, "STUDENT")
  /\ CreateFlag(f, s, "STUDENT_DEVICE")
  /\ UNCHANGED <<accountVars, submission, answers, page, credits, payVars,
                 paymentEnabled, assignment, request>>

\* The assigned Examiner stops scoring; the first concern moves the Submission
\* into review, from where a dismissal brings it back to SCORING.
RaiseIntegrityConcern(a, f) ==
  LET s == a[1] IN
  /\ IsOpenWork(a)
  /\ submission[s].status \in {"SCORING", "FLAG_REVIEW"}
  /\ CreateFlag(f, s, "EXAMINER")
  /\ submission' = IF submission[s].status = "SCORING"
                     THEN [submission EXCEPT ![s].status = "FLAG_REVIEW",
                                             ![s].returnTo = "SCORING"]
                     ELSE submission
  /\ UNCHANGED <<accountVars, answers, page, credits, payVars, paymentEnabled,
                 assignment, request>>

-----------------------------------------------------------------------------
(* Resolving.  assertActiveAdmin and, for a dismissal, getAppSettings read  *)
(* before lockOpenFlag waits for the Submission row.                        *)

IsReviewable(f) ==
  /\ flag[f].resolution = "OPEN"
  /\ submission[flag[f].submission].status = "FLAG_REVIEW"

BeginConfirmFlag(r, f, u) ==
  /\ request[r].op = "idle"
  /\ flag[f].resolution = "OPEN"
  /\ IsActiveAdmin(u)
  /\ request' = [request EXCEPT ![r] =
       [op |-> "confirm", target |-> f, by |-> u, enabled |-> TRUE, stage |-> "ready"]]
  /\ UNCHANGED <<accountVars, submission, answers, page, flagVars, payVars,
                 paymentEnabled, assignment>>

\* Mutant: the flag is not read again behind the lock.
ConfirmUnchecked(r) ==
  LET f == request[r].target
      s == flag[f].submission
  IN
  /\ request[r].op = "confirm"
  /\ submission[s].status \in {"FLAG_REVIEW", "VOIDED"}
  /\ flag' = [g \in Flags |->
       IF g = f THEN [flag[g] EXCEPT !.resolution = "CONFIRMED",
                                     !.resolvedBy = request[r].by]
       ELSE IF g \in OpenFlags(s) THEN [flag[g] EXCEPT !.resolution = "SUPERSEDED"]
       ELSE flag[g]]
  /\ submission' = [submission EXCEPT ![s].status = "VOIDED", ![s].returnTo = None]
  /\ credits' = credits \cup
       {[student |-> submission[s].owner, voided |-> s, redeemedBy |-> None]}
  /\ request' = [request EXCEPT ![r] = IdleRequest]
  /\ UNCHANGED <<accountVars, answers, page, payVars, paymentEnabled, assignment>>

CommitConfirmFlag(r) ==
  LET f == request[r].target
      s == flag[f].submission
  IN
  /\ request[r].op = "confirm"
  /\ IsReviewable(f)
  /\ flag' = [g \in Flags |->
       IF g \notin OpenFlags(s) THEN flag[g]
       ELSE [flag[g] EXCEPT !.resolution = IF g = f THEN "CONFIRMED" ELSE "SUPERSEDED",
                            !.resolvedBy = request[r].by]]
  /\ submission' = [submission EXCEPT ![s].status = "VOIDED", ![s].returnTo = None]
  /\ credits' = credits \cup
       {[student |-> submission[s].owner, voided |-> s, redeemedBy |-> None]}
  /\ request' = [request EXCEPT ![r] = IdleRequest]
  /\ UNCHANGED <<accountVars, answers, page, payVars, paymentEnabled, assignment>>

\* The route asks for an ADMIN, then the handler reads the setting.
BeginDismissFlag(r, f, u) ==
  /\ request[r].op = "idle"
  /\ flag[f].resolution = "OPEN"
  /\ IsActiveAdmin(u)
  /\ request' = [request EXCEPT ![r] =
       [op |-> "dismiss", target |-> f, by |-> u, enabled |-> paymentEnabled,
        stage |-> "read"]]
  /\ UNCHANGED <<accountVars, submission, answers, page, flagVars, payVars,
                 paymentEnabled, assignment>>

CheckDismissingAdmin(r) ==
  /\ request[r].op = "dismiss"
  /\ request[r].stage = "read"
  /\ IsActiveAdmin(request[r].by)
  /\ request' = [request EXCEPT ![r].stage = "ready"]
  /\ UNCHANGED <<accountVars, submission, answers, page, flagVars, payVars,
                 paymentEnabled, assignment>>

\* Mutant: a dismissal lets the Submission go on though other flags are open.
DismissAndGoOn(r) ==
  LET f == request[r].target
      s == flag[f].submission
  IN
  /\ request[r].op = "dismiss"
  /\ request[r].stage = "ready"
  /\ IsReviewable(f)
  /\ flag' = [flag EXCEPT ![f].resolution = "DISMISSED",
                          ![f].resolvedBy = request[r].by]
  /\ IF submission[s].returnTo = None
       THEN RouteRecordedSubmission(r, s)
       ELSE RouteTo(s, submission[s].returnTo, TRUE) /\ UNCHANGED credits
  /\ request' = [request EXCEPT ![r] = IdleRequest]
  /\ UNCHANGED <<accountVars, answers, page, payVars, paymentEnabled, assignment>>

CommitDismissFlag(r) ==
  LET f == request[r].target
      s == flag[f].submission
  IN
  /\ request[r].op = "dismiss"
  /\ request[r].stage = "ready"
  /\ IsReviewable(f)
  /\ flag' = [flag EXCEPT ![f].resolution = "DISMISSED",
                          ![f].resolvedBy = request[r].by]
  /\ \/ /\ OpenFlags(s) # {f}
        /\ UNCHANGED <<submission, credits>>
     \/ /\ OpenFlags(s) = {f}
        /\ submission[s].returnTo # None
        /\ submission' = [submission EXCEPT ![s].status = submission[s].returnTo,
                                            ![s].returnTo = None]
        /\ UNCHANGED credits
     \/ /\ OpenFlags(s) = {f}
        /\ submission[s].returnTo = None
        /\ RouteRecordedSubmission(r, s)
  /\ request' = [request EXCEPT ![r] = IdleRequest]
  /\ UNCHANGED <<accountVars, answers, page, payVars, paymentEnabled, assignment>>

FlagReviewNext ==
  \/ \E s \in Submissions, f \in Flags : RaiseDeviceFlag(s, f)
  \/ \E a \in Assignments, f \in Flags : RaiseIntegrityConcern(a, f)
  \/ \E r \in Requests, f \in Flags, u \in Users :
       BeginConfirmFlag(r, f, u) \/ BeginDismissFlag(r, f, u)
  \/ \E r \in Requests :
       CommitConfirmFlag(r) \/ CheckDismissingAdmin(r) \/ CommitDismissFlag(r)
=============================================================================
