------------------------------ MODULE Recording ------------------------------
(***************************************************************************)
(* The recording phase of a Submission: its start, its Heartbeat, the      *)
(* upload that makes its Answer set exact, abandonment by the student or   *)
(* by the sweeper, and completion (service/submission.service.ts, with the *)
(* effects on these tables of service/manifestSubmissionInitialization and *)
(* service/upload).                                                        *)
(***************************************************************************)
EXTENDS FlagReview

\* The routes of this phase are open to an active STUDENT only.
OwnerMayRecord(s) ==
  /\ submission[s].status = "IN_PROGRESS"
  /\ IsActive(submission[s].owner, "STUDENT")

(***************************************************************************)
(* initializeManifestSubmission: a student has one IN_PROGRESS Submission  *)
(* (a partial unique index).  An active one that still matches the         *)
(* Question bank is a conflict; one that does not is superseded, in the    *)
(* transaction that creates its replacement.  The bank itself is left out, *)
(* so either may happen.                                                   *)
(***************************************************************************)
StartAssessment(u, s) ==
  /\ IsActive(u, "STUDENT")
  /\ submission[s].status = "NONE"
  /\ submission' = [t \in Submissions |->
       IF t = s THEN [owner |-> u, status |-> "IN_PROGRESS",
                      paymentRequired |-> TRUE, returnTo |-> None]
       ELSE IF t \in ActiveSubmissions(u) THEN [submission[t] EXCEPT !.status = "ABANDONED"]
       ELSE submission[t]]
  /\ page' = [page EXCEPT ![s] = [open |-> TRUE, fresh |-> TRUE]]
  /\ UNCHANGED <<accountVars, answers, flagVars, payVars, paymentEnabled,
                 assignment, request>>

\* confirmUpload of the Answer that makes the set exact and verified; a failed
\* or too short take commits its flag with it.
ConfirmLastUpload(s, failed) ==
  /\ OwnerMayRecord(s)
  /\ s \notin answers
  /\ answers' = answers \cup {s}
  /\ \/ ~failed /\ UNCHANGED flag
     \/ failed /\ \E f \in Flags : CreateFlag(f, s, "STUDENT_DEVICE")
  /\ UNCHANGED <<accountVars, submission, page, credits, payVars, paymentEnabled,
                 assignment, request>>

-----------------------------------------------------------------------------
(* The page, its Heartbeat, and the two ways a Submission is abandoned. *)

\* After recording the page no longer matters.
ClosePage(s) ==
  /\ submission[s].status = "IN_PROGRESS"
  /\ page[s].open
  /\ page' = [page EXCEPT ![s].open = FALSE]
  /\ UNCHANGED <<accountVars, submission, answers, flagVars, payVars,
                 paymentEnabled, assignment, request>>

\* The grace period passes without a Heartbeat.
GraceElapses(s) ==
  /\ submission[s].status = "IN_PROGRESS"
  /\ page[s].fresh
  /\ page' = [page EXCEPT ![s].fresh = FALSE]
  /\ UNCHANGED <<accountVars, submission, answers, flagVars, payVars,
                 paymentEnabled, assignment, request>>

RecordSubmissionHeartbeat(s) ==
  /\ page[s].open
  /\ OwnerMayRecord(s)
  /\ page' = [page EXCEPT ![s].fresh = TRUE]
  /\ UNCHANGED <<accountVars, submission, answers, flagVars, payVars,
                 paymentEnabled, assignment, request>>

AbandonSubmission(s) ==
  /\ OwnerMayRecord(s)
  /\ submission' = [submission EXCEPT ![s].status = "ABANDONED"]
  /\ UNCHANGED <<accountVars, answers, page, flagVars, payVars, paymentEnabled,
                 assignment, request>>

\* Mutant: the sweeper spares a Submission whose Answers are all there.
IsStaleAndUnanswered(s) ==
  submission[s].status = "IN_PROGRESS" /\ ~page[s].fresh /\ s \notin answers

IsStale(s) == submission[s].status = "IN_PROGRESS" /\ ~page[s].fresh

\* One UPDATE for all the Submissions whose Heartbeat is too old.
AbandonStaleSubmissions ==
  /\ \E s \in Submissions : IsStale(s)
  /\ submission' = [s \in Submissions |->
       IF IsStale(s) THEN [submission[s] EXCEPT !.status = "ABANDONED"]
       ELSE submission[s]]
  /\ UNCHANGED <<accountVars, answers, page, flagVars, payVars, paymentEnabled,
                 assignment, request>>

-----------------------------------------------------------------------------
(* Completion: the setting is read before the transaction that locks the    *)
(* row.  A request for a Submission that is already past recording is a     *)
(* no-op or an error, and ends as any other (RequestEnds).                  *)

BeginCompleteSubmission(r, s) ==
  /\ request[r].op = "idle"
  /\ OwnerMayRecord(s)
  /\ request' = [request EXCEPT ![r] =
       [op |-> "complete", target |-> s, by |-> submission[s].owner,
        enabled |-> paymentEnabled, stage |-> "ready"]]
  /\ UNCHANGED <<accountVars, submission, answers, page, flagVars, payVars,
                 paymentEnabled, assignment>>

\* Mutant: completion does not look at the flags.
CompleteDespiteFlags(r) ==
  LET s == request[r].target IN
  /\ request[r].op = "complete"
  /\ submission[s].status = "IN_PROGRESS"
  /\ s \in answers
  /\ RouteRecordedSubmission(r, s)
  /\ request' = [request EXCEPT ![r] = IdleRequest]
  /\ UNCHANGED <<accountVars, answers, page, flag, payVars, paymentEnabled, assignment>>

CommitCompleteSubmission(r) ==
  LET s == request[r].target IN
  /\ request[r].op = "complete"
  /\ submission[s].status = "IN_PROGRESS"
  /\ s \in answers
  /\ \/ /\ OpenFlags(s) # {}
        /\ submission' = [submission EXCEPT ![s].status = "FLAG_REVIEW",
                                            ![s].returnTo = None]
        /\ UNCHANGED credits
     \/ /\ OpenFlags(s) = {}
        /\ RouteRecordedSubmission(r, s)
  /\ request' = [request EXCEPT ![r] = IdleRequest]
  /\ UNCHANGED <<accountVars, answers, page, flag, payVars, paymentEnabled, assignment>>

RecordingNext ==
  \/ \E u \in Users, s \in Submissions : StartAssessment(u, s)
  \/ \E s \in Submissions :
       \/ \E failed \in BOOLEAN : ConfirmLastUpload(s, failed)
       \/ ClosePage(s)
       \/ GraceElapses(s)
       \/ RecordSubmissionHeartbeat(s)
       \/ AbandonSubmission(s)
  \/ AbandonStaleSubmissions
  \/ \E r \in Requests, s \in Submissions : BeginCompleteSubmission(r, s)
  \/ \E r \in Requests : CommitCompleteSubmission(r)
=============================================================================
