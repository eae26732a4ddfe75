------------------------------ MODULE Examining ------------------------------
(***************************************************************************)
(* Examiner assignment and scoring (service/examiner.service.ts) and the   *)
(* reassignment of untouched work (service/adminOps.service.ts).           *)
(*                                                                         *)
(* The scoring handlers read which Submission an assignment belongs to,    *)
(* which never changes, then lock that Submission and read again.  They    *)
(* ask only that the caller owns the assignment: the role was checked      *)
(* when the request arrived.                                               *)
(***************************************************************************)
EXTENDS AssessmentTables

examFrame == <<accountVars, answers, page, flagVars, payVars, paymentEnabled, request>>

\* Mutant: any active EXAMINER.
IsAnyExaminer(u, s) == IsActive(u, "EXAMINER")

\* Eligible examiner: an active EXAMINER who does not own the Submission.
IsEligibleExaminer(u, s) == IsActive(u, "EXAMINER") /\ u # submission[s].owner

\* createExaminerAssignmentSet, from any caller: after routing, after payment,
\* or an Admin's retry.  One SERIALIZABLE transaction; an existing set is read
\* back without a change.
CreateExaminerAssignmentSet(s, e1, e2) ==
  /\ submission[s].status = "PAID"
  /\ \A k \in Slots : assignment[<<s, k>>].status = "NONE"
  /\ OpenFlags(s) = {}
  /\ IsEligibleExaminer(e1, s)
  /\ IsEligibleExaminer(e2, s)
  /\ e1 # e2
  /\ submission' = [submission EXCEPT ![s].status = "SCORING"]
  /\ assignment' = [a \in Assignments |->
       IF a[1] # s THEN assignment[a]
       ELSE [examiner |-> IF a[2] = 1 THEN e1 ELSE e2, status |-> "ASSIGNED",
             score |-> None]]
  /\ UNCHANGED examFrame

\* Mutant: only a VOIDED Submission stops scoring.
IsNotVoided(s) == submission[s].status # "VOIDED"

\* assertScoringNotPaused, and the VOIDED check beside it.
IsScorable(s) ==
  /\ submission[s].status \notin {"VOIDED", "FLAG_REVIEW"}
  /\ OpenFlags(s) = {}

StartExaminerAssignment(a) ==
  /\ IsScorable(a[1])
  /\ assignment[a].status = "ASSIGNED"
  /\ assignment' = [assignment EXCEPT ![a].status = "IN_PROGRESS"]
  /\ UNCHANGED <<examFrame, submission>>

\* Mutant: the assignment's status is not read again.
SaveAnyScore(a, mark) ==
  /\ IsScorable(a[1])
  /\ assignment[a].status # "NONE"
  /\ assignment' = [assignment EXCEPT ![a].score = mark]
  /\ UNCHANGED <<examFrame, submission>>

SaveExaminerScore(a, mark) ==
  /\ IsScorable(a[1])
  /\ IsOpenWork(a)
  /\ assignment' = [assignment EXCEPT ![a].score = mark, ![a].status = "IN_PROGRESS"]
  /\ UNCHANGED <<examFrame, submission>>

\* assertValidScoringLifecycle for work that is still open.
IsScoringLifecycle(s) ==
  /\ submission[s].status = "SCORING"
  /\ \E k \in Slots : assignment[<<s, k>>].status # "COMPLETED"

\* Mutant: the first Examiner's completion finishes the Submission.
CompleteAlone(a) ==
  LET s == a[1] IN
  /\ IsScorable(s)
  /\ IsScoringLifecycle(s)
  /\ IsOpenWork(a)
  /\ assignment[a].score # None
  /\ assignment' = [assignment EXCEPT ![a].status = "COMPLETED"]
  /\ submission' = [submission EXCEPT ![s].status = "SCORED"]
  /\ UNCHANGED examFrame

CompleteExaminerScoring(a) ==
  LET s == a[1] IN
  /\ IsScorable(s)
  /\ IsScoringLifecycle(s)
  /\ IsOpenWork(a)
  /\ assignment[a].score # None
  /\ assignment' = [assignment EXCEPT ![a].status = "COMPLETED"]
  /\ submission' = IF assignment[Peer(a)].status = "COMPLETED"
                     THEN [submission EXCEPT ![s].status = "SCORED"]
                     ELSE submission
  /\ UNCHANGED examFrame

\* isReassignable: untouched work of a Submission in scoring.
IsReassignable(a) ==
  /\ submission[a[1]].status \in {"SCORING", "FLAG_REVIEW"}
  /\ assignment[a].status = "ASSIGNED"
  /\ assignment[a].score = None

\* The acting Admin's row is locked with the others, so it is never stale.
ReassignExaminerAssignment(admin, a, u) ==
  /\ IsActiveAdmin(admin)
  /\ IsReassignable(a)
  /\ IsEligibleExaminer(u, a[1])
  /\ u \notin {assignment[a].examiner, assignment[Peer(a)].examiner}
  /\ assignment' = [assignment EXCEPT ![a].examiner = u]
  /\ UNCHANGED <<examFrame, submission>>

ExaminingNext ==
  \/ \E s \in Submissions, e1, e2 \in Users : CreateExaminerAssignmentSet(s, e1, e2)
  \/ \E a \in Assignments :
       \/ StartExaminerAssignment(a)
       \/ \E mark \in Marks : SaveExaminerScore(a, mark)
       \/ CompleteExaminerScoring(a)
       \/ \E admin, u \in Users : ReassignExaminerAssignment(admin, a, u)
=============================================================================
