----------------------- MODULE MCAssessmentLifecycle -----------------------
(***************************************************************************)
(* Instances of AssessmentLifecycle for TLC.  Each configuration chooses   *)
(* who starts as what and how many rows of each table exist; a pool of row *)
(* ids is the only bound on the number of rows.                            *)
(***************************************************************************)
EXTENDS AssessmentLifecycle, TLC

CONSTANTS Admins, Examiners   \* the accounts that start in these roles

MCInitialRole ==
  [u \in Users |-> IF u \in Admins THEN "ADMIN"
                   ELSE IF u \in Examiners THEN "EXAMINER"
                   ELSE "STUDENT"]

\* Ids that the specification never tells apart; accounts are interchangeable
\* when they start in the same role and can move alike.  Used for safety only.
RowSymmetry ==
  Permutations(Submissions) \cup Permutations(Flags)
    \cup Permutations(Payments) \cup Permutations(Requests)

ExaminerSymmetry ==
  RowSymmetry \cup Permutations(Marks) \cup Permutations(Examiners \ Movable)

ActiveIds == {s \in Submissions : submission[s].status = "IN_PROGRESS"}

\* What a page or an Answer set was is read only while its Submission records:
\* states that differ in it later have the same futures.
View ==
  <<role, active, submission, flag, credits, payment, provider, waived,
    paymentEnabled, assignment, request,
    [s \in ActiveIds |-> <<page[s], s \in answers>>]>>
=============================================================================
