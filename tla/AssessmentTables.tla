-------------------------- MODULE AssessmentTables --------------------------
(***************************************************************************)
(* The tables of the FluentCheck backend that decide what happens to one   *)
(* Submission after it is started: accounts, Submissions, flags, retake    *)
(* credits, payments, waivers and Examiner assignments, together with the  *)
(* parts of the environment the code reacts to (the student's page, the    *)
(* payment provider) and the requests that have left the database between  *)
(* two reads.                                                              *)
(*                                                                         *)
(* A transaction that locks the Submission row (SELECT ... FOR UPDATE) or  *)
(* runs SERIALIZABLE behind the account advisory lock is one action.  What *)
(* a handler reads before it takes the lock is a step of its own: the      *)
(* values are kept in `request' and may be stale when they are used.       *)
(*                                                                         *)
(* The component modules Recording, FlagReview, Payments, Examining and    *)
(* Accounts extend this one; AssessmentLifecycle composes them.            *)
(***************************************************************************)
EXTENDS Naturals, FiniteSets

CONSTANTS
  Users,         \* account ids
  Submissions,   \* pool of Submission ids
  Flags,         \* pool of SubmissionFlag ids
  Payments,      \* pool of Payment attempt ids (each has its Merchant reference)
  Requests,      \* slots for requests between a read and their transaction
  Marks,         \* the Scores an Examiner can enter
  None,          \* SQL NULL
  InitialRole,   \* the role of each account to begin with
  Movable,       \* the accounts whose role the instance lets an Admin change
  SettingValues  \* the values of AppSettings.paymentEnabled the instance uses

Roles == {"STUDENT", "EXAMINER", "ADMIN"}

ASSUME NoneAssumption ==
  None \notin Users \cup Submissions \cup Flags \cup Marks \cup {"SCORING"}
ASSUME RoleAssumption ==
  /\ InitialRole \in [Users -> Roles]
  /\ \E u \in Users : InitialRole[u] = "ADMIN"
ASSUME MovableAssumption == Movable \subseteq Users
ASSUME SettingAssumption == SettingValues \subseteq BOOLEAN /\ SettingValues # {}

VARIABLES
  role, active,    \* User.role, User.deletedAt = NULL
  submission,      \* Submission rows
  answers,         \* the Submissions holding the exact verified Answer set
  page,            \* the student's page: is it open, is its heartbeat fresh
  flag,            \* SubmissionFlag rows
  credits,         \* RetakeCredit rows
  payment,         \* Payment rows, and whether their checkout call is outstanding
  provider,        \* what the payment provider knows of each Payment attempt
  waived,          \* the Submissions with a SubmissionPaymentWaiver row
  paymentEnabled,  \* AppSettings.paymentEnabled
  assignment,      \* ExaminerAssignment rows with their whole-Submission Score
  request          \* requests that have read something and not yet committed

accountVars == <<role, active>>
flagVars    == <<flag, credits>>
payVars     == <<payment, provider, waived>>
vars == <<role, active, submission, answers, page, flag, credits, payment,
          provider, waived, paymentEnabled, assignment, request>>

-----------------------------------------------------------------------------
(* Row types.  "NONE" is the status of an id no row uses yet. *)

\* CERTIFIED exists in the enum, but no code path sets it.
Status == {"NONE", "IN_PROGRESS", "ABANDONED", "FLAG_REVIEW", "AWAITING_PAYMENT",
           "PAID", "SCORING", "SCORED", "VOIDED"}

SubmissionRow ==
  [owner : Users \cup {None}, status : Status, paymentRequired : BOOLEAN,
   returnTo : {"SCORING", None}]

PageRow == [open : BOOLEAN, fresh : BOOLEAN]

\* resolution "OPEN" is a row whose resolution column is NULL.
FlagRow ==
  [submission : Submissions \cup {None}, source : {"STUDENT_DEVICE", "EXAMINER"},
   resolution : {"NONE", "OPEN", "CONFIRMED", "DISMISSED", "SUPERSEDED"},
   resolvedBy : Users \cup {None}]

CreditRow ==
  [student : Users, voided : Submissions, redeemedBy : Submissions \cup {None}]

\* REFUNDED exists in the enum, but no code path sets it.
PaymentRow ==
  [submission : Submissions \cup {None},
   status : {"NONE", "PENDING", "FAILED", "PAID"}, calling : BOOLEAN]

\* What the provider knows: the request has not reached it, it answered that it
\* refused, a hosted session is open, the student's money was collected.
ProviderState == {"unasked", "rejected", "open", "collected"}

Slots       == {1, 2}
Assignments == Submissions \X Slots
AssignmentRow ==
  [examiner : Users \cup {None}, status : {"NONE", "ASSIGNED", "IN_PROGRESS", "COMPLETED"},
   score : Marks \cup {None}]

IdleRequest ==
  [op |-> "idle", target |-> None, by |-> None, enabled |-> TRUE, stage |-> "ready"]

\* stage "read": the setting is read, the Admin check is still to come;
\* "ready": the next step is the transaction behind the Submission row lock.
RequestRow ==
  {IdleRequest}
  \cup [op : {"complete", "waive"}, target : Submissions, by : Users,
        enabled : BOOLEAN, stage : {"ready"}]
  \cup [op : {"confirm", "dismiss"}, target : Flags, by : Users,
        enabled : BOOLEAN, stage : {"read", "ready"}]

TypeOK ==
  /\ role \in [Users -> Roles]
  /\ active \in [Users -> BOOLEAN]
  /\ submission \in [Submissions -> SubmissionRow]
  /\ answers \subseteq Submissions
  /\ page \in [Submissions -> PageRow]
  /\ flag \in [Flags -> FlagRow]
  /\ credits \subseteq CreditRow
  /\ payment \in [Payments -> PaymentRow]
  /\ provider \in [Payments -> ProviderState]
  /\ waived \subseteq Submissions
  /\ paymentEnabled \in BOOLEAN
  /\ assignment \in [Assignments -> AssignmentRow]
  /\ request \in [Requests -> RequestRow]

Init ==
  /\ role = InitialRole
  /\ active = [u \in Users |-> TRUE]
  /\ submission = [s \in Submissions |->
       [owner |-> None, status |-> "NONE", paymentRequired |-> TRUE, returnTo |-> None]]
  /\ answers = {}
  /\ page = [s \in Submissions |-> [open |-> FALSE, fresh |-> FALSE]]
  /\ flag = [f \in Flags |-> [submission |-> None, source |-> "STUDENT_DEVICE",
                              resolution |-> "NONE", resolvedBy |-> None]]
  /\ credits = {}
  /\ payment = [p \in Payments |->
       [submission |-> None, status |-> "NONE", calling |-> FALSE]]
  /\ provider = [p \in Payments |-> "unasked"]
  /\ waived = {}
  /\ paymentEnabled \in SettingValues
  /\ assignment = [a \in Assignments |->
       [examiner |-> None, status |-> "NONE", score |-> None]]
  /\ request = [r \in Requests |-> IdleRequest]

-----------------------------------------------------------------------------
(* Queries used by several components. *)

IsActive(u, rl)  == role[u] = rl /\ active[u]
IsActiveAdmin(u) == IsActive(u, "ADMIN")

OpenFlags(s) == {f \in Flags : flag[f].submission = s /\ flag[f].resolution = "OPEN"}

ActiveSubmissions(u) ==
  {s \in Submissions : submission[s].owner = u /\ submission[s].status = "IN_PROGRESS"}

UnredeemedCredits(u) == {c \in credits : c.student = u /\ c.redeemedBy = None}

\* The other assignment of the same Submission.
Peer(a) == <<a[1], 3 - a[2]>>

IsOpenWork(a) == assignment[a].status \in {"ASSIGNED", "IN_PROGRESS"}

\* A request ends with an error, or its process dies and the database rolls
\* back what it had not committed.
RequestEnds(r) ==
  /\ request[r].op # "idle"
  /\ request' = [request EXCEPT ![r] = IdleRequest]
  /\ UNCHANGED <<accountVars, submission, answers, page, flagVars, payVars,
                 paymentEnabled, assignment>>
=============================================================================
