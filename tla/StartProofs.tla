----------------------------- MODULE StartProofs -----------------------------
(***************************************************************************)
(* The start of an Assessment, for every value of the constants.            *)
(*                                                                         *)
(* The argument: an open transaction is the only one of its student, and    *)
(* the attempt it supersedes is the only active one (RowOK); no other step  *)
(* takes that attempt away or adds another.  What a start supersedes did    *)
(* not match the bank when the start looked at it, and every attempt that   *)
(* ever failed to match is remembered as stale.                             *)
(*                                                                         *)
(* Manifests: the audio locks keep each Question as active as it was when   *)
(* the transaction opened, and versions only go up, so that one read before *)
(* the opening and found after it was there at the opening too (OpenedAt).  *)
(***************************************************************************)
EXTENDS AssessmentStart, TLAPS

\* What a start relies on.
RowOK(row) ==
  /\ row.phase \in {"replaying", "looking"} => row.active = None
  /\ row.phase \in {"reading", "checking"} /\ row.active # None => row.active \in stale
  /\ row.phase = "checking" =>
       /\ \A c \in Slots : row.seen[c] # None
       /\ IndexIsFree(row.student, row.active)
       /\ row.active # None => IsActiveOf(row.student, row.active)

RequestsOK ==
  /\ \A r \in Requests : RowOK(request[r])
  /\ \A r, t \in Requests :
       IsChecking(r) /\ IsChecking(t) => r = t \/ request[r].student # request[t].student

AttemptsOK ==
  /\ OneAttemptAtATime
  /\ ReplacedWasStale
  /\ \A k \in Keys : intent[k] # None => submission[intent[k]].status # "NONE"
  /\ \A s \in Submissions : submission[s].status = "ABANDONED" => s \in replaced
  /\ \A s \in Submissions :
       submission[s].status = "IN_PROGRESS" /\ ~IsCurrent(s) => s \in stale

StartInv == TypeOK /\ RequestsOK /\ AttemptsOK

\* The types without what TypeOK says of open transactions.
TablesOK ==
  /\ bank \in [Questions -> QuestionRow]
  /\ banks \in Seq([Questions -> QuestionRow])
  /\ submission \in [Submissions -> SubmissionRow]
  /\ stale \subseteq Submissions /\ replaced \subseteq Submissions
  /\ intent \in [Keys -> Submissions \cup {None}]
  /\ request \in [Requests -> RequestRow]

LEMMA TypesFollow == TablesOK /\ RequestsOK => TypeOK
<1> SUFFICES ASSUME TablesOK, RequestsOK PROVE TypeOK
  OBVIOUS
<1>1. ASSUME NEW r \in Requests, request[r].phase = "checking"
      PROVE  /\ \A c \in Slots : request[r].seen[c] # None
             /\ \A s \in Submissions : request[r].active = s => submission[s].status = "IN_PROGRESS"
  BY <1>1, StartNoneAssumption DEF RequestsOK, RowOK, IsActiveOf
<1> QED
  BY <1>1 DEF TablesOK, TypeOK

LEMMA TypesGive == TypeOK => TablesOK
  BY DEF TypeOK, TablesOK

-----------------------------------------------------------------------------
(* Initial states. *)

LEMMA InitHolds == Init => StartInv
<1> SUFFICES ASSUME Init PROVE StartInv
  OBVIOUS
<1>1. InitialBank \in [Questions -> QuestionRow]
  BY StartBankAssumption DEF InitialBank, QuestionRow
<1>2. IdleRequest \in RequestRow /\ Nothing \in [Slots -> Entry \cup {None}]
  BY DEF IdleRequest, RequestRow, Nothing
<1>3. TablesOK
  <2>1. [owner |-> None, status |-> "NONE", retained |-> TRUE, set |-> None,
         entries |-> Nothing] \in SubmissionRow
    BY <1>2 DEF SubmissionRow
  <2> QED
    BY <1>1, <1>2, <2>1 DEF Init, TablesOK
<1>4. /\ \A r \in Requests : request[r] = IdleRequest
      /\ \A s \in Submissions : submission[s].status = "NONE"
      /\ \A k \in Keys : intent[k] = None
  BY DEF Init
<1>5. RequestsOK
  BY <1>4 DEF RequestsOK, RowOK, IdleRequest, IsChecking
<1>6. AttemptsOK
  BY <1>4 DEF AttemptsOK, OneAttemptAtATime, ReplacedWasStale, Init
<1> QED
  BY <1>3, <1>5, <1>6, TypesFollow DEF StartInv

-----------------------------------------------------------------------------
(* A request takes a step outside of the tables. *)

LEMMA StepRight ==
  ASSUME StartInv, NEW r \in Requests, NEW row \in RequestRow, StepTo(r, row), RowOK(row),
         row.phase = "checking" =>
           \A t \in Requests \ {r} : IsChecking(t) => request[t].student # row.student
  PROVE  StartInv'
<1>0. TablesOK /\ RequestsOK /\ AttemptsOK
  BY TypesGive DEF StartInv
<1>1. /\ request'[r] = row /\ \A t \in Requests \ {r} : request'[t] = request[t]
      /\ request' \in [Requests -> RequestRow]
      /\ UNCHANGED <<bank, banks, submission, stale, replaced, intent>>
  BY <1>0 DEF StepTo, bankVars, TablesOK
<1>2. TablesOK'
  BY <1>0, <1>1 DEF TablesOK
<1>3. ASSUME NEW q, RowOK(q) PROVE RowOK(q)'
  BY <1>1, <1>3 DEF RowOK, IndexIsFree, IsActiveOf
<1>4. \A t \in Requests : RowOK(request'[t])
  BY <1>0, <1>1 DEF RequestsOK
<1>5. \A t \in Requests : RowOK(request[t])'
  BY <1>1, <1>4 DEF RowOK, IndexIsFree, IsActiveOf
<1>6. RequestsOK'
  BY <1>0, <1>1, <1>5 DEF RequestsOK, IsChecking
<1>7. AttemptsOK'
  BY <1>0, <1>1 DEF AttemptsOK, OneAttemptAtATime, ReplacedWasStale, IsCurrent, IsCurrentIn, Matches
<1>8. TablesOK' /\ RequestsOK' => TypeOK'
  BY TypesFollow, PTL
<1> QED
  BY <1>2, <1>6, <1>7, <1>8 DEF StartInv

LEMMA EndRight ==
  ASSUME StartInv, NEW r \in Requests, Ends(r)
  PROVE  StartInv'
<1>1. IdleRequest \in RequestRow /\ RowOK(IdleRequest) /\ IdleRequest.phase # "checking"
  BY DEF IdleRequest, RequestRow, Nothing, RowOK
<1> QED
  BY <1>1, StepRight DEF Ends

\* What a start finds active does not match the bank.
LEMMA NotCurrentIsStale ==
  ASSUME StartInv, NEW u, NEW s \in ActiveOf(u), ~IsCurrent(s)
  PROVE  s \in stale
  BY DEF StartInv, AttemptsOK, ActiveOf, IsActiveOf

LEMMA RowFields ==
  ASSUME StartInv, NEW r \in Requests
  PROVE  /\ request[r] \in RequestRow
         /\ RowOK(request[r])
         /\ request[r].phase \in {"idle", "replaying", "looking", "reading", "checking"}
         /\ request[r].student \in Students \cup {None}
         /\ request[r].key \in Keys \cup {None}
         /\ request[r].set \in TestSets \cup {None}
         /\ request[r].active \in Submissions \cup {None}
         /\ request[r].seen \in [Slots -> Entry \cup {None}]
         /\ request[r].unchecked \in SUBSET Slots
<1>1. request[r] \in RequestRow /\ RowOK(request[r])
  BY DEF StartInv, TypeOK, RequestsOK
<1> QED
  BY <1>1 DEF RequestRow

\* A request in the phases before its transaction relies on little.
LEMMA EarlyStep ==
  ASSUME StartInv, NEW r \in Requests, NEW row \in RequestRow, StepTo(r, row),
         row.phase # "checking",
         row.phase \in {"replaying", "looking"} => row.active = None,
         row.phase = "reading" /\ row.active # None => row.active \in stale
  PROVE  StartInv'
<1>1. RowOK(row)
  BY DEF RowOK
<1> QED
  BY <1>1, StepRight

LEMMA StartSubmissionRight ==
  ASSUME StartInv, NEW r \in Requests, NEW u \in Students, NEW k \in Keys,
         StartSubmission(r, u, k)
  PROVE  StartInv'
<1> DEFINE row == [IdleRequest EXCEPT !.phase = "looking", !.student = u, !.key = k]
<1>1. row \in RequestRow /\ row.phase = "looking" /\ row.active = None
  BY DEF IdleRequest, RequestRow, Nothing
<1>2. StepTo(r, row)
  BY DEF StartSubmission
<1> QED
  BY <1>1, <1>2, EarlyStep

LEMMA ReplayRight ==
  ASSUME StartInv, NEW r \in Requests, ReplayStartIntent(r)
  PROVE  StartInv'
<1>1. CASE Ends(r)
  BY <1>1, EndRight
<1>2. CASE ~Ends(r)
  <2> DEFINE row == [request[r] EXCEPT !.phase = "looking"]
  <2>1. row \in RequestRow /\ row.phase = "looking" /\ row.active = None
    BY RowFields DEF RequestRow, RowOK, ReplayStartIntent
  <2>2. StepTo(r, row)
    BY <1>2 DEF ReplayStartIntent
  <2> QED
    BY <2>1, <2>2, EarlyStep
<1> QED
  BY <1>1, <1>2

LEMMA FindRight ==
  ASSUME StartInv, NEW r \in Requests, NEW set \in TestSets, FindActiveSubmission(r, set)
  PROVE  StartInv'
<1>1. CASE Ends(r)
  BY <1>1, EndRight
<1>2. CASE ~Ends(r)
  <2> DEFINE fresh == [request[r] EXCEPT !.phase = "reading", !.set = set]
             old(s) == [request[r] EXCEPT !.phase = "reading", !.set = set, !.active = s]
  <2>1. request[r] \in RequestRow /\ RowOK(request[r]) /\ request[r].phase = "looking"
    BY RowFields DEF FindActiveSubmission
  <2>2. CASE StepTo(r, fresh)
    \* No own attempt was found: active is still what it was before.
    <3>1. fresh \in RequestRow /\ fresh.phase = "reading" /\ fresh.active = request[r].active
      BY <2>1 DEF RequestRow
    <3>2. request[r].active = None
      BY <2>1 DEF RowOK
    <3> QED
      BY <2>2, <3>1, <3>2, EarlyStep
  <2>3. ASSUME NEW s \in ActiveOf(request[r].student), ~IsCurrent(s), StepTo(r, old(s))
        PROVE  StartInv'
    <3>1. s \in stale /\ s \in Submissions
      BY <2>3, NotCurrentIsStale DEF ActiveOf
    <3>2. old(s) \in RequestRow /\ old(s).phase = "reading" /\ old(s).active = s
      BY <2>1, <3>1 DEF RequestRow
    <3> QED
      BY <2>3, <3>1, <3>2, EarlyStep
  <2> QED
    BY <1>2, <2>2, <2>3 DEF FindActiveSubmission
<1> QED
  BY <1>1, <1>2

LEMMA ReadRight ==
  ASSUME StartInv, NEW r \in Requests, NEW c \in Slots, ReadCandidate(r, c)
  PROVE  StartInv'
<1>1. CASE Ends(r)
  BY <1>1, EndRight
<1>2. CASE ~Ends(r)
  <2> DEFINE entry(q) == [question |-> q, version |-> bank[q].version]
             row(q) == [request[r] EXCEPT !.seen[c] = entry(q)]
  <2>1. PICK q \in Questions : StepTo(r, row(q))
    BY <1>2 DEF ReadCandidate
  <2>2. entry(q) \in Entry
    BY DEF StartInv, TypeOK, QuestionRow, Entry
  <2>3. request[r].phase = "reading" /\ request[r] \in RequestRow /\ RowOK(request[r])
    BY RowFields DEF ReadCandidate
  <2>4. /\ row(q) \in RequestRow
        /\ row(q).phase = "reading" /\ row(q).active = request[r].active
    BY <2>2, <2>3 DEF RequestRow
  <2> HIDE DEF row
  <2> QED
    BY <2>1, <2>3, <2>4, EarlyStep DEF RowOK
<1> QED
  BY <1>1, <1>2

\* The transaction opens after every other one of its student, and finds its old
\* attempt alone in the index.
LEMMA OpenRight ==
  ASSUME StartInv, NEW r \in Requests, OpenTransaction(r)
  PROVE  StartInv'
<1>1. CASE Ends(r)
  BY <1>1, EndRight
<1>2. CASE ~Ends(r)
  <2> DEFINE row == [request[r] EXCEPT !.phase = "checking", !.unchecked = Slots]
             u == request[r].student
             s == request[r].active
  <2>1. /\ StepTo(r, row)
        /\ s = None \/ s \in ActiveOf(u)
        /\ IndexIsFree(u, s)
    BY <1>2 DEF OpenTransaction
  <2>2. /\ request[r].phase = "reading"
        /\ \A c \in Slots : request[r].seen[c] # None
        /\ \A t \in Requests : IsChecking(t) => request[t].student # u
    BY DEF OpenTransaction
  <2>3. request[r] \in RequestRow /\ RowOK(request[r])
    BY RowFields
  <2>4. row \in RequestRow /\ row.phase = "checking" /\ row.active = s /\ row.student = u
        /\ row.seen = request[r].seen
    BY <2>3 DEF RequestRow
  <2>5. s # None => s \in stale
    BY <2>2, <2>3 DEF RowOK
  <2>6. s # None => IsActiveOf(u, s)
    BY <2>1 DEF ActiveOf
  <2> HIDE DEF row, u, s
  <2>7. RowOK(row)
    BY <2>1, <2>2, <2>4, <2>5, <2>6 DEF RowOK
  <2> QED
    BY <2>1, <2>2, <2>4, <2>7, StepRight
<1> QED
  BY <1>1, <1>2

LEMMA CheckRight ==
  ASSUME StartInv, NEW r \in Requests, NEW c \in Slots, CheckCandidate(r, c)
  PROVE  StartInv'
<1> DEFINE row == [request[r] EXCEPT !.unchecked = @ \ {c}]
<1>1. StepTo(r, row) /\ IsChecking(r)
  BY DEF CheckCandidate
<1>2. request[r] \in RequestRow /\ RowOK(request[r])
  BY RowFields
<1>3. /\ row \in RequestRow /\ row.phase = request[r].phase /\ row.active = request[r].active
      /\ row.student = request[r].student /\ row.seen = request[r].seen
  BY <1>2 DEF RequestRow
<1> HIDE DEF row
<1>4. RowOK(row)
  BY <1>2, <1>3 DEF RowOK
<1>5. \A t \in Requests \ {r} : IsChecking(t) => request[t].student # row.student
  BY <1>1, <1>3 DEF StartInv, RequestsOK
<1> QED
  BY <1>1, <1>3, <1>4, <1>5, StepRight

LEMMA ConflictRight ==
  ASSUME StartInv, NEW r \in Requests, NEW c \in Slots, EligibilityConflict(r, c)
  PROVE  StartInv'
<1> DEFINE row == [IdleRequest EXCEPT !.phase = "replaying", !.student = request[r].student,
                                      !.key = request[r].key]
<1>1. StepTo(r, row)
  BY DEF EligibilityConflict
<1>2. request[r].student \in Students \cup {None} /\ request[r].key \in Keys \cup {None}
  BY RowFields
<1>3. row \in RequestRow /\ row.phase = "replaying" /\ row.active = None
  BY <1>2 DEF IdleRequest, RequestRow, Nothing
<1> HIDE DEF row
<1> QED
  BY <1>1, <1>3, EarlyStep

-----------------------------------------------------------------------------
(* The Question bank changes: what stops matching it is remembered. *)

LEMMA ChangeRight ==
  ASSUME StartInv, NEW q \in Questions, NEW row \in QuestionRow, ChangeQuestion(q, row)
  PROVE  StartInv'
<1>0. TablesOK /\ RequestsOK /\ AttemptsOK
  BY TypesGive DEF StartInv
<1>1. /\ bank' = [bank EXCEPT ![q] = row]
      /\ banks' = Append(banks, bank')
      /\ UNCHANGED <<submission, replaced, intent, request>>
  BY DEF ChangeQuestion
<1>2. /\ stale \subseteq stale' /\ stale' \subseteq Submissions
      /\ \A s \in Submissions :
           submission[s].status = "IN_PROGRESS" /\ ~IsCurrentIn(bank', s) => s \in stale'
  BY <1>0 DEF ChangeQuestion, TablesOK
<1>3. bank' \in [Questions -> QuestionRow]
  BY <1>0, <1>1 DEF TablesOK
<1>4. TablesOK'
  BY <1>0, <1>1, <1>2, <1>3 DEF TablesOK
<1>5. \A r \in Requests : RowOK(request[r])'
  BY <1>0, <1>1, <1>2 DEF RequestsOK, RowOK, IndexIsFree, IsActiveOf
<1>6. RequestsOK'
  BY <1>0, <1>1, <1>5 DEF RequestsOK, IsChecking
<1>7. ASSUME NEW s \in Submissions, submission'[s].status = "IN_PROGRESS", ~IsCurrent(s)'
      PROVE  s \in stale'
  <2>1. ~IsCurrentIn(bank', s)
    BY <1>1, <1>7 DEF IsCurrent, IsCurrentIn, Matches
  <2> QED
    BY <1>1, <1>2, <1>7, <2>1
<1>8. OneAttemptAtATime' /\ ReplacedWasStale'
  BY <1>0, <1>1, <1>2 DEF AttemptsOK, OneAttemptAtATime, ReplacedWasStale
<1>9. AttemptsOK'
  BY <1>0, <1>1, <1>7, <1>8 DEF AttemptsOK
<1>10. TablesOK' /\ RequestsOK' => TypeOK'
  BY TypesFollow, PTL
<1> QED
  BY <1>4, <1>6, <1>9, <1>10 DEF StartInv

LEMMA BankRight ==
  ASSUME StartInv, NEW q \in Questions, BankNext(q)
  PROVE  StartInv'
<1>1. bank[q] \in QuestionRow
  BY DEF StartInv, TypeOK
<1>2. CASE EditQuestion(q)
  <2> DEFINE row == [bank[q] EXCEPT !.version = @ + 1]
  <2>1. row \in QuestionRow
    BY <1>1, <1>2, StartBankAssumption DEF QuestionRow, EditQuestion
  <2> QED
    BY <1>2, <2>1, ChangeRight DEF EditQuestion
<1>3. ASSUME NEW set \in TestSets, MoveQuestion(q, set) PROVE StartInv'
  <2> DEFINE row == [bank[q] EXCEPT !.set = set]
  <2>1. row \in QuestionRow
    BY <1>1 DEF QuestionRow
  <2> QED
    BY <1>3, <2>1, ChangeRight DEF MoveQuestion
<1>4. CASE RetireQuestion(q)
  <2> DEFINE row == [bank[q] EXCEPT !.active = FALSE]
  <2>1. row \in QuestionRow
    BY <1>1 DEF QuestionRow
  <2> QED
    BY <1>4, <2>1, ChangeRight DEF RetireQuestion
<1>5. CASE RestoreQuestion(q)
  <2> DEFINE row == [bank[q] EXCEPT !.active = TRUE]
  <2>1. row \in QuestionRow
    BY <1>1 DEF QuestionRow
  <2> QED
    BY <1>5, <2>1, ChangeRight DEF RestoreQuestion
<1> QED
  BY <1>2, <1>3, <1>4, <1>5 DEF BankNext

-----------------------------------------------------------------------------
(* An attempt is closed or quarantined: never one that a transaction holds. *)

LEMMA AttemptRight ==
  ASSUME StartInv, NEW s \in Submissions, NEW row \in SubmissionRow,
         submission[s].status = "IN_PROGRESS", IsRowFree(s),
         submission' = [submission EXCEPT ![s] = row],
         row.owner = submission[s].owner, row.set = submission[s].set,
         row.entries = submission[s].entries,
         row.status \in {"IN_PROGRESS", "CLOSED"},
         UNCHANGED <<bankVars, stale, replaced, intent, request>>
  PROVE  StartInv'
<1>0. TablesOK /\ RequestsOK /\ AttemptsOK
  BY TypesGive DEF StartInv
<1>1. /\ submission'[s] = row
      /\ \A t \in Submissions \ {s} : submission'[t] = submission[t]
      /\ submission' \in [Submissions -> SubmissionRow]
      /\ UNCHANGED <<bank, banks, stale, replaced, intent, request>>
  BY <1>0 DEF TablesOK, bankVars
<1>2. \A t \in Submissions :
        /\ submission'[t].owner = submission[t].owner
        /\ submission'[t].set = submission[t].set
        /\ submission'[t].entries = submission[t].entries
        /\ submission'[t].status # "IN_PROGRESS" \/ submission[t].status = "IN_PROGRESS"
        /\ \/ submission'[t].status = submission[t].status
           \/ (t = s /\ submission'[t].status = "CLOSED")
  BY <1>1
<1>3. TablesOK'
  BY <1>0, <1>1 DEF TablesOK
<1>4. ASSUME NEW r \in Requests PROVE RowOK(request[r])'
  <2>1. IndexIsFree(request[r].student, request[r].active)
          => IndexIsFree(request[r].student, request[r].active)'
    BY <1>1, <1>2 DEF IndexIsFree, IsActiveOf
  <2>2. request[r].phase = "checking" /\ request[r].active # None
          => IsActiveOf(request[r].student, request[r].active)'
    <3> SUFFICES ASSUME request[r].phase = "checking", request[r].active # None
                 PROVE  IsActiveOf(request[r].student, request[r].active)'
      OBVIOUS
    <3>1. request[r].active \in Submissions \ {s}
      BY RowFields DEF IsRowFree, IsChecking
    <3>2. IsActiveOf(request[r].student, request[r].active)
      BY <1>0 DEF RequestsOK, RowOK
    <3> QED
      BY <1>1, <3>1, <3>2 DEF IsActiveOf
  <2> QED
    BY <1>0, <1>1, <2>1, <2>2 DEF RequestsOK, RowOK
<1>5. RequestsOK'
  BY <1>0, <1>1, <1>4 DEF RequestsOK, IsChecking
<1>6. \A t \in Submissions : IsCurrent(t)' <=> IsCurrent(t)
  BY <1>1, <1>2 DEF IsCurrent, IsCurrentIn, Matches
<1>7. OneAttemptAtATime' /\ ReplacedWasStale'
  BY <1>0, <1>1, <1>2 DEF AttemptsOK, OneAttemptAtATime, ReplacedWasStale
<1>8. \A k \in Keys : intent'[k] # None => submission'[intent'[k]].status # "NONE"
  <2> SUFFICES ASSUME NEW k \in Keys, intent[k] # None
               PROVE  submission'[intent[k]].status # "NONE"
    BY <1>1
  <2>1. intent[k] \in Submissions /\ submission[intent[k]].status # "NONE"
    BY <1>0 DEF TablesOK, AttemptsOK
  <2> QED
    BY <1>2, <2>1
<1>9. AttemptsOK'
  BY <1>0, <1>1, <1>2, <1>6, <1>7, <1>8 DEF AttemptsOK
<1>10. TablesOK' /\ RequestsOK' => TypeOK'
  BY TypesFollow, PTL
<1> QED
  BY <1>3, <1>5, <1>9, <1>10 DEF StartInv

LEMMA CloseRight ==
  ASSUME StartInv, NEW s \in Submissions, CloseSubmission(s)
  PROVE  StartInv'
<1> DEFINE row == [submission[s] EXCEPT !.status = "CLOSED"]
<1>1. submission[s] \in SubmissionRow
  BY DEF StartInv, TypeOK
<1>2. /\ row \in SubmissionRow /\ row.owner = submission[s].owner
      /\ row.set = submission[s].set /\ row.entries = submission[s].entries
      /\ row.status = "CLOSED"
  BY <1>1 DEF SubmissionRow
<1>3. /\ submission' = [submission EXCEPT ![s] = row]
      /\ submission[s].status = "IN_PROGRESS" /\ IsRowFree(s)
      /\ UNCHANGED <<bankVars, stale, replaced, intent, request>>
  BY DEF CloseSubmission
<1> HIDE DEF row
<1> QED
  BY <1>2, <1>3, AttemptRight

LEMMA RetainRight ==
  ASSUME StartInv, NEW s \in Submissions, NEW b \in BOOLEAN, SetRetained(s, b)
  PROVE  StartInv'
<1> DEFINE row == [submission[s] EXCEPT !.retained = b]
<1>1. submission[s] \in SubmissionRow
  BY DEF StartInv, TypeOK
<1>2. /\ row \in SubmissionRow /\ row.owner = submission[s].owner
      /\ row.set = submission[s].set /\ row.entries = submission[s].entries
      /\ row.status = submission[s].status
  BY <1>1 DEF SubmissionRow
<1>3. /\ submission' = [submission EXCEPT ![s] = row]
      /\ submission[s].status = "IN_PROGRESS" /\ IsRowFree(s)
      /\ UNCHANGED <<bankVars, stale, replaced, intent, request>>
  BY DEF SetRetained
<1> HIDE DEF row
<1> QED
  BY <1>2, <1>3, AttemptRight

-----------------------------------------------------------------------------
(* A manifest is committed. *)

LEMMA CommitFacts ==
  ASSUME StartInv, NEW r \in Requests, NEW s \in Submissions, CommitManifest(r, s)
  PROVE  /\ submission[s].status = "NONE" /\ s # request[r].active
         /\ submission'[s].owner = request[r].student
         /\ submission'[s].status = "IN_PROGRESS"
         /\ request[r].active # None =>
              /\ request[r].active \in Submissions \cap stale
              /\ IsActiveOf(request[r].student, request[r].active)
              /\ submission'[request[r].active].status = "ABANDONED"
              /\ submission'[request[r].active].owner = submission[request[r].active].owner
         /\ \A t \in Submissions : t # s /\ t # request[r].active =>
              submission'[t] = submission[t]
         /\ IndexIsFree(request[r].student, request[r].active)
         /\ submission' \in [Submissions -> SubmissionRow]
<1> DEFINE q == request[r]
           new == [owner |-> q.student, status |-> "IN_PROGRESS", retained |-> TRUE,
                   set |-> q.set, entries |-> q.seen]
           old(t) == [submission[t] EXCEPT !.status = "ABANDONED"]
<1>1. submission' = [t \in Submissions |->
        IF t = s THEN new ELSE IF t = q.active THEN old(t) ELSE submission[t]]
  BY DEF CommitManifest
<1>2. q.phase = "checking" /\ submission[s].status = "NONE"
  BY DEF CommitManifest, IsChecking
<1>3. RowOK(q) /\ q.active \in Submissions \cup {None}
  BY RowFields
<1>4. IndexIsFree(q.student, q.active)
  BY <1>2, <1>3 DEF RowOK
<1>5. q.active # None => /\ q.active \in Submissions \cap stale
                         /\ IsActiveOf(q.student, q.active)
  BY <1>2, <1>3 DEF RowOK
<1>6. s # q.active
  BY <1>2, <1>5, StartNoneAssumption DEF IsActiveOf
<1>7. new \in SubmissionRow /\ new.owner = q.student /\ new.status = "IN_PROGRESS"
  BY RowFields DEF SubmissionRow
<1>8. ASSUME NEW t \in Submissions
      PROVE  /\ old(t) \in SubmissionRow /\ old(t).status = "ABANDONED"
             /\ old(t).owner = submission[t].owner
             /\ submission[t] \in SubmissionRow
  <2>1. submission[t] \in SubmissionRow
    BY DEF StartInv, TypeOK
  <2> QED
    BY <2>1 DEF SubmissionRow
<1> HIDE DEF new, old, q
<1>9. /\ submission'[s] = new
      /\ \A t \in Submissions : t # s /\ t # q.active => submission'[t] = submission[t]
      /\ \A t \in Submissions : t # s /\ t = q.active =>
           /\ submission'[t].status = "ABANDONED"
           /\ submission'[t].owner = submission[t].owner
  BY <1>1, <1>8
<1>10. submission' \in [Submissions -> SubmissionRow]
  BY <1>1, <1>7, <1>8
<1>11. submission'[s].owner = q.student /\ submission'[s].status = "IN_PROGRESS"
  BY <1>7, <1>9
<1>12. q.active # None =>
         /\ submission'[q.active].status = "ABANDONED"
         /\ submission'[q.active].owner = submission[q.active].owner
  BY <1>5, <1>6, <1>9
<1> QED
  BY <1>2, <1>4, <1>5, <1>6, <1>9, <1>10, <1>11, <1>12 DEF q

\* The one new attempt of the student takes the place of the old one.
LEMMA CommitOneAttempt ==
  ASSUME StartInv, NEW r \in Requests, NEW s \in Submissions, CommitManifest(r, s)
  PROVE  OneAttemptAtATime'
<1>1. ASSUME NEW t \in Submissions, NEW t2 \in Submissions,
             submission'[t].status = "IN_PROGRESS", submission'[t2].status = "IN_PROGRESS",
             submission'[t].owner = submission'[t2].owner
      PROVE  t = t2
  <2>1. ASSUME NEW x \in Submissions, submission'[x].status = "IN_PROGRESS", x # s
        PROVE  /\ submission'[x] = submission[x]
               /\ submission[x].owner # request[r].student
    <3>1. x # request[r].active
      BY <2>1, CommitFacts, StartNoneAssumption
    <3>2. submission'[x] = submission[x]
      BY <2>1, <3>1, CommitFacts
    <3> QED
      BY <2>1, <3>1, <3>2, CommitFacts DEF IndexIsFree, IsActiveOf
  <2>2. submission'[s].owner = request[r].student
    BY CommitFacts
  <2> QED
    BY <1>1, <2>1, <2>2 DEF StartInv, AttemptsOK, OneAttemptAtATime
<1>2. ASSUME NEW k \in Keys, NEW l \in Keys, intent'[k] # None, intent'[k] = intent'[l]
      PROVE  k = l
  <2>1. \A j \in Keys : intent'[j] = IF j = request[r].key THEN s ELSE intent[j]
    BY DEF CommitManifest
  <2>2. \A j \in Keys : intent[j] # s
    BY CommitFacts, StartNoneAssumption DEF StartInv, AttemptsOK
  <2> QED
    BY <1>2, <2>1, <2>2 DEF StartInv, AttemptsOK, OneAttemptAtATime
<1> QED
  BY <1>1, <1>2 DEF OneAttemptAtATime

LEMMA CommitRight ==
  ASSUME StartInv, NEW r \in Requests, NEW s \in Submissions, CommitManifest(r, s)
  PROVE  StartInv'
<1>0. TablesOK /\ RequestsOK /\ AttemptsOK
  BY TypesGive DEF StartInv
<1> DEFINE u == request[r].student
           a == request[r].active
<1>1. /\ bank' = bank /\ banks' = banks
      /\ replaced' = replaced \cup ({a} \ {None})
      /\ intent' = [k \in Keys |-> IF k = request[r].key THEN s ELSE intent[k]]
      /\ request' = [request EXCEPT ![r] = IdleRequest]
      /\ stale \subseteq stale' /\ stale' \subseteq stale \cup {s}
  BY DEF CommitManifest, bankVars
<1>2. /\ request'[r] = IdleRequest
      /\ \A t \in Requests \ {r} : request'[t] = request[t]
      /\ request' \in [Requests -> RequestRow]
  <2>1. IdleRequest \in RequestRow
    BY DEF IdleRequest, RequestRow, Nothing
  <2> QED
    BY <1>0, <1>1, <2>1 DEF TablesOK
<1>3. /\ submission' \in [Submissions -> SubmissionRow]
      /\ a # None => a \in Submissions \cap stale
  BY CommitFacts
<1>4. TablesOK'
  BY <1>0, <1>1, <1>2, <1>3 DEF TablesOK
<1>5. ASSUME NEW t \in Requests PROVE RowOK(request[t])'
  <2>1. CASE t = r
    BY <1>2, <2>1 DEF RowOK, IdleRequest
  <2>2. CASE t # r
    <3>1. RowOK(request[t]) /\ request'[t] = request[t]
      BY <1>0, <1>2, <2>2 DEF RequestsOK
    <3>2. ASSUME request[t].phase = "checking"
          PROVE  /\ IndexIsFree(request[t].student, request[t].active)'
                 /\ request[t].active # None =>
                      IsActiveOf(request[t].student, request[t].active)'
      <4>1. request[t].student # u
        BY <1>0, <2>2, <3>2 DEF RequestsOK, IsChecking, CommitManifest
      <4>2. \A x \in Submissions :
              IsActiveOf(request[t].student, x)' <=> IsActiveOf(request[t].student, x)
        <5> SUFFICES ASSUME NEW x \in Submissions
                     PROVE  IsActiveOf(request[t].student, x)'
                              <=> IsActiveOf(request[t].student, x)
          OBVIOUS
        <5>1. CASE x = s
          BY <1>2, <2>2, <4>1, <5>1, CommitFacts DEF IsActiveOf
        <5>2. CASE x = a /\ x # s
          <6>1. a # None
            BY <5>2, StartNoneAssumption
          <6> QED
            BY <1>2, <2>2, <4>1, <5>2, <6>1, CommitFacts DEF IsActiveOf
        <5>3. CASE x # a /\ x # s
          BY <1>2, <2>2, <5>3, CommitFacts DEF IsActiveOf
        <5> QED
          BY <5>1, <5>2, <5>3
      <4>3. request[t].active \in Submissions \cup {None}
        BY RowFields
      <4> QED
        BY <3>1, <3>2, <4>2, <4>3 DEF RowOK, IndexIsFree
    <3> QED
      BY <1>1, <3>1, <3>2 DEF RowOK
  <2> QED
    BY <2>1, <2>2
<1>6. RequestsOK'
  BY <1>0, <1>2, <1>5 DEF RequestsOK, IsChecking, IdleRequest
<1>7. ReplacedWasStale'
  BY <1>0, <1>1, <1>3 DEF AttemptsOK, ReplacedWasStale
<1>8. ASSUME NEW k \in Keys, intent'[k] # None
      PROVE  submission'[intent'[k]].status # "NONE"
  <2>1. CASE intent'[k] = s
    BY <2>1, CommitFacts
  <2>2. CASE intent'[k] # s
    <3>1. PICK x \in Submissions : /\ intent'[k] = x /\ x # s
                                   /\ submission[x].status # "NONE"
      BY <1>0, <1>1, <1>8, <2>2 DEF AttemptsOK, TablesOK
    <3> QED
      BY <3>1, CommitFacts, StartNoneAssumption
  <2> QED
    BY <2>1, <2>2
<1>9. ASSUME NEW x \in Submissions, submission'[x].status = "ABANDONED"
      PROVE  x \in replaced'
  <2>1. x # s
    BY <1>9, CommitFacts
  <2> QED
    BY <1>0, <1>1, <1>9, <2>1, CommitFacts, StartNoneAssumption DEF AttemptsOK
<1>10. ASSUME NEW x \in Submissions, submission'[x].status = "IN_PROGRESS", ~IsCurrent(x)'
       PROVE  x \in stale'
  <2>1. CASE x = s
    <3>1. submission'[s].set = request[r].set /\ submission'[s].entries = request[r].seen
      BY DEF CommitManifest
    <3>2. ~\A c \in Slots : Matches(bank, request[r].set, request[r].seen[c])
      BY <1>1, <1>10, <2>1, <3>1 DEF IsCurrent, IsCurrentIn, Matches
    <3> QED
      BY <2>1, <3>2 DEF CommitManifest
  <2>2. CASE x # s
    <3>1. x # a
      BY <1>10, CommitFacts, StartNoneAssumption
    <3>2. submission'[x] = submission[x]
      BY <2>2, <3>1, CommitFacts
    <3>3. ~IsCurrent(x)
      BY <1>1, <1>10, <3>2 DEF IsCurrent, IsCurrentIn, Matches
    <3> QED
      BY <1>0, <1>1, <1>10, <3>2, <3>3 DEF AttemptsOK
  <2> QED
    BY <2>1, <2>2
<1>11. AttemptsOK'
  BY <1>7, <1>8, <1>9, <1>10, CommitOneAttempt DEF AttemptsOK
<1>12. TablesOK' /\ RequestsOK' => TypeOK'
  BY TypesFollow, PTL
<1> QED
  BY <1>4, <1>6, <1>11, <1>12 DEF StartInv

-----------------------------------------------------------------------------
(* The invariant and the theorems. *)

LEMMA StutterRight == StartInv /\ UNCHANGED vars => StartInv'
<1> SUFFICES ASSUME StartInv, UNCHANGED vars PROVE StartInv'
  OBVIOUS
<1>1. /\ bank' = bank /\ banks' = banks /\ submission' = submission /\ stale' = stale
      /\ replaced' = replaced /\ intent' = intent /\ request' = request
  BY DEF vars
<1>2. TypeOK'
  BY <1>1 DEF StartInv, TypeOK
<1>3. RequestsOK'
  BY <1>1 DEF StartInv, RequestsOK, RowOK, IndexIsFree, IsActiveOf, IsChecking
<1>4. AttemptsOK'
  BY <1>1 DEF StartInv, AttemptsOK, OneAttemptAtATime, ReplacedWasStale, IsCurrent,
              IsCurrentIn, Matches
<1> QED
  BY <1>2, <1>3, <1>4 DEF StartInv

LEMMA RequestRight ==
  ASSUME StartInv, NEW r \in Requests, StartNext(r)
  PROVE  StartInv'
  BY StartSubmissionRight, ReplayRight, FindRight, ReadRight, CheckRight, ConflictRight,
     OpenRight, EndRight, CommitRight DEF StartNext, StartFails

LEMMA StepHolds == StartInv /\ [Next]_vars => StartInv'
<1> SUFFICES ASSUME StartInv, [Next]_vars PROVE StartInv'
  OBVIOUS
<1>1. CASE UNCHANGED vars
  BY <1>1, StutterRight
<1>2. ASSUME NEW r \in Requests, StartNext(r) PROVE StartInv'
  BY <1>2, RequestRight
<1>3. ASSUME NEW q \in Questions, BankNext(q) PROVE StartInv'
  BY <1>3, BankRight
<1>4. ASSUME NEW s \in Submissions, CloseSubmission(s) PROVE StartInv'
  BY <1>4, CloseRight
<1>5. ASSUME NEW s \in Submissions, NEW b \in BOOLEAN, SetRetained(s, b) PROVE StartInv'
  BY <1>5, RetainRight
<1> QED
  BY <1>1, <1>2, <1>3, <1>4, <1>5 DEF Next

LEMMA InvariantHolds == Spec => []StartInv
<1> QED
  BY InitHolds, StepHolds, PTL DEF Spec

\* Every table of a start keeps its types, and an open transaction has read a
\* Question for each slot and supersedes an attempt that is in progress.
THEOREM StartTypeSafety == Spec => []TypeOK
<1>1. StartInv => TypeOK
  BY DEF StartInv
<1> QED
  BY <1>1, InvariantHolds, PTL

\* However many tabs, keys and requests a student has, at most one of their
\* attempts is in progress, and no two keys name the same one.
THEOREM OneAttempt == Spec => []OneAttemptAtATime
<1>1. StartInv => OneAttemptAtATime
  BY DEF StartInv, AttemptsOK
<1> QED
  BY <1>1, InvariantHolds, PTL

\* For any number of Admins who edit the bank, a start gives up an attempt only
\* when it did not match the bank at some moment.
THEOREM ReplacementWasStale == Spec => []ReplacedWasStale
<1>1. StartInv => ReplacedWasStale
  BY DEF StartInv, AttemptsOK
<1> QED
  BY <1>1, InvariantHolds, PTL

\* A commit moves a key only away from an attempt that was stale or is closed.
LEMMA KeyStep ==
  ASSUME StartInv, NEW r \in Requests, NEW s \in Submissions, CommitManifest(r, s),
         NEW k \in Keys, intent[k] # None, intent'[k] # intent[k]
  PROVE  /\ intent[k] \in stale \/ submission[intent[k]].status = "CLOSED"
         /\ submission[intent'[k]].status = "NONE"
         /\ submission'[intent'[k]].owner = submission[intent[k]].owner
<1>1. k = request[r].key /\ intent'[k] = s
  BY DEF CommitManifest, StartInv, TypeOK
<1>2. PICK x \in Submissions : x = intent[k] /\ submission[x].status # "NONE"
  BY DEF StartInv, TypeOK, AttemptsOK
<1>3. submission[x].owner = request[r].student
  BY <1>1, <1>2 DEF CommitManifest
<1>4. submission[x].status \in {"IN_PROGRESS", "ABANDONED", "CLOSED"}
  BY <1>2 DEF StartInv, TypeOK, SubmissionRow
<1>5. CASE submission[x].status = "IN_PROGRESS"
  <2>1. x = request[r].active
    BY <1>3, <1>5, CommitFacts DEF IndexIsFree, IsActiveOf
  <2>2. x \in stale
    BY <2>1, CommitFacts, StartNoneAssumption
  <2> QED
    BY <1>1, <1>2, <1>3, <2>2, CommitFacts
<1>6. CASE submission[x].status = "ABANDONED"
  <2>1. x \in stale
    BY <1>6 DEF StartInv, AttemptsOK, ReplacedWasStale
  <2> QED
    BY <1>1, <1>2, <1>3, <2>1, CommitFacts
<1>7. CASE submission[x].status = "CLOSED"
  BY <1>1, <1>2, <1>3, <1>7, CommitFacts
<1> QED
  BY <1>4, <1>5, <1>6, <1>7

\* What a key names changes only when its attempt could no longer be resumed
\* unchanged: for every number of requests with that key.
THEOREM KeyKeeps == Spec => KeyKeepsItsAttempt
<1>1. ASSUME StartInv, [Next]_vars
      PROVE  [\A k \in Keys :
                intent[k] # None /\ intent'[k] # intent[k] =>
                  /\ intent[k] \in stale \/ submission[intent[k]].status = "CLOSED"
                  /\ submission[intent'[k]].status = "NONE"
                  /\ submission'[intent'[k]].owner = submission[intent[k]].owner]_vars
  <2>1. CASE intent' = intent
    BY <2>1
  <2>2. CASE intent' # intent
    <3>1. PICK r \in Requests, s \in Submissions : CommitManifest(r, s)
      BY <1>1, <2>2 DEF vars, Next, StartNext, BankNext, StartSubmission, ReplayStartIntent,
           FindActiveSubmission, ReadCandidate, CheckCandidate, EligibilityConflict,
           OpenTransaction, StartFails, Ends, StepTo, EditQuestion, MoveQuestion,
           RetireQuestion, RestoreQuestion, ChangeQuestion, CloseSubmission, SetRetained
    <3> QED
      BY <1>1, <3>1, KeyStep
  <2> QED
    BY <2>1, <2>2
<1> QED
  BY <1>1, InvariantHolds, PTL DEF Spec, KeyKeepsItsAttempt

-----------------------------------------------------------------------------
(* Manifests.  Versions only go up, so that a Question which has the version *)
(* it was read with also had it when the transaction opened; and none of the *)
(* transaction's Questions has been retired or restored since.               *)

HistoryOK ==
  /\ Len(banks) \in DOMAIN banks /\ bank = banks[Len(banks)]
  /\ \A i, j \in DOMAIN banks : i <= j =>
       \A q \in Questions : banks[i][q].version <= banks[j][q].version

\* What was read in slot c was in the chosen Test Set, in a state of history h.
ReadOK(h, row, c) ==
  /\ row.phase \in {"reading", "checking"}
  /\ SlotOf[row.seen[c].question] = c
  /\ \E i \in DOMAIN h : h[i][row.seen[c].question].version = row.seen[c].version

\* Entry e of set was in state i of the bank, and in set by then or since.
WasThere(h, set, e, i) ==
  /\ h[i][e.question].active
  /\ h[i][e.question].version = e.version
  /\ \E j \in i..Len(h) : Matches(h[j], set, e)

\* The transaction of row opened at state i of the bank.
OpenedAt(h, row, i) ==
  \A c \in Slots :
    /\ \A j \in i..Len(h) :
         h[j][row.seen[c].question].active = h[i][row.seen[c].question].active
    /\ \E j \in 1..i : h[j][row.seen[c].question].version = row.seen[c].version
    /\ c \notin row.unchecked => WasThere(h, row.set, row.seen[c], i)

ManifestRow(h, row) ==
  /\ \A c \in Slots : row.seen[c] # None => ReadOK(h, row, c)
  /\ row.phase = "checking" => \E i \in DOMAIN h : OpenedAt(h, row, i)

WasTheBank(h, set, entries) ==
  \E i \in DOMAIN h : \A c \in Slots :
    SlotOf[entries[c].question] = c /\ WasThere(h, set, entries[c], i)

ManifestInv ==
  /\ HistoryOK
  /\ \A r \in Requests : ManifestRow(banks, request[r])
  /\ \A s \in Submissions :
       submission[s].status # "NONE" => WasTheBank(banks, submission[s].set, submission[s].entries)

LEMMA InitManifests == Init => ManifestInv
<1> SUFFICES ASSUME Init PROVE ManifestInv
  OBVIOUS
<1>1. banks = <<InitialBank>> /\ bank = InitialBank
  BY DEF Init
<1>2. /\ \A r \in Requests : request[r] = IdleRequest
      /\ \A s \in Submissions : submission[s].status = "NONE"
  BY DEF Init
<1>3. HistoryOK
  <2>1. Len(banks) = 1 /\ DOMAIN banks = {1} /\ banks[1] = InitialBank
    BY <1>1
  <2>2. \A q \in Questions : InitialBank[q].version <= InitialBank[q].version
    BY DEF InitialBank
  <2> QED
    BY <1>1, <2>1, <2>2 DEF HistoryOK
<1>4. ManifestRow(banks, IdleRequest)
  BY DEF ManifestRow, IdleRequest, Nothing
<1> QED
  BY <1>2, <1>3, <1>4 DEF ManifestInv

-----------------------------------------------------------------------------
(* The bank goes on. *)

\* What a change of the bank is, as it matters here.
BankGoesOn ==
  /\ bank' \in [Questions -> QuestionRow] /\ banks' = Append(banks, bank')
  /\ \A q \in Questions :
       /\ bank[q].version <= bank'[q].version
       /\ bank'[q].active = bank[q].active \/ IsAudioFree(q)
  /\ UNCHANGED <<submission, request>>

LEMMA BankMoves ==
  ASSUME StartInv, NEW q \in Questions, BankNext(q)
  PROVE  BankGoesOn
<1>0. bank \in [Questions -> QuestionRow] /\ bank[q] \in QuestionRow
  BY DEF StartInv, TypeOK
<1>1. ASSUME NEW row \in QuestionRow, ChangeQuestion(q, row),
             bank[q].version <= row.version,
             row.active = bank[q].active \/ IsAudioFree(q)
      PROVE  BankGoesOn
  <2>1. /\ bank' = [bank EXCEPT ![q] = row] /\ banks' = Append(banks, bank')
        /\ UNCHANGED <<submission, request>>
    BY <1>1 DEF ChangeQuestion
  <2>2. /\ bank' \in [Questions -> QuestionRow]
        /\ bank'[q] = row /\ \A p \in Questions \ {q} : bank'[p] = bank[p]
    BY <1>0, <1>1, <2>1
  <2>3. \A p \in Questions : bank[p].version \in Nat
    BY <1>0, StartBankAssumption DEF QuestionRow
  <2> QED
    BY <1>1, <2>1, <2>2, <2>3 DEF BankGoesOn
<1>2. CASE EditQuestion(q)
  <2>1. PICK row : row = [bank[q] EXCEPT !.version = @ + 1]
    OBVIOUS
  <2>2. bank[q].version \in 0..MaxChanges /\ bank[q].version < MaxChanges /\ MaxChanges \in Nat
    BY <1>0, <1>2, StartBankAssumption DEF QuestionRow, EditQuestion
  <2>3. row.version = bank[q].version + 1 /\ row.active = bank[q].active
    BY <1>0, <2>1 DEF QuestionRow
  <2>4. row \in QuestionRow
    BY <1>0, <2>1, <2>2, <2>3 DEF QuestionRow
  <2>5. bank[q].version <= row.version
    BY <2>2, <2>3
  <2> QED
    BY <1>1, <1>2, <2>1, <2>3, <2>4, <2>5 DEF EditQuestion
<1>3. ASSUME NEW set \in TestSets, MoveQuestion(q, set) PROVE BankGoesOn
  <2>1. PICK row : row = [bank[q] EXCEPT !.set = set]
    OBVIOUS
  <2>2. row \in QuestionRow /\ bank[q].version <= row.version /\ row.active = bank[q].active
    BY <1>0, <2>1, StartBankAssumption DEF QuestionRow
  <2> QED
    BY <1>1, <1>3, <2>1, <2>2 DEF MoveQuestion
<1>4. ASSUME NEW active \in BOOLEAN,
             ChangeQuestion(q, [bank[q] EXCEPT !.active = active]), IsAudioFree(q)
      PROVE  BankGoesOn
  <2>1. PICK row : row = [bank[q] EXCEPT !.active = active]
    OBVIOUS
  <2>2. row \in QuestionRow /\ bank[q].version <= row.version
    BY <1>0, <2>1, StartBankAssumption DEF QuestionRow
  <2> QED
    BY <1>1, <1>4, <2>1, <2>2
<1>5. RetireQuestion(q) => BankGoesOn
  BY <1>4 DEF RetireQuestion
<1>6. RestoreQuestion(q) => BankGoesOn
  BY <1>4 DEF RestoreQuestion
<1> QED
  BY <1>2, <1>3, <1>5, <1>6 DEF BankNext

\* The states the bank was in stay, and the new one comes last.
LEMMA HistoryGrows ==
  ASSUME StartInv, BankGoesOn
  PROVE  /\ Len(banks) \in Nat /\ Len(banks') = Len(banks) + 1
         /\ DOMAIN banks = 1..Len(banks) /\ DOMAIN banks' = 1..Len(banks')
         /\ \A i \in DOMAIN banks : banks'[i] = banks[i]
         /\ banks'[Len(banks')] = bank'
  BY DEF StartInv, TypeOK, BankGoesOn

LEMMA HistoryNext ==
  ASSUME StartInv, HistoryOK, BankGoesOn
  PROVE  HistoryOK'
<1>1. /\ Len(banks) \in Nat /\ Len(banks') = Len(banks) + 1
      /\ DOMAIN banks = 1..Len(banks) /\ DOMAIN banks' = 1..Len(banks')
      /\ \A i \in DOMAIN banks : banks'[i] = banks[i]
      /\ banks'[Len(banks')] = bank'
  BY HistoryGrows
<1>2. \A i \in DOMAIN banks, q \in Questions :
        banks[i][q].version \in Nat /\ banks[i][q].version <= bank[q].version
  <2>1. ASSUME NEW i \in DOMAIN banks, NEW q \in Questions
        PROVE  banks[i][q].version \in Nat
    BY StartBankAssumption DEF StartInv, TypeOK, QuestionRow
  <2> QED
    BY <1>1, <2>1 DEF HistoryOK
<1>3. \A q \in Questions : bank[q].version <= bank'[q].version /\ bank'[q].version \in Nat
  BY StartBankAssumption DEF BankGoesOn, StartInv, TypeOK, QuestionRow
<1> QED
  BY <1>1, <1>2, <1>3 DEF HistoryOK

\* What was in the bank, and since when, stays so.
LEMMA WasThereStays ==
  ASSUME StartInv, BankGoesOn, NEW set, NEW e, NEW i \in DOMAIN banks, WasThere(banks, set, e, i)
  PROVE  i \in DOMAIN banks' /\ WasThere(banks', set, e, i)
<1>1. /\ Len(banks) \in Nat /\ Len(banks') = Len(banks) + 1
      /\ DOMAIN banks = 1..Len(banks) /\ DOMAIN banks' = 1..Len(banks')
      /\ \A k \in DOMAIN banks : banks'[k] = banks[k]
  BY HistoryGrows
<1>2. PICK j \in i..Len(banks) : Matches(banks[j], set, e)
  BY DEF WasThere
<1>3. i \in DOMAIN banks' /\ j \in i..Len(banks') /\ banks'[j] = banks[j] /\ banks'[i] = banks[i]
  BY <1>1, <1>2
<1> QED
  BY <1>2, <1>3 DEF WasThere, Matches

LEMMA WasTheBankStays ==
  ASSUME StartInv, BankGoesOn, NEW set, NEW entries, WasTheBank(banks, set, entries)
  PROVE  WasTheBank(banks', set, entries)
<1>1. PICK i \in DOMAIN banks :
        \A c \in Slots : SlotOf[entries[c].question] = c /\ WasThere(banks, set, entries[c], i)
  BY DEF WasTheBank
<1>2. i \in DOMAIN banks' /\ \A c \in Slots : WasThere(banks', set, entries[c], i)
  <2>1. \A c \in Slots : i \in DOMAIN banks' /\ WasThere(banks', set, entries[c], i)
    BY <1>1, WasThereStays
  <2>2. i \in DOMAIN banks'
    BY HistoryGrows
  <2> QED
    BY <2>1, <2>2
<1> QED
  BY <1>1, <1>2 DEF WasTheBank

\* A transaction holds the audio locks of its Questions, so that the change was
\* not the retirement of one of them.
LEMMA OpenedStays ==
  ASSUME StartInv, BankGoesOn, HistoryOK, NEW r \in Requests, IsChecking(r),
         NEW row, row = request[r], NEW i \in DOMAIN banks, OpenedAt(banks, row, i)
  PROVE  i \in DOMAIN banks' /\ OpenedAt(banks', row, i)
<1>1. /\ Len(banks) \in Nat /\ Len(banks') = Len(banks) + 1
      /\ DOMAIN banks = 1..Len(banks) /\ DOMAIN banks' = 1..Len(banks')
      /\ \A k \in DOMAIN banks : banks'[k] = banks[k]
      /\ banks'[Len(banks')] = bank'
  BY HistoryGrows
<1>2. ASSUME NEW c \in Slots
      PROVE  /\ \A j \in i..Len(banks') :
                  banks'[j][row.seen[c].question].active
                    = banks'[i][row.seen[c].question].active
             /\ \E j \in 1..i :
                  banks'[j][row.seen[c].question].version = row.seen[c].version
             /\ c \notin row.unchecked => WasThere(banks', row.set, row.seen[c], i)
  <2>1. PICK e : e = row.seen[c]
    OBVIOUS
  <2>2. e.question \in Questions
    BY <2>1, RowFields DEF RowOK, IsChecking, Entry
  <2>3. bank'[e.question].active = bank[e.question].active
    BY <2>1, <2>2 DEF BankGoesOn, IsAudioFree
  <2>4. /\ \A j \in i..Len(banks) : banks[j][e.question].active = banks[i][e.question].active
        /\ \E j \in 1..i : banks[j][e.question].version = e.version
        /\ c \notin row.unchecked => WasThere(banks, row.set, e, i)
    BY <2>1 DEF OpenedAt
  <2>5. bank[e.question].active = banks[i][e.question].active
    BY <1>1, <2>4 DEF HistoryOK
  <2>6. \A j \in i..Len(banks') : banks'[j][e.question].active = banks'[i][e.question].active
    <3> SUFFICES ASSUME NEW j \in i..Len(banks')
                 PROVE  banks'[j][e.question].active = banks'[i][e.question].active
      OBVIOUS
    <3>1. CASE j = Len(banks')
      BY <1>1, <2>3, <2>5, <3>1
    <3>2. CASE j # Len(banks')
      BY <1>1, <2>4, <3>2
    <3> QED
      BY <3>1, <3>2
  <2>7. \E j \in 1..i : banks'[j][e.question].version = e.version
    BY <1>1, <2>4
  <2>8. PICK set : set = row.set
    OBVIOUS
  <2>9. c \notin row.unchecked => WasThere(banks', set, e, i)
    BY <2>4, <2>8, WasThereStays
  <2> QED
    BY <2>1, <2>6, <2>7, <2>8, <2>9
<1>3. OpenedAt(banks', row, i)
  BY <1>2 DEF OpenedAt
<1> QED
  BY <1>1, <1>3

LEMMA BankManifests ==
  ASSUME StartInv, ManifestInv, BankGoesOn
  PROVE  ManifestInv'
<1>0. /\ HistoryOK
      /\ \A r \in Requests : ManifestRow(banks, request[r])
      /\ \A s \in Submissions :
           submission[s].status # "NONE" => WasTheBank(banks, submission[s].set, submission[s].entries)
  BY DEF ManifestInv
<1>1. request' = request /\ submission' = submission
  BY DEF BankGoesOn
<1>2. ASSUME NEW r \in Requests PROVE ManifestRow(banks', request'[r])
  <2>1. PICK row : row = request[r]
    OBVIOUS
  <2>2. ASSUME NEW c \in Slots, row.seen[c] # None PROVE ReadOK(banks', row, c)
    <3>1. ReadOK(banks, row, c)
      BY <1>0, <2>1, <2>2 DEF ManifestRow
    <3>2. \A i \in DOMAIN banks : i \in DOMAIN banks' /\ banks'[i] = banks[i]
      BY HistoryGrows
    <3> QED
      BY <3>1, <3>2 DEF ReadOK
  <2>3. ASSUME row.phase = "checking" PROVE \E i \in DOMAIN banks' : OpenedAt(banks', row, i)
    <3>1. PICK i \in DOMAIN banks : OpenedAt(banks, request[r], i)
      BY <1>0, <2>1, <2>3 DEF ManifestRow
    <3>2. i \in DOMAIN banks' /\ OpenedAt(banks', row, i)
      BY <1>0, <2>1, <2>3, <3>1, OpenedStays DEF IsChecking
    <3> QED
      BY <3>2
  <2>4. ManifestRow(banks', row)
    BY <2>2, <2>3 DEF ManifestRow
  <2> QED
    BY <1>1, <2>1, <2>4
<1>3. ASSUME NEW s \in Submissions, submission'[s].status # "NONE"
      PROVE  WasTheBank(banks', submission'[s].set, submission'[s].entries)
  <2>1. PICK set, entries : set = submission[s].set /\ entries = submission[s].entries
    OBVIOUS
  <2>2. WasTheBank(banks', set, entries)
    BY <1>0, <1>1, <1>3, <2>1, WasTheBankStays
  <2> QED
    BY <1>1, <2>1, <2>2
<1> QED
  BY <1>0, <1>2, <1>3, HistoryNext DEF ManifestInv

-----------------------------------------------------------------------------
(* Requests read, open, check and commit. *)

\* The tables change beside the bank, each row to one of which the same is known.
LEMMA TableManifests ==
  ASSUME ManifestInv, UNCHANGED <<bank, banks>>,
         \A r \in Requests : ManifestRow(banks, request'[r]),
         \A s \in Submissions : submission'[s].status # "NONE" =>
           WasTheBank(banks, submission'[s].set, submission'[s].entries)
  PROVE  ManifestInv'
  BY DEF ManifestInv, HistoryOK

LEMMA StepManifests ==
  ASSUME StartInv, ManifestInv, NEW r \in Requests, NEW row, StepTo(r, row), ManifestRow(banks, row)
  PROVE  ManifestInv'
<1>1. /\ request'[r] = row /\ \A t \in Requests \ {r} : request'[t] = request[t]
      /\ UNCHANGED <<bank, banks, submission>>
  BY DEF StepTo, bankVars, StartInv, TypeOK
<1>2. \A t \in Requests : ManifestRow(banks, request'[t])
  BY <1>1 DEF ManifestInv
<1>3. \A s \in Submissions : submission'[s].status # "NONE" =>
        WasTheBank(banks, submission'[s].set, submission'[s].entries)
  BY <1>1 DEF ManifestInv
<1> QED
  BY <1>1, <1>2, <1>3, TableManifests

LEMMA UnreadRow ==
  ASSUME NEW row, \A c \in Slots : row.seen[c] = None, row.phase # "checking"
  PROVE  ManifestRow(banks, row)
  BY DEF ManifestRow

\* Nothing has been read before a set is chosen.
LEMMA EarlyManifests ==
  ASSUME StartInv, ManifestInv, NEW r \in Requests,
         \/ \E u \in Students, k \in Keys : StartSubmission(r, u, k)
         \/ ReplayStartIntent(r)
         \/ \E set \in TestSets : FindActiveSubmission(r, set)
         \/ \E c \in Slots : EligibilityConflict(r, c)
         \/ StartFails(r)
         \/ Ends(r)
  PROVE  ManifestInv'
<1>1. \A c \in Slots : IdleRequest.seen[c] = None
  BY DEF IdleRequest, Nothing
<1>2. Ends(r) => ManifestInv'
  <2>1. IdleRequest.phase # "checking"
    BY DEF IdleRequest
  <2> QED
    BY <1>1, <2>1, StepManifests, UnreadRow DEF Ends
<1>3. ASSUME request[r].phase \in {"replaying", "looking"}
      PROVE  \A c \in Slots : request[r].seen[c] = None
  BY <1>3 DEF ManifestInv, ManifestRow, ReadOK
<1>4. ASSUME NEW row, StepTo(r, row), row.phase # "checking", row.seen = IdleRequest.seen
      PROVE  ManifestInv'
  BY <1>1, <1>4, StepManifests, UnreadRow
<1>5. ASSUME NEW row, StepTo(r, row), row.phase # "checking", row.seen = request[r].seen,
             request[r].phase \in {"replaying", "looking"}
      PROVE  ManifestInv'
  BY <1>3, <1>5, StepManifests, UnreadRow
<1>6. ASSUME NEW u \in Students, NEW k \in Keys, StartSubmission(r, u, k) PROVE ManifestInv'
  <2>1. PICK row : row = [IdleRequest EXCEPT !.phase = "looking", !.student = u, !.key = k]
    OBVIOUS
  <2>2. row.phase = "looking" /\ row.seen = IdleRequest.seen
    BY <2>1 DEF IdleRequest
  <2> QED
    BY <1>4, <1>6, <2>1, <2>2 DEF StartSubmission
<1>7. ASSUME ReplayStartIntent(r) PROVE ManifestInv'
  <2>1. PICK row : row = [request[r] EXCEPT !.phase = "looking"]
    OBVIOUS
  <2>2. row.phase = "looking" /\ row.seen = request[r].seen
    BY <2>1, RowFields DEF RequestRow
  <2> QED
    BY <1>2, <1>5, <1>7, <2>1, <2>2 DEF ReplayStartIntent
<1>8. ASSUME NEW set \in TestSets, FindActiveSubmission(r, set) PROVE ManifestInv'
  <2>1. /\ request[r].phase = "looking"
        /\ \/ Ends(r)
           \/ StepTo(r, [request[r] EXCEPT !.phase = "reading", !.set = set])
           \/ \E s : StepTo(r, [request[r] EXCEPT !.phase = "reading", !.set = set, !.active = s])
    BY <1>8 DEF FindActiveSubmission
  <2>2. ASSUME NEW row, StepTo(r, row),
               \/ row = [request[r] EXCEPT !.phase = "reading", !.set = set]
               \/ \E s : row = [request[r] EXCEPT !.phase = "reading", !.set = set, !.active = s]
        PROVE  ManifestInv'
    <3>1. row.phase = "reading" /\ row.seen = request[r].seen
      BY <2>2, RowFields DEF RequestRow
    <3> QED
      BY <1>5, <2>1, <2>2, <3>1
  <2> QED
    BY <1>2, <2>1, <2>2
<1>9. ASSUME NEW c \in Slots, EligibilityConflict(r, c) PROVE ManifestInv'
  <2>1. PICK row : row = [IdleRequest EXCEPT !.phase = "replaying",
                             !.student = request[r].student, !.key = request[r].key]
    OBVIOUS
  <2>2. row.phase = "replaying" /\ row.seen = IdleRequest.seen
    BY <2>1 DEF IdleRequest
  <2> QED
    BY <1>4, <1>9, <2>1, <2>2 DEF EligibilityConflict
<1> QED
  BY <1>2, <1>6, <1>7, <1>8, <1>9 DEF StartFails

LEMMA ReadManifests ==
  ASSUME StartInv, ManifestInv, NEW r \in Requests, NEW c \in Slots, ReadCandidate(r, c)
  PROVE  ManifestInv'
<1>1. CASE Ends(r)
  BY <1>1, EarlyManifests
<1>2. CASE ~Ends(r)
  <2>1. PICK q \in Questions :
          /\ SlotOf[q] = c
          /\ StepTo(r, [request[r] EXCEPT
                          !.seen[c] = [question |-> q, version |-> bank[q].version]])
    BY <1>2 DEF ReadCandidate
  <2>2. PICK e, row : /\ e = [question |-> q, version |-> bank[q].version]
                      /\ row = [request[r] EXCEPT !.seen[c] = e]
    OBVIOUS
  <2>3. e.question = q /\ e.version = bank[q].version
    BY <2>2
  <2>4. /\ row.phase = "reading" /\ row.seen[c] = e
        /\ \A d \in Slots \ {c} : row.seen[d] = request[r].seen[d]
    <3>1. request[r].phase = "reading"
      BY DEF ReadCandidate
    <3> QED
      BY <2>2, <3>1, RowFields DEF RequestRow
  <2>5. \A d \in Slots \ {c} : row.seen[d] # None => ReadOK(banks, row, d)
    <3>1. request[r].phase = "reading" /\ ManifestRow(banks, request[r])
      BY DEF ReadCandidate, ManifestInv
    <3> QED
      BY <2>4, <3>1 DEF ManifestRow, ReadOK
  <2>6. ReadOK(banks, row, c)
    BY <2>1, <2>3, <2>4 DEF ReadOK, ManifestInv, HistoryOK
  <2>7. ManifestRow(banks, row)
    BY <2>4, <2>5, <2>6 DEF ManifestRow
  <2> QED
    BY <2>1, <2>2, <2>7, StepManifests
<1> QED
  BY <1>1, <1>2

\* Nothing that was read is older than the state the transaction opens at.
LEMMA OpenManifests ==
  ASSUME StartInv, ManifestInv, NEW r \in Requests, OpenTransaction(r)
  PROVE  ManifestInv'
<1>1. CASE Ends(r)
  BY <1>1, EarlyManifests
<1>2. CASE ~Ends(r)
  <2>1. PICK row : row = [request[r] EXCEPT !.phase = "checking", !.unchecked = Slots]
    OBVIOUS
  <2>2. StepTo(r, row) /\ \A c \in Slots : request[r].seen[c] # None
    BY <1>2, <2>1 DEF OpenTransaction
  <2>3. row.phase = "checking" /\ row.unchecked = Slots /\ row.seen = request[r].seen
    BY <2>1, RowFields DEF RequestRow
  <2>4. \A c \in Slots : ReadOK(banks, request[r], c) /\ ReadOK(banks, row, c)
    BY <2>2, <2>3 DEF ManifestInv, ManifestRow, ReadOK
  <2>5. DOMAIN banks = 1..Len(banks) /\ Len(banks) \in DOMAIN banks /\ Len(banks) \in Nat
    BY DEF ManifestInv, HistoryOK, StartInv, TypeOK
  <2>6. OpenedAt(banks, row, Len(banks))
    BY <2>3, <2>4, <2>5 DEF OpenedAt, ReadOK
  <2>7. ManifestRow(banks, row)
    BY <2>4, <2>5, <2>6 DEF ManifestRow
  <2> QED
    BY <2>2, <2>7, StepManifests
<1> QED
  BY <1>1, <1>2

\* The version is the one that was read, so it was the same when the transaction
\* opened in between.
LEMMA CheckManifests ==
  ASSUME StartInv, ManifestInv, NEW r \in Requests, NEW c \in Slots, CheckCandidate(r, c)
  PROVE  ManifestInv'
<1>1. PICK row : row = [request[r] EXCEPT !.unchecked = @ \ {c}]
  OBVIOUS
<1>2. /\ StepTo(r, row) /\ IsChecking(r)
      /\ Matches(bank, request[r].set, request[r].seen[c])
  BY <1>1 DEF CheckCandidate
<1>3. /\ row.phase = "checking" /\ row.seen = request[r].seen /\ row.set = request[r].set
      /\ row.unchecked = request[r].unchecked \ {c}
  BY <1>1, <1>2, RowFields DEF RequestRow, IsChecking
<1>4. PICK i \in DOMAIN banks : OpenedAt(banks, request[r], i)
  BY <1>2 DEF ManifestInv, ManifestRow, IsChecking
<1>5. /\ DOMAIN banks = 1..Len(banks) /\ Len(banks) \in DOMAIN banks /\ Len(banks) \in Nat
      /\ bank = banks[Len(banks)]
  BY DEF ManifestInv, HistoryOK, StartInv, TypeOK
<1>6. WasThere(banks, row.set, row.seen[c], i)
  <2>1. PICK e, set : e = request[r].seen[c] /\ set = request[r].set
    OBVIOUS
  <2>2. e.question \in Questions
    BY <1>2, <2>1, RowFields DEF RowOK, IsChecking, Entry
  <2>3. Matches(banks[Len(banks)], set, e)
    BY <1>2, <1>5, <2>1
  <2>4. /\ \A j \in i..Len(banks) : banks[j][e.question].active = banks[i][e.question].active
        /\ \E j \in 1..i : banks[j][e.question].version = e.version
    BY <1>4, <2>1 DEF OpenedAt
  <2>5. banks[i][e.question].active
    BY <1>5, <2>3, <2>4 DEF Matches
  <2>6. banks[i][e.question].version = e.version
    <3>1. PICK j \in 1..i : banks[j][e.question].version = e.version
      BY <2>4
    <3>2. \A k \in DOMAIN banks : banks[k][e.question].version \in Nat
      BY <2>2, StartBankAssumption DEF StartInv, TypeOK, QuestionRow
    <3>3. /\ banks[j][e.question].version <= banks[i][e.question].version
          /\ banks[i][e.question].version <= banks[Len(banks)][e.question].version
      BY <1>5, <2>2, <3>1 DEF ManifestInv, HistoryOK
    <3> QED
      BY <1>5, <2>3, <3>1, <3>2, <3>3 DEF Matches
  <2> QED
    BY <1>3, <1>5, <2>1, <2>3, <2>5, <2>6 DEF WasThere
<1>7. OpenedAt(banks, row, i)
  BY <1>3, <1>4, <1>6 DEF OpenedAt
<1>8. ManifestRow(banks, row)
  <2>1. \A d \in Slots : row.seen[d] # None => ReadOK(banks, row, d)
    BY <1>2, <1>3 DEF ManifestInv, ManifestRow, ReadOK
  <2> QED
    BY <1>7, <2>1 DEF ManifestRow
<1> QED
  BY <1>2, <1>8, StepManifests

LEMMA CommitManifests ==
  ASSUME StartInv, ManifestInv, NEW r \in Requests, NEW s \in Submissions, CommitManifest(r, s)
  PROVE  ManifestInv'
<1>1. /\ UNCHANGED <<bank, banks>> /\ request' = [request EXCEPT ![r] = IdleRequest]
      /\ IsChecking(r) /\ request[r].unchecked = {}
  BY DEF CommitManifest, bankVars
<1>2. ASSUME NEW t \in Requests PROVE ManifestRow(banks, request'[t])
  <2>1. request'[r] = IdleRequest /\ (t # r => request'[t] = request[t])
    BY <1>1 DEF StartInv, TypeOK
  <2>2. ManifestRow(banks, IdleRequest)
    BY UnreadRow DEF IdleRequest, Nothing
  <2> QED
    BY <2>1, <2>2 DEF ManifestInv
<1>3. WasTheBank(banks, request[r].set, request[r].seen)
  <2>1. PICK i \in DOMAIN banks : OpenedAt(banks, request[r], i)
    BY <1>1 DEF ManifestInv, ManifestRow, IsChecking
  <2>2. \A c \in Slots : request[r].seen[c] # None
    BY <1>1, RowFields DEF RowOK, IsChecking
  <2>3. \A c \in Slots : SlotOf[request[r].seen[c].question] = c
    BY <2>2 DEF ManifestInv, ManifestRow, ReadOK
  <2>4. \A c \in Slots : WasThere(banks, request[r].set, request[r].seen[c], i)
    BY <1>1, <2>1 DEF OpenedAt
  <2> QED
    BY <2>3, <2>4 DEF WasTheBank
<1>4. ASSUME NEW t \in Submissions, submission'[t].status # "NONE"
      PROVE  WasTheBank(banks, submission'[t].set, submission'[t].entries)
  <2>1. CASE t = s
    <3>1. submission'[t].set = request[r].set /\ submission'[t].entries = request[r].seen
      BY <2>1 DEF CommitManifest
    <3> QED
      BY <1>3, <3>1
  <2>2. CASE t # s
    <3>1. submission[t] \in SubmissionRow
      BY DEF StartInv, TypeOK
    <3>2. \/ submission'[t] = submission[t]
          \/ /\ t = request[r].active
             /\ submission'[t] = [submission[t] EXCEPT !.status = "ABANDONED"]
      BY <2>2 DEF CommitManifest
    <3>3. /\ submission'[t].set = submission[t].set
          /\ submission'[t].entries = submission[t].entries
      BY <3>1, <3>2 DEF SubmissionRow
    <3>4. submission[t].status # "NONE"
      BY <1>4, <2>2, CommitFacts, StartNoneAssumption DEF IsActiveOf
    <3> QED
      BY <3>3, <3>4 DEF ManifestInv
  <2> QED
    BY <2>1, <2>2
<1> QED
  BY <1>1, <1>2, <1>4, TableManifests

LEMMA ManifestsNext == StartInv /\ ManifestInv /\ [Next]_vars => ManifestInv'
<1> SUFFICES ASSUME StartInv, ManifestInv, [Next]_vars PROVE ManifestInv'
  OBVIOUS
<1>1. ASSUME UNCHANGED <<bank, banks, request>>,
             \A s \in Submissions :
               /\ submission'[s].set = submission[s].set
               /\ submission'[s].entries = submission[s].entries
               /\ submission'[s].status = submission[s].status \/ submission[s].status # "NONE"
      PROVE  ManifestInv'
  <2>1. \A r \in Requests : ManifestRow(banks, request'[r])
    BY <1>1 DEF ManifestInv
  <2>2. \A s \in Submissions : submission'[s].status # "NONE" =>
          WasTheBank(banks, submission'[s].set, submission'[s].entries)
    BY <1>1 DEF ManifestInv
  <2> QED
    BY <1>1, <2>1, <2>2, TableManifests
<1>2. ASSUME NEW s \in Submissions,
             CloseSubmission(s) \/ \E b \in BOOLEAN : SetRetained(s, b)
      PROVE  ManifestInv'
  <2>1. submission \in [Submissions -> SubmissionRow] /\ submission[s] \in SubmissionRow
    BY DEF StartInv, TypeOK
  <2>2. PICK row :
          /\ submission' = [submission EXCEPT ![s] = row]
          /\ \/ row = [submission[s] EXCEPT !.status = "CLOSED"]
             \/ \E b \in BOOLEAN : row = [submission[s] EXCEPT !.retained = b]
    BY <1>2 DEF CloseSubmission, SetRetained
  <2>3. row.set = submission[s].set /\ row.entries = submission[s].entries
    BY <2>1, <2>2 DEF SubmissionRow
  <2>4. submission'[s] = row /\ \A t \in Submissions \ {s} : submission'[t] = submission[t]
    BY <2>1, <2>2
  <2>5. UNCHANGED <<bank, banks, request>> /\ submission[s].status = "IN_PROGRESS"
    BY <1>2 DEF CloseSubmission, SetRetained, bankVars
  <2> QED
    BY <1>1, <2>3, <2>4, <2>5
<1>3. ASSUME NEW r \in Requests, StartNext(r) PROVE ManifestInv'
  <2>1. CASE \/ \E u \in Students, k \in Keys : StartSubmission(r, u, k)
             \/ ReplayStartIntent(r)
             \/ \E set \in TestSets : FindActiveSubmission(r, set)
             \/ \E c \in Slots : EligibilityConflict(r, c)
             \/ StartFails(r)
    BY <2>1, EarlyManifests
  <2>2. CASE \/ \E c \in Slots : ReadCandidate(r, c) \/ CheckCandidate(r, c)
             \/ OpenTransaction(r)
             \/ \E s \in Submissions : CommitManifest(r, s)
    BY <2>2, ReadManifests, CheckManifests, OpenManifests, CommitManifests
  <2> QED
    BY <1>3, <2>1, <2>2 DEF StartNext
<1>4. ASSUME NEW q \in Questions, BankNext(q) PROVE ManifestInv'
  BY <1>4, BankMoves, BankManifests
<1>5. UNCHANGED vars => ManifestInv'
  BY <1>1 DEF vars
<1> QED
  BY <1>2, <1>3, <1>4, <1>5 DEF Next

\* Whatever Admins change while a start reads, checks and commits: the entries of
\* its manifest were in the bank together, as they are delivered, and each was in
\* the Test Set then or afterwards.
THEOREM ManifestsWereTheBank == Spec => []ManifestWasTheBank
<1>1. ManifestInv => ManifestWasTheBank
  BY DEF ManifestInv, ManifestWasTheBank, WasTheBank, WasThere
<1> QED
  BY <1>1, InitHolds, StepHolds, InitManifests, ManifestsNext, PTL DEF Spec
=============================================================================
