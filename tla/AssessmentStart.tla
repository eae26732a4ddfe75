--------------------------- MODULE AssessmentStart ---------------------------
(***************************************************************************)
(* The start of an Assessment (service/manifestSubmissionInitialization     *)
(* .service.ts): a request is replayed when its idempotency key is known,   *)
(* refused while the student has an attempt that still matches the Question *)
(* bank, and otherwise builds a manifest from one Test Set and supersedes   *)
(* the attempt that no longer matches.                                     *)
(*                                                                         *)
(* The Question bank is read one Delivery slot after the other before the   *)
(* transaction opens, and checked again, one Question after the other,      *)
(* inside it.  Edits of a Question take no lock; retirement takes the lock  *)
(* of its prompt audio, which the transaction holds from the start.         *)
(*                                                                         *)
(* The random choice of the Test Set is made before its Questions are read: *)
(* a request that finds the set incomplete ends, as any other failure that  *)
(* changes nothing.                                                        *)
(* Questions here have complete audio (PromptMedia).  One that is not      *)
(* active is retired, or not created yet.                                  *)
(***************************************************************************)
EXTENDS Naturals, Sequences

CONSTANTS
  Students,     \* active student accounts
  Submissions,  \* pool of Submission ids
  Questions,    \* Question ids
  Slots,        \* the Delivery slots
  TestSets,     \* Test Sets other than the practice set
  Keys,         \* pool of idempotency keys
  Requests,     \* slots for start requests under way
  None,         \* SQL NULL
  SlotOf,       \* the Delivery slot of a Question
  HomeOf,       \* the Test Set a Question starts in
  MaxChanges    \* bound on the changes of the Question bank

ASSUME StartNoneAssumption == None \notin Students \cup Submissions \cup Questions \cup TestSets \cup Keys
ASSUME StartBankAssumption ==
  SlotOf \in [Questions -> Slots] /\ HomeOf \in [Questions -> TestSets]
  /\ MaxChanges \in Nat

VARIABLES
  bank,        \* Question rows
  banks,       \* history: the states of the bank in their order
  submission,  \* Submission rows with their manifests
  stale,       \* history: attempts that did not match the bank at some moment
  replaced,    \* history: attempts a start has superseded
  intent,      \* SubmissionStartIntent rows: the Submission of a key
  request      \* start requests under way

bankVars == <<bank, banks>>
vars == <<bank, banks, submission, stale, replaced, intent, request>>

-----------------------------------------------------------------------------
\* version: what a delivered prompt is made of; every edit makes a new one.
QuestionRow == [set : TestSets, version : 0..MaxChanges, active : BOOLEAN]

Entry == [question : Questions, version : 0..MaxChanges]

\* CLOSED: completed, or abandoned by the student or the sweeper.
SubmissionRow ==
  [owner : Students \cup {None}, status : {"NONE", "IN_PROGRESS", "ABANDONED", "CLOSED"},
   retained : BOOLEAN, set : TestSets \cup {None}, entries : [Slots -> Entry \cup {None}]]

\* checking: the transaction is open and holds its locks; unchecked: the slots
\* whose Question it still has to compare with what was read.
RequestRow ==
  [phase : {"idle", "replaying", "looking", "reading", "checking"},
   student : Students \cup {None}, key : Keys \cup {None}, set : TestSets \cup {None},
   active : Submissions \cup {None}, seen : [Slots -> Entry \cup {None}],
   unchecked : SUBSET Slots]

Nothing == [c \in Slots |-> None]

IdleRequest ==
  [phase |-> "idle", student |-> None, key |-> None, set |-> None, active |-> None,
   seen |-> Nothing, unchecked |-> {}]

InitialBank == [q \in Questions |-> [set |-> HomeOf[q], version |-> 0, active |-> TRUE]]

TypeOK ==
  /\ bank \in [Questions -> QuestionRow]
  /\ banks \in Seq([Questions -> QuestionRow])
  /\ submission \in [Submissions -> SubmissionRow]
  /\ stale \subseteq Submissions /\ replaced \subseteq Submissions
  /\ intent \in [Keys -> Submissions \cup {None}]
  /\ request \in [Requests -> RequestRow]
  /\ \A r \in Requests : request[r].phase = "checking" =>
       /\ \A c \in Slots : request[r].seen[c] # None
       /\ \A s \in Submissions : request[r].active = s => submission[s].status = "IN_PROGRESS"

Init ==
  /\ bank = InitialBank
  /\ banks = <<InitialBank>>
  /\ submission = [s \in Submissions |->
       [owner |-> None, status |-> "NONE", retained |-> TRUE, set |-> None, entries |-> Nothing]]
  /\ stale = {} /\ replaced = {}
  /\ intent = [k \in Keys |-> None]
  /\ request = [r \in Requests |-> IdleRequest]

-----------------------------------------------------------------------------
(* Queries. *)

\* Question q of b is what entry e delivers from set.
Matches(b, set, e) ==
  /\ b[e.question].active
  /\ b[e.question].set = set
  /\ b[e.question].version = e.version

\* activeManifestMatchesCurrentBank.  Its five reads are taken as one: a match
\* of Questions that were never there together needs two edits in between.
IsCurrentIn(b, s) ==
  \A c \in Slots : Matches(b, submission[s].set, submission[s].entries[c])

IsCurrent(s) == IsCurrentIn(bank, s)

IsActiveOf(u, s) == submission[s].owner = u /\ submission[s].status = "IN_PROGRESS"

\* The attempts of u that a start reads: IN_PROGRESS and RETAINED.
ActiveOf(u) == {s \in Submissions : IsActiveOf(u, s) /\ submission[s].retained}

\* Mutant: the index forgets attempts in quarantine.
IndexIsFreeOfRetained(u, s) == ActiveOf(u) \ {s} = {}

\* The partial unique index has no other entry for u than s: it knows nothing
\* of the retention status.
IndexIsFree(u, s) == \A t \in Submissions \ {s} : ~IsActiveOf(u, t)

IsChecking(r) == request[r].phase = "checking"

\* An open transaction holds the row of the attempt it supersedes.
IsRowFree(s) == \A r \in Requests : IsChecking(r) => request[r].active # s

\* ... and the lock of the audio of every Question it delivers.
IsAudioFree(q) ==
  \A r \in Requests : IsChecking(r) => \A c \in Slots : request[r].seen[c].question # q

PositionIsFree(q, set) ==
  \A p \in Questions \ {q} :
    ~(bank[p].active /\ bank[p].set = set /\ SlotOf[p] = SlotOf[q])

-----------------------------------------------------------------------------
(* The Question bank (service/question.service.ts). *)

ChangeQuestion(q, row) ==
  /\ Len(banks) <= MaxChanges
  /\ bank' = [bank EXCEPT ![q] = row]
  /\ banks' = Append(banks, bank')
  /\ stale' = stale \cup {s \in Submissions :
                            submission[s].status = "IN_PROGRESS" /\ ~IsCurrentIn(bank', s)}
  /\ UNCHANGED <<submission, replaced, intent, request>>

\* Its timing, its cue card, its options, or one of its Tasks.
EditQuestion(q) ==
  /\ bank[q].active /\ bank[q].version < MaxChanges
  /\ ChangeQuestion(q, [bank[q] EXCEPT !.version = @ + 1])

MoveQuestion(q, set) ==
  /\ bank[q].active /\ bank[q].set # set /\ PositionIsFree(q, set)
  /\ ChangeQuestion(q, [bank[q] EXCEPT !.set = set])

RetireQuestion(q) ==
  /\ bank[q].active /\ IsAudioFree(q)
  /\ ChangeQuestion(q, [bank[q] EXCEPT !.active = FALSE])

RestoreQuestion(q) ==
  /\ ~bank[q].active /\ IsAudioFree(q) /\ PositionIsFree(q, bank[q].set)
  /\ ChangeQuestion(q, [bank[q] EXCEPT !.active = TRUE])

-----------------------------------------------------------------------------
(* initializeManifestSubmission, up to its transaction. *)

StepTo(r, row) ==
  /\ request' = [request EXCEPT ![r] = row]
  /\ UNCHANGED <<bankVars, submission, stale, replaced, intent>>

Ends(r) == StepTo(r, IdleRequest)

\* replayStartIntent falls through when there is nothing to replay.  A replay,
\* a key of another student, a closed attempt and one that is not retained end
\* the request.
IsReplayed(u, k) ==
  \E s \in Submissions :
    /\ intent[k] = s
    /\ \/ submission[s].owner # u
       \/ submission[s].status # "IN_PROGRESS"
       \/ ~submission[s].retained
       \/ IsCurrent(s)

\* The key is optional; the client sends one.
StartSubmission(r, u, k) ==
  /\ request[r] = IdleRequest
  /\ ~IsReplayed(u, k)
  /\ StepTo(r, [IdleRequest EXCEPT !.phase = "looking", !.student = u, !.key = k])

\* ... and so again after a conflict.
ReplayStartIntent(r) ==
  /\ request[r].phase = "replaying"
  /\ IF IsReplayed(request[r].student, request[r].key) THEN Ends(r)
     ELSE StepTo(r, [request[r] EXCEPT !.phase = "looking"])

\* Mutant: any active attempt can be superseded.
FindAnyActiveSubmission(r, set) ==
  LET own == ActiveOf(request[r].student) IN
  /\ request[r].phase = "looking"
  /\ \/ /\ own = {}
        /\ StepTo(r, [request[r] EXCEPT !.phase = "reading", !.set = set])
     \/ \E s \in own :
          StepTo(r, [request[r] EXCEPT !.phase = "reading", !.set = set, !.active = s])

\* The student's attempt is a conflict while it matches the bank.
FindActiveSubmission(r, set) ==
  LET own == ActiveOf(request[r].student) IN
  /\ request[r].phase = "looking"
  /\ \/ /\ own = {}
        /\ StepTo(r, [request[r] EXCEPT !.phase = "reading", !.set = set])
     \/ \E s \in own :
          IF IsCurrent(s) THEN Ends(r)
          ELSE StepTo(r, [request[r] EXCEPT !.phase = "reading", !.set = set, !.active = s])

\* The eligible Question of the chosen set in slot c; without one the bank is
\* incomplete.
ReadCandidate(r, c) ==
  LET found == {q \in Questions :
                  SlotOf[q] = c /\ bank[q].active /\ bank[q].set = request[r].set} IN
  /\ request[r].phase = "reading" /\ request[r].seen[c] = None
  /\ \/ found = {} /\ Ends(r)
     \/ \E q \in found :
          StepTo(r, [request[r] EXCEPT
                       !.seen[c] = [question |-> q, version |-> bank[q].version]])

-----------------------------------------------------------------------------
(* Its transaction. *)

\* Mutant: the transaction supersedes the attempt it finds active by then.
OpenTransactionAnew(r) ==
  LET u == request[r].student IN
  /\ request[r].phase = "reading" /\ \A c \in Slots : request[r].seen[c] # None
  /\ \A t \in Requests : IsChecking(t) => request[t].student # u
  /\ \A c \in Slots : IsAudioFree(request[r].seen[c].question)
  /\ \E s \in ActiveOf(u) \cup {None} :
       /\ IndexIsFree(u, s)
       /\ StepTo(r, [request[r] EXCEPT !.phase = "checking", !.active = s, !.unchecked = Slots])

\* Locks are taken in one order everywhere - the row of the old attempt, then the
\* audio - so that they are taken here at once.  The old attempt must still be
\* active; the index waits for another transaction of the same student.
OpenTransaction(r) ==
  LET u == request[r].student
      s == request[r].active IN
  /\ request[r].phase = "reading" /\ \A c \in Slots : request[r].seen[c] # None
  /\ \A t \in Requests : IsChecking(t) => request[t].student # u
  /\ \A c \in Slots : IsAudioFree(request[r].seen[c].question)
  /\ IF (s = None \/ s \in ActiveOf(u)) /\ IndexIsFree(u, s)
     THEN StepTo(r, [request[r] EXCEPT !.phase = "checking", !.unchecked = Slots])
     ELSE Ends(r)

\* Mutant: a Question that was moved to another Test Set passes.
CheckContentOnly(r, c) ==
  /\ IsChecking(r) /\ c \in request[r].unchecked
  /\ bank[request[r].seen[c].question].version = request[r].seen[c].version
  /\ StepTo(r, [request[r] EXCEPT !.unchecked = @ \ {c}])

\* The Question of slot c is still what was read.
CheckCandidate(r, c) ==
  /\ IsChecking(r) /\ c \in request[r].unchecked
  /\ Matches(bank, request[r].set, request[r].seen[c])
  /\ StepTo(r, [request[r] EXCEPT !.unchecked = @ \ {c}])

\* It is not: everything is rolled back and done again - twice at most, here as
\* often as it happens.
EligibilityConflict(r, c) ==
  /\ IsChecking(r) /\ c \in request[r].unchecked
  /\ ~Matches(bank, request[r].set, request[r].seen[c])
  /\ StepTo(r, [IdleRequest EXCEPT !.phase = "replaying", !.student = request[r].student,
                                   !.key = request[r].key])

\* The deadline passes, the process dies, or the database rolls back.
StartFails(r) ==
  /\ request[r].phase # "idle"
  /\ Ends(r)

\* A key of another student's intent ends in a unique violation.
CommitManifest(r, s) ==
  LET q == request[r] IN
  /\ IsChecking(r) /\ q.unchecked = {} /\ submission[s].status = "NONE"
  /\ \A k \in Keys : q.key = k /\ intent[k] # None => submission[intent[k]].owner = q.student
  /\ submission' = [t \in Submissions |->
       IF t = s THEN [owner |-> q.student, status |-> "IN_PROGRESS", retained |-> TRUE,
                      set |-> q.set, entries |-> q.seen]
       ELSE IF t = q.active THEN [submission[t] EXCEPT !.status = "ABANDONED"]
       ELSE submission[t]]
  /\ replaced' = replaced \cup ({q.active} \ {None})
  /\ stale' = IF \A c \in Slots : Matches(bank, q.set, q.seen[c]) THEN stale ELSE stale \cup {s}
  /\ intent' = [k \in Keys |-> IF k = q.key THEN s ELSE intent[k]]
  /\ request' = [request EXCEPT ![r] = IdleRequest]
  /\ UNCHANGED bankVars

-----------------------------------------------------------------------------
(* What else becomes of an attempt.  All of it waits for the row. *)

\* completeSubmission, abandonSubmission, abandonStaleSubmissions.  None of them
\* looks at the Question bank.
CloseSubmission(s) ==
  /\ submission[s].status = "IN_PROGRESS" /\ submission[s].retained /\ IsRowFree(s)
  /\ submission' = [submission EXCEPT ![s].status = "CLOSED"]
  /\ UNCHANGED <<bankVars, stale, replaced, intent, request>>

\* A purge quarantines the attempt, or is recovered (SubmissionPurge).  Later
\* statuses are left out: a start does not read the retention of a closed one.
SetRetained(s, retained) ==
  /\ submission[s].status = "IN_PROGRESS" /\ submission[s].retained # retained /\ IsRowFree(s)
  /\ submission' = [submission EXCEPT ![s].retained = retained]
  /\ UNCHANGED <<bankVars, stale, replaced, intent, request>>

-----------------------------------------------------------------------------
StartNext(r) ==
  \/ \E u \in Students, k \in Keys : StartSubmission(r, u, k)
  \/ ReplayStartIntent(r)
  \/ \E set \in TestSets : FindActiveSubmission(r, set)
  \/ \E c \in Slots : ReadCandidate(r, c) \/ CheckCandidate(r, c) \/ EligibilityConflict(r, c)
  \/ OpenTransaction(r)
  \/ StartFails(r)
  \/ \E s \in Submissions : CommitManifest(r, s)

BankNext(q) ==
  \/ EditQuestion(q)
  \/ \E set \in TestSets : MoveQuestion(q, set)
  \/ RetireQuestion(q)
  \/ RestoreQuestion(q)

Next ==
  \/ \E r \in Requests : StartNext(r)
  \/ \E q \in Questions : BankNext(q)
  \/ \E s \in Submissions : CloseSubmission(s) \/ \E b \in BOOLEAN : SetRetained(s, b)

Spec == Init /\ [][Next]_vars

-----------------------------------------------------------------------------
(* Properties. *)

\* A manifest is the bank as it really was: all of its entries were active together,
\* with the delivered content, and each was in the manifest's Test Set then or, moved
\* away for a while, again afterwards; although they are read and checked one after
\* the other while Admins edit, move and retire Questions.
ManifestWasTheBank ==
  \A s \in Submissions :
    submission[s].status # "NONE" =>
      \E i \in DOMAIN banks : \A c \in Slots :
        LET e == submission[s].entries[c] IN
        /\ SlotOf[e.question] = c
        /\ banks[i][e.question].active
        /\ banks[i][e.question].version = e.version
        /\ \E j \in i..Len(banks) : Matches(banks[j], submission[s].set, e)

\* A start gives up only an attempt that did not match the bank at some moment;
\* otherwise it resumes unchanged (docs/adr/0003), however starts of two tabs,
\* retries and completions cross.
ReplacedWasStale == replaced \subseteq stale

\* A student records one attempt at a time, and no two keys name the same attempt:
\* of two tabs that start at once, one finds the other's.
OneAttemptAtATime ==
  /\ \A s, t \in Submissions :
       submission[s].status = "IN_PROGRESS" /\ submission[t].status = "IN_PROGRESS"
         /\ submission[s].owner = submission[t].owner => s = t
  /\ \A k, l \in Keys : intent[k] # None /\ intent[k] = intent[l] => k = l

\* A retry with the same key finds the same attempt as long as that can be resumed
\* unchanged; afterwards it may find one that is newer (docs/adr/0005).
KeyKeepsItsAttempt ==
  [][\A k \in Keys :
       intent[k] # None /\ intent'[k] # intent[k] =>
         /\ intent[k] \in stale \/ submission[intent[k]].status = "CLOSED"
         /\ submission[intent'[k]].status = "NONE"
         /\ submission'[intent'[k]].owner = submission[intent[k]].owner]_vars
=============================================================================
