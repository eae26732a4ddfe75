# FluentCheck: verification project

TLA+ models of the FluentCheck backend (`src/backend`), configurations that check
them with TLC, and theorems about them proved with TLAPS. FluentCheck is an online
English speaking test: a student records an Assessment in the browser, the recording
becomes a Submission that is reviewed, paid for, scored by two Examiners and returned.
The code is TypeScript over PostgreSQL; every hard question about it is about the order
in which transactions, callbacks and timers touch the same rows.

## 1. Inventory

| Component | State | Operations | Talks to |
|---|---|---|---|
| Recording (`service/submission.service.ts`, sweeper in `server.ts`) | `Submission.status`, Heartbeat time, Answers | start, Heartbeat, abandon, sweep, complete | uploads, flag review, payment routing, assignment |
| Assessment start (`service/manifestSubmissionInitialization.service.ts`) | start intents, frozen manifest | initialise, replay, resume, supersede | question bank, Recording |
| Answer uploads (`service/upload.service.ts`) | Answer rows, object-store versions | presign, confirm | Recording, flags |
| Flag review (`service/submissionFlag.service.ts`) | `SubmissionFlag`, `RetakeCredit` | raise (device, Examiner), confirm, dismiss, route | all of the below |
| Payments (`service/payment.service.ts`, `ipaymu.*`) | `Payment` attempts | checkout, notification, verification | provider iPaymu, assignment |
| Settings and Admin operations (`settings.service.ts`, `adminOps.service.ts`) | `AppSettings`, waivers | switch payment, waive, reassign | routing, assignment |
| Examining (`service/examiner.service.ts`) | `ExaminerAssignment`, Scores | assign, start, save, complete | flags, accounts |
| Accounts (`service/accountTransition.service.ts`) | `User.role`, `User.deletedAt` | change role, deactivate, transfer work | assignment |
| Retention and purge (`submissionRetention.service.ts`, `retentionStorage.service.ts`) | retention state, holds, purge requests, object attempts | request, approve, hold, cancel, delete, complete | everything that refers to a Submission |
| Prompt media (`promptMediaCleanup.service.ts`, `promptMediaReconciliation.service.ts`) | object ledger | inventory, quarantine, delete, confirm | question bank, manifests |
| Question bank (`question.service.ts`, `testSet.service.ts`) | questions, positions, Test Sets | create, edit, retire, swap | Assessment start |
| Sign-in (`auth.service.ts`, `googleAuth.service.ts`) | OAuth state, accounts | begin, consume, link | cookies |
| Rate limits (`config/rateLimitStore.ts`) | counters | increment, reset | every route |
| Test page (`frontend/hooks`, `frontend/app/test`) | recorder, media devices, upload queue | record, upload, leave | the API |

How they interact. There is no message queue. Handlers of concurrent HTTP requests run
transactions on shared rows. Most of them take the row lock of one Submission
(`SELECT … FOR UPDATE`) and read again behind it; assignment, reassignment and account
transitions instead run `SERIALIZABLE` behind one advisory lock. What a handler reads
before its lock (the payment setting, the role of the acting Admin) may be stale when
it is used. After routing, a second transaction assigns Examiners, and it may be missing
if the process dies between the two. The payment provider answers late or twice, and
a timer abandons what the browser left behind.

What is hard, and the properties that would show it going wrong:

* Flags are raised, confirmed and dismissed while completion, the sweeper and another
  Admin act on the same Submission: `OpenFlagStopsTheFlow`, `VoidGrantsOneCredit`,
  `FlagPausesScoring`.
* A void grants a credit that a later routing spends, with `SKIP LOCKED` between two
  routings of one student: `RedemptionPaysForOne`, `CreditIsSpentOnce`.
* Money: several attempts, late refusals, reordered notifications, waivers, a setting
  that changes: `ServedIsSettled`, `SettledStays`, `DeviceVoidIsNeverCharged`,
  `CollectedIsRecorded`.
* Two Examiners, assigned against accounts that change meanwhile:
  `ExaminersAreIndependent`, `OpenWorkHasCapableExaminer`, `ScoredByBoth`,
  `CompletedIsFrozen`, `BegunWorkStays`; and, proved without a run, an active Admin
  remains.
* A page that disappears: `LeftAssessmentEnds`.
* A purge deletes storage objects one by one, across transactions that a storage call
  may outlive, while an Admin recovers the Submission, a second finalization runs, a
  hold arrives or a process dies: `RetainedIsIntact`, `ErasureIsAuthorised`,
  `NothingCapturedIsLeft`, `EndedStays`, `HoldStopsDeletion`, `PurgeSparesPayment`,
  and, since a reservation may be left behind anywhere, `PurgeEnds`.
* Prompt audio is shared by a Question, manifests and Answers, each of which comes and
  goes under the lock of its key; cleanup runs delete it across transactions, and every
  upload of a Question has the same key: `KeptWhileProtected`, `DeletedIsUnused`,
  `FinalStays`.
* A start copies a Test Set Question by Question while Admins edit it, and crosses with
  retries, other tabs and the end of the attempt it supersedes: `ManifestWasTheBank`,
  `ReplacedWasStale`, `OneAttemptAtATime`, `KeyKeepsItsAttempt`.
* A take exists once, in the memory of a page. It is uploaded over requests whose
  answers get lost and which may be executed after the page gave up, perhaps beside
  another page: `TakeIsNeverLost`, `TakeIsOfItsEntry`, `FailureIsReported`,
  `VerifiedIsStored`, `OneFlagPerFailure`, `EvidenceIsFinal`.
* Google callbacks of one identity, or of one address, race at READ COMMITTED:
  `OneAccountPerIdentity`, `StateSignsInOnce`, `ConflictIsReal`.

`PROJECT.json` lists each hazard at its line.

## 2. Modules

```
AssessmentTables      the rows, their types, the initial state, shared queries
 |-- FlagReview       flags, review, retake credits, routing after recording
 |     `-- Recording  start, upload that completes the set, Heartbeat, abandon, sweep, complete
 |-- Payments         checkout attempts, provider, notifications, waiver, setting
 |-- Examining        assignment sets, start, save, complete, reassignment
 |-- Accounts         role changes, deactivation, transfer of untouched work
 `-- AssessmentLifecycle      the composition: Next, Spec, fairness, properties
       |-- MCAssessmentLifecycle     instances, symmetry and view for TLC
       `-- AssessmentProofs          type correctness, an Admin remains
             `-- FlagProofs          flags and retake credits
                   `-- LifecycleProofs   payments, charges, Examiners, the promise
SubmissionPromise     abstract: the phases of a Submission; AssessmentLifecycle implements it
SubmissionPurge       request, approval, quarantine, finalization, recovery, holds
 |-- MCSubmissionPurge              instances and symmetry for TLC
 `-- PurgeProofs                    its invariant and theorems
PromptMedia           prompt audio: Questions, uploads, references, cleanup runs, bucket
 |-- MCPromptMedia, PromptProofs
AssessmentStart       starts: intents, bank comparison, choice, transaction, retry
 |-- MCAssessmentStart, StartProofs
AnswerSession         test pages, recorders, takes, uploads, presign and confirm
 |-- MCAnswerSession, SessionProofs
SignIn                registration, OAuth states, callbacks, resolution of accounts
 |-- MCSignIn, SignInProofs
```

How state corresponds to the code. A variable of `AssessmentTables` is a table (or the
part of it that decides something): `submission`, `flag`, `credits`, `payment`,
`waived`, `assignment`, `role`/`active` (`User.role`, `User.deletedAt IS NULL`) and
`paymentEnabled`. Ids come from finite pools; status `"NONE"` is an id no row uses yet.
Three variables are not tables. `page` says whether the student's page is open and its
Heartbeat fresh. `provider` is what iPaymu knows of each attempt. `request` holds what
a handler has read before its transaction: `complete` the payment setting, `confirm`,
`dismiss` and `waive` the Admin who asked, `dismiss` also the setting.

How actions correspond to the code. A transaction behind the Submission lock or the
advisory lock is one action, named after the function (`CommitConfirmFlag` for the
transaction of `confirmFlag`, `BeginConfirmFlag` for what it reads first). A request
that fails a check, or whose process dies, ends without effect (`RequestEnds`).

`SubmissionPurge` stands beside the lifecycle and keeps of it what a purge reads: the
status up to AWAITING_PAYMENT (`"LATER"` is the rest; assignments and certificates exist
only then), whether a Submission has flags, and one Payment attempt. `purge`, `object`
and `hold` are the retention tables, `retention` is `Submission.retentionStatus`,
`storage` the bucket, and `deleting` the DELETE requests it has still to execute.
`worker` holds the finalizations under way, since `finalizeSubmissionPurge` is no
transaction: each object is reserved in one (`PreparePurgeObject`), deleted inside a
second that keeps its locks during the storage calls (`LockForDelete`, `SendDelete`,
`ConfirmDelete`, `FailDelete`; `held` says that it is still open), and an error is noted
in a third (`NoteFailure`). `TransactionExpires` is the timeout of 60 seconds, after
which the database has given the locks away and the call goes on. `Crash` may come
between any two steps.

`PromptMedia` has the same shape for cleanup runs (`worker`, `held`, `deleting`), with
the key's advisory lock in place of row locks. The key of a Question's audio is made of its
id (`generateQuestionAudioKey`), the same at every upload, so that the Question stands for
its key. `question` and `prompt` are the references a key may have:
`Question.audioStorageKey` and the manifest of a Submission. `object` is the ledger
`PromptMediaCleanupObject`; its row outlives a restore. `url` is the presigned PUT URL of the
key: it lives for an hour, so one from before a quarantine (`"old"`) is dead when the
quarantine has run out, and one presigned later may still be used. `stored` and `recalled`
are history.

`AssessmentStart` keeps a start request (`request`) from its lookup to its commit. The
`phase` `"checking"` is the open transaction, which holds the row of the attempt it
supersedes and the audio locks of its Questions; everything that waits for those has
`IsRowFree` or `IsAudioFree` as a guard. `banks` (the states of the bank in
their order), `stale` and `replaced` are history.

`AnswerSession` keeps both sides of the wire. `phase`, `slot`, `recorder`, `take` and
`upload` are the page: React state and refs, and the recorder with its stop events under
way (`events`), the entry its generation belongs to (`listening`) and the other entries
whose data `chunksRef` has (`mixed`). `StopEvent` is a recorder's last data and its stop
event: the event is for the current generation only, the data (`ondataavailable`) go into
whatever is being recorded. Data before the last are the recorder's own, since it is then
the current one. `answer`, `flags`
and `status` are rows. `object` says what happened under each upload key, and `request`
holds the requests in flight with whether the page still waits (`awaited`) and the key
that a confirmation has inspected (`seen`).

`SignIn` keeps a callback between its reads and its write (`stage`): the code runs at
READ COMMITTED, and only the unique indexes and the `WHERE` of one `UPDATE` decide. `known`
is history: the accounts that were in use when a callback's attempts began.

Abstractions, each with its reason:

* An Assessment's Answers are one fact, whether the exact verified set is there
  (`answers`). Completion asks nothing else of them.
* The Scores of one Examiner for one Submission are one mark. Completion asks whether
  they are complete, and the frozen Score is the same question for one mark as for six.
* In the lifecycle modules all Submissions are RETAINED. The guards against quarantined
  and purged ones, which every handler has, are in `SubmissionPurge`.
* `PromptMedia`: Answers refer to a key through their manifest entry, so that one
  reference per Submission stands for both. A confirmation whose HEAD finds nothing changes
  nothing. The audit rows, and the counters and reasons of the ledger, are left out.
* `AssessmentStart`: a Question stays in its Delivery slot. What a Question delivers is
  one `version`, which each edit of it or its Tasks renews. The five reads of
  the comparison with the bank (`activeManifestMatchesCurrentBank`) are one step; the
  reads of a new manifest, and their checks in the transaction, are one step per slot.
  The code repeats a start at most twice after a change of the bank; here it may do so
  any number of times. The random choice of a Test Set is left open.
* `AnswerSession`: a take is one of four kinds (`Kinds`), which is all that page and
  server distinguish. The first read of a confirmation and its HEAD are one step; the row
  is locked in another. The page's retries are not counted, and a retry by hand, by timer
  or by the `online` event is the same. A quarantine refuses the requests of an open
  Submission; that is `GiveUp`. Being told that the Submission ended is `ClosePage`.
  Practice runs, countdowns and prompt playback are left out. Several pages can be open:
  the leave beacon may be lost, and a fresh tab resumes the active attempt
  (`frontend/lib/test-api.ts:80-84`).
* `SignIn`: usernames are numbers, of which a sign-up takes the least it reads as free.
  Checking that name and inserting it stay two steps; reading the address and choosing
  the name are one.
* A storage key names the Submission whose id it contains (`KeyOf`), and a take gets a
  key of its own. Rows from before that may share keys: `LegacyMedia`, with the bucket
  recorded on the Answer left out, as it tells no two of them apart.
* DELETED and MISSING objects are both ABSENT: no code distinguishes them afterwards.
  The order in which a finalization takes the objects is left open. A statement that
  waits for a lock may time out instead of getting it. Audit rows are left out.
* Student requests carry the role the middleware read in the same step as their
  transaction; the Admin's second check, which the service makes itself, is a step of
  its own because it precedes a lock that may be waited for.
* Which unredeemed credit a routing takes is left open (the code takes the oldest it
  can lock). `FOR UPDATE SKIP LOCKED` is modelled: a routing may find no credit if as
  many other routings of the same student may be in flight as there are credits
  (`Rivals`).
* In the lifecycle modules the comparison of a running Assessment with the question bank
  may have either outcome; `AssessmentStart` computes it.
* A refusal by the provider means no session exists: a refused attempt can never be
  paid. This is an assumption about iPaymu. So is that only a collected transaction is
  reported as paid by the provider's own record, which the code asks for
  (`verifyIpaymuTransaction`) before it believes a notification.
* Retries that change nothing (replaying an applied account transition, completing
  twice, reading an existing assignment set back) are steps without effect and are
  left out.

## 3. Runs

Bounds are pools of ids in the `.cfg` files. Four counters are bounded by a guard besides:
`MaxChanges` (changes of the bank, `AssessmentStart`), `MaxKeys` (upload keys handed out)
and `Together` (the entries that several open pages record, `AnswerSession`), and
`MaxAttempts`, which the code has too (`googleAuth.service.ts:27`).

| Run | Instance | Shows |
|---|---|---|
| `retakes` | 1 student, 3 Submissions, 3 flags, 2 requests | `OpenFlagStopsTheFlow`, `VoidGrantsOneCredit`, `RedemptionPaysForOne`, `CreditIsSpentOnce` |
| `payments` | 2 Submissions, 2 attempts, 1 flag, 2 requests, setting changes | `ServedIsSettled`, `DeviceVoidIsNeverCharged`, `SettledStays` |
| `accounts` | 1 Submission, 3 Examiners, 2 Admins and a student who move, 1 flag | `ExaminersAreIndependent`, `OpenWorkHasCapableExaminer`, `BegunWorkStays` |
| `scoring` | 1 Submission, 3 Examiners, 3 flags, 2 requests, 1 attempt, 2 marks | `ScoredByBoth`, `KeepsThePromise` (refinement), `CompletedIsFrozen`, `FlagPausesScoring` |
| `liveness` | 2 Submissions, 1 flag, 1 attempt, fair | `LeftAssessmentEnds`, `CollectedIsRecorded` |
| `purge` | 1 Submission, 2 takes, 1 request, 2 finalizations, 1 hold | `RetainedIsIntact`, `ErasureIsAuthorised`, `NothingCapturedIsLeft`, `PurgeSparesPayment`, `HoldStopsDeletion`, `EndedStays` |
| `purge_ends` | 1 Submission, 1 object, 2 finalizations, fair | `PurgeEnds` |
| `prompt_media` | 1 Question, 2 Submissions, 3 cleanup runs, 2 confirmations | `KeptWhileProtected`, `DeletedIsUnused`, `FinalStays` |
| `starts` | 1 student, 2 requests, 2 keys, 2 Submissions, 2 slots, 2 Test Sets, 2 changes of the bank | `ManifestWasTheBank`, `ReplacedWasStale`, `OneAttemptAtATime`, `KeyKeepsItsAttempt` |
| `session` | 2 entries, 2 pages, 2 requests, 2 upload keys | `VerifiedIsStored`, `OneFlagPerFailure`, `TakeIsOfItsEntry`, `TakeIsNeverLost`, `FailureIsReported`, `EvidenceIsFinal` |
| `signin` | 2 callbacks, 4 accounts (1 from before), 2 identities, 3 addresses, 3 names, 2 attempts | `OneAccountPerIdentity`, `StateSignsInOnce`, `ConflictIsReal` |
| `failed_take` | 1 entry, 2 pages, 2 requests, 2 upload keys | violated: `FailedTakeIsFlagged` |

Why the bounds are enough to meet the interesting cases. Two requests are the least
that cross between a read and a lock; three Submissions let a voided attempt's credit be
wanted by two later ones at once; two flags let one be confirmed or dismissed while the
other is open; two attempts let one settle while another fails late; three Examiners
leave a replacement for one of a pair, and a student who becomes an Examiner is the
case independence is about; two Admins can demote each other. For the purge, two
objects let one be erased before the other fails, two finalizations cross between
reservation and deletion, and two Admins are what an approval needs; keys that
several Submissions share, and crossing requests for one purge, are left to the theorems,
which cover them for every `LegacyMedia`. For prompt media one
Question is taken, as no two share a key, and the theorems cover those that take its
position in a Test Set; three runs let one be late with its DELETE while two others cross.
Two
changes of the bank are the least with which the two entries of a manifest could come
from different banks. In a session two entries have a late stop event meet a new
recorder, and two keys have an upload supersede another; two pages share only the first
entry (`Together`), as each entry's upload is independent of the others. In `starts` a
third change would let a Question be moved away and back while another is edited; the
theorem covers it. In `signin` two callbacks contend for an address or a name, and
registrations win against both; with a third address one callback of an identity can link
the account from before while the other one is about to create an account; two attempts
(the code has four) let a retry fail too. Passwordless accounts without an identity, which
no code creates any more but the schema and its tests know, are there from the start.
Each passing property
has a mutant in `PROJECT.json`, a plausible bug in one definition (a dropped guard, a
lookup without its filter), which the run finds.

Reductions. `RowSymmetry` and `ExaminerSymmetry` permute ids the specification never
names; accounts are permuted only when they begin in the same role and can move alike.
`View` drops the page and Answer set of a Submission that has stopped recording: no
action reads or writes them afterwards and no property of those runs mentions them. The
`View` of `signin` drops what a callback knew once it has been answered.
`PurgeSymmetry` permutes Admins, workers, requests, holds and unshared keys. The others
permute ids that the specification never names; in `signin` only accounts that start
unused. None is used for liveness. Deadlock is checked in the lifecycle runs; it is not in
the others, where a purged Submission, a completed session, an answered set of
callbacks or a used-up pool of ids leaves nothing to do.

Fairness. `FairSpec` is used by `liveness` only: `server.ts` runs the sweeper at an
interval on every instance, and time passes, so a Heartbeat nobody renews grows stale.
iPaymu repeats a notification until it is accepted; this is an assumption about the
provider, and without it the property is false, since the code never asks by itself.
Students, Examiners and Admins get no fairness: they may stop at any point.
`OperatedSpec`, used by `purge_ends` only: the runbook tells the operator to repeat a
finalization that failed, a process that runs goes on, and the bucket executes what it
was sent. `PurgeEnds` itself supposes that faults (`Fault`: a storage error, an expired
transaction, a crash before the last object) stop some day; no purge could end
otherwise. It speaks of Submissions without flags, for a reason given below.

### What the code does otherwise than its documents say

`failed_take` ends in a counterexample, on purpose. A confirmation names an entry, not an
upload. With two pages open, a good page's confirmation verifies the failed take the other
has just stored under the Answer's key, with its own report; the other's report then meets
a verified Answer and is dropped (`upload.service.ts:549`). The comment above the function
and the PRD (FR-3.7) say that a failed take is flagged. With one page per entry the report
is never lost: that is `FailureIsReported`.

More differences are in the models, without a run of their own:

* `CONTEXT.md` and the PRD say an open flag holds its Submission in FLAG_REVIEW. The
  three ways to abandon do not look at flags, so one raised during a test that is then
  left stays open for good on an ABANDONED Submission, and nobody can resolve it.
  `OpenFlagStopsTheFlow` says what does hold.
* Eligibility for a purge does not ask for flags, whose foreign key forbids the removal of
  the Submission. The purge of a flagged one erases its media and then fails for good,
  though the runbook says that it never ends half done.
* A deleting transaction times out after 60 seconds, the S3 client does not. A hold
  created in between is accepted, and the DELETE erases what it protects.
  `HoldStopsDeletion` says what does hold.
* An upload that replaces a take leaves the earlier object in the bucket. The purge
  captures only the keys the Answers refer to at approval.
* "Only an active administrator can resolve flags" is checked before the row lock is
  waited for and not afterwards, so an Admin demoted meanwhile still decides.
* A purge can be cancelled after its thirty days, which ADR 0015 (auditable retention and purge) denies.
* A FAILED attempt does not block a purge, although the provider may still report it as
  paid; that money is then never booked.
* An Assessment quarantined while IN_PROGRESS still occupies the index on active
  attempts, although a start no longer sees it: the student cannot start again until it is
  recovered or purged.
* A cleanup object that a DELETE was attempted on may be quarantined anew, and is promised
  thirty more days (`CONTEXT.md:140`), with that DELETE still on its way
  (`promptMediaCleanup.service.ts:467`). `KeptWhileProtected` leaves such audio out
  (`recalled`).
* A recorder that reports an error is stopped after its take was handed over; its last data
  may come when the next entry is being recorded, and nothing keeps them out of that take
  (`useRecording.ts:144`), although the PRD (FR-3.5) wants one video per slot.
  `TakeIsOfItsEntry` says that there is no other way: a recorder that ran to its end, or
  was stopped for a lost device, delivers its data before the page goes on, so that only
  an entry whose own take is reported as failed can run over into a later one.
* A restored Question keeps the row and the deadline of the quarantine it was in. Retired
  again after that deadline, its audio may be deleted at once, without thirty new days.
* Audio recorded as DELETED may come back: a Question restored during its quarantine is
  presigned again under its one key (`upload.service.ts:121`), and the new URL may be used
  after the Question was retired once more and its audio deleted. No run looks at the
  object then, as its row is final. `DeletedIsUnused` says what does hold: nobody counts
  on it, and no URL from before the quarantine can bring it back.
* ADR 0005 says that a key whose attempt was closed is refused. A start that looked up its
  key before the attempt closed goes on, and gives the key a new attempt:
  `KeyKeepsItsAttempt` allows this and nothing else.

## 4. Proofs

The theorems are about every set of accounts, Submissions, flags, attempts and requests,
finite or not, under the assumptions of `AssessmentTables` (`NoneAssumption`: NULL is no
id; `RoleAssumption`: somebody starts as an Admin; `MovableAssumption`,
`SettingAssumption`: the instance parameters are well typed); those about the purge under
the assumptions of `SubmissionPurge` (NULL is no id, `KeyOf` and `LegacyMedia` are well
typed), so also for keys that any number of old rows share. The other modules assume the
like: NULL is no id, and the parameters are well typed. The bounds named in section 3 are
parameters of the theorems too, so that they hold for all values of them.

* `AssessmentProofs!TypeSafety`: `Spec => []TypeOK`. `TypeOK` alone is not inductive: a
  dismissal writes `submission[flag[f].submission]`, which is a row only if the flag's
  foreign key is set. `TypeInv` adds `Linked`, the foreign keys of rows in use.
* `FlagProofs`: `FlagsStopTheFlow`, for any number of flags and concurrent decisions; it
  is inductive together with `TypeInv`, because FLAG_REVIEW is left only by a void, which
  closes all flags, or by a dismissal that finds no other one open behind the lock. On top
  of it `VoidsGrantOnce`, `RedemptionsPayOnce` and `CreditsAreSpentOnce`, from
  `CreditInv`. A second confirmation of one Submission is
  impossible, since it asks for FLAG_REVIEW and an open flag, and a void has ended both; a
  credit is redeemed only by the routing of a Submission that was not routed before, so
  that it can pay for one only.
* `LifecycleProofs`, payments: `PaidIsCollected` and `SettledIsFinal`. The branch of the
  checkout that handles a refusal writes FAILED without asking for the status. That this
  never undoes a settled attempt is the invariant that a refused attempt was never
  collected, which ties the code's row to what the provider knows. `ServedWasSettled` is
  inductive with that invariant, since a settled attempt stays settled.
  `DeviceVoidsAreFree` needs `ChargeInv`: a Submission before its routing has no attempt,
  waiver or credit, and a device flag that is open was raised before the routing.
* `LifecycleProofs`, Examiners: `IndependentExaminers`, `WorkIsNeverStranded`,
  `BothHaveScored`, `CompletedWorkIsFrozen`, `BegunWorkIsNotMoved` and
  `OpenFlagsPauseScoring`, all from `WorkInv`: both assignments of a Submission have
  distinct Examiners other than the student (`IsIndependent`), open work belongs to an
  active account that may do it (`IsCapable`), completion and SCORED agree (`IsCounted`),
  and an assignment not yet made has no Score (`IsBlank`, without which a claim could give
  a scored one to another). Whoever moves an assignment has locked the accounts it goes to, so that
  one lemma about a moved row serves the reassignment and the account transition alike.
* `LifecycleProofs!LifecycleKeepsPromise`: the composition implements `SubmissionPromise`.
  Each action of each component is, under `TypeInv` and the credit invariant, one step of
  the promise or leaves the phase, the concern and the credits of every Submission as they
  were.
* `AssessmentProofs!AdminRemains`: an active Admin remains, whoever demotes whom. No run
  states it.
* `PurgeProofs`: `RetainedKeepsMedia`, `ErasureNeedsApproval`, `PurgesAreOrdered` and
  `PurgeTypeSafety`, all from `PurgeInv`. `RetainedIsIntact` is not inductive: it says
  nothing of the finalization that reserved an object and has not yet locked again. The
  argument is that an attempt is for ever. Once an object is DELETE_PENDING its request
  can only go on to COMPLETED (`AttemptsInv`; a recovery finds the attempt and refuses),
  nobody else refers to the object or can come to (`AttemptsInv`, `KeysInv`: a take has a
  key nobody used), whatever a finalization holds or the bucket was asked to delete has
  been attempted (`WorkerInv`, `ErasureInv`), and requests and retention status agree. No
  part of it speaks of locks except that an open deleting transaction keeps its request
  from ending. `NothingIsLeft` adds `AbsencesInv`: a captured key was
  presigned before the approval, and by the end of the quarantine the hour in which
  a presigned upload is good is over, so that an absence is final. `PurgesSparePayments`
  is inductive with `PurgeInv`, `EndedPurgesStay` follows from it, and
  `HoldsStopDeletions` adds `HeldIsFree`: under the locks of an open deleting transaction
  no hold arrives.
* `PromptProofs`: `ProtectedIsKept`, `DeletedStaysUnused`, `FinalIsFinal` and
  `PromptTypeSafety`. A lock is no argument here, since it may be lost while the DELETE
  goes on. The invariant speaks of doomed keys instead: those with a DELETE on its way,
  those whose object has gone, and those a run is about to delete. A doomed key is unused,
  and its ledger entry says so (DELETE_PENDING, FAILED, DELETED or MISSING), so that its
  Question can no longer be restored, and therefore neither presigned nor delivered; an
  upload to a URL it still has puts the object back, which dooms nothing. For the rest of
  `DeletedIsUnused` the age of the URL is followed through the quarantine.
* `StartProofs`: `OneAttempt`, `ReplacementWasStale`, `KeyKeeps` and `StartTypeSafety`. An
  open transaction is the only one of its student; the attempt it supersedes is its
  student's only active one and has been stale; and `stale` contains every active attempt
  that does not match the bank, since every change adds to it. `ManifestsWereTheBank`
  takes for the moment at which the manifest was the bank the opening of the transaction
  (`OpenedAt`): from then on the audio locks keep its Questions as active as they were,
  and since versions only go up, one that was read before the opening and is found again
  after it was there at the opening.
* `SessionProofs`: `VerifiedNamesAnObject`, `FailureHasOneFlag`, `TakesKeepTheirEntry`,
  `TakesAreKept`, `EvidenceStays` and `SessionTypeSafety`. What a confirmation inspected
  is stored for good under a key that is never issued twice, and a page's upload is
  `uploaded` only once the server has said that the Answer is verified. For the takes
  `MixInv` adds what the late data of a recorder can still do: a recorder whose events are
  outstanding is the current one, or its take has been reported as failed, and stays the
  page's failed take of an earlier entry until its Answer is verified. `ReportsAreKept` adds `ReportInv`:
  a page has one take per entry, whatever it PUTs under whatever key is that take, and
  what a confirmation reports is what the page knew of it or the inspection found.
* `SignInProofs`: `IdentityIsOneAccount`, `StateIsSpentOnce` and `SignInTypeSafety`. The
  account a callback has resolved is linked to its subject from then on, since nothing
  unlinks or sets a password; the unique index makes it the only one. `ConflictsAreReal`
  adds `RaceInv`: each lost race brought another account into use, so that a callback's
  attempts are never ahead by more than one of the accounts that came into use since they
  began.

Two properties were too strong, and only their proofs showed it; TLC then found both
counterexamples on a larger instance. `ConflictIsReal` once counted the accounts others
had made. A callback can also lose to one that links an account from before, which makes
none; it now counts the accounts that came into use. `ManifestWasTheBank` once said that
the whole manifest was in its Test Set at one moment. A Question moved away and, after its
neighbour was edited, back again passes every comparison of the code; the property now
allows a Question to be in the Test Set at that moment or again afterwards.

A third one, about retake credits, only repeated the guard of a routing and is gone.

Only model-checked: the liveness properties `LeftAssessmentEnds`, `CollectedIsRecorded`
and `PurgeEnds`, since fairness and ENABLED are out of the prover's reach. Every other
property of a passing run is a theorem. `FailedTakeIsFlagged` is false, as said
above.

## 5. Plan

1. Done: the lifecycle, its promise and theorems; `SubmissionPurge`; `PromptMedia`;
   `AssessmentStart`; `AnswerSession`; `SignIn`, each with its proofs.
2. Done: theorems for every safety property the runs check and for the refinement. Next,
   the hazards without a property, as far as the code promises anything about them.
3. `RateLimitStore`: the replies of one Redis connection are matched to commands by their
   order, a timeout replaces the socket, and the handlers of the old one stay registered.

## 6. Not modelled

Rate limits: the counting is one atomic script; the socket client around it is the next
part of the plan. Scores: means and rounding of floating-point numbers, which TLA+ does
not have. Manifest delivery, the preflight commands, Admin lists, the reconciliation of
prompt media and observability only read. Option icons, the names of Test Sets, profile
updates, password checks and logout touch one row at a time. Wire formats, signatures,
cookies, JWT, the object store's client, device checks, page layout and wording are library
code or carry no state of their own. `backend/dist` and `backend/src/generated` are build
outputs: the generated database client alone is more than half of the repository's lines.
