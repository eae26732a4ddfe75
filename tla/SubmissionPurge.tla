--------------------------- MODULE SubmissionPurge ---------------------------
(***************************************************************************)
(* The explicit purge of a Submission and of its Answer media              *)
(* (service/submissionRetention.service.ts with retentionStorage.service.ts *)
(* and the triggers of the retention migrations): request, approval by a   *)
(* second Admin, thirty days of quarantine, and a finalization that deletes *)
(* one storage object after the other before it removes the row.           *)
(*                                                                         *)
(* A finalization crosses several transactions and storage calls.  The     *)
(* transaction around a storage call locks the request and the Submission  *)
(* row; the database rolls it back after 60 seconds while the calls it     *)
(* surrounds go on.  Every other transaction is one action, taken only     *)
(* while no such transaction holds the Submission row.                     *)
(*                                                                         *)
(* Of the lifecycle (AssessmentLifecycle) this module keeps what a purge   *)
(* reads: the status up to AWAITING_PAYMENT (LATER stands for the rest),   *)
(* whether flags exist, and one Payment attempt per Submission.  A         *)
(* Submission gets assignments and a certificate only in a LATER status.   *)
(***************************************************************************)

CONSTANTS
  Admins,       \* active Admin accounts
  Submissions,  \* Submission ids
  Objects,      \* storage keys of Answer media
  Purges,       \* pool of SubmissionPurgeRequest ids
  Workers,      \* slots for finalizations under way
  Holds,        \* pool of SubmissionRetentionHold ids
  None,         \* SQL NULL
  KeyOf,        \* the Submission whose id a storage key holds
  LegacyMedia   \* the Answer media the rows refer to from the start

ASSUME PurgeNoneAssumption == None \notin Admins \cup Submissions \cup Objects \cup Purges
ASSUME KeyOfAssumption == KeyOf \in [Objects -> Submissions]
ASSUME LegacyAssumption == LegacyMedia \in [Submissions -> SUBSET Objects]

VARIABLES
  status, retention,   \* Submission.status, Submission.retentionStatus
  media,               \* the storage keys the Answers of a Submission refer to
  flagged,             \* the Submissions with a SubmissionFlag row, in any resolution
  attempt, collected,  \* the Payment row of a Submission; the provider has the money
  storage, deleting,   \* the bucket; the keys with a DELETE on its way to it
  hold,                \* the Submission a hold protects, None once released
  purge, object,       \* SubmissionPurgeRequest and SubmissionPurgeObject rows
  worker               \* finalizations under way

lifeVars   == <<status, media, flagged, attempt, collected>>
bucketVars == <<storage, deleting>>
rowVars    == <<retention, purge, object>>
vars == <<status, retention, media, flagged, attempt, collected, storage, deleting,
          hold, purge, object, worker>>

-----------------------------------------------------------------------------
PurgeableStatus == {"IN_PROGRESS", "ABANDONED", "AWAITING_PAYMENT"}

\* REFUNDED exists in the enum, but no code path sets it.
AttemptStatus == {"NONE", "PENDING", "FAILED", "PAID"}

\* "presigned": a PUT URL exists for the key.  A take has a key of its own.
StorageState == {"unused", "presigned", "stored", "erased"}

PurgeRow ==
  [target : Submissions \cup {None}, by : Admins \cup {None}, approver : Admins \cup {None},
   status : {"NONE", "REQUESTED", "QUARANTINED", "FAILED", "CANCELLED", "COMPLETED"},
   elapsed : BOOLEAN]

\* ABSENT is DELETED or MISSING: either way storage confirmed the absence.
ObjectStatus ==
  {"NONE", "QUARANTINED", "DELETE_PENDING", "FAILED", "ABSENT", "CANCELLED"}

\* working: between two objects.  reserved: DELETE_PENDING committed.  looking:
\* the locking transaction is open, the HEAD before the DELETE is out.
\* erasing: the DELETE and the HEAD after it are out.  noting: an error is to be
\* recorded in a transaction of its own.
WorkerRow ==
  [stage : {"idle", "working", "reserved", "looking", "erasing", "noting"},
   purge : Purges \cup {None}, todo : SUBSET Objects, object : Objects \cup {None},
   held : BOOLEAN, failed : BOOLEAN]

IdleWorker == [stage |-> "idle", purge |-> None, todo |-> {}, object |-> None,
               held |-> FALSE, failed |-> FALSE]

TypeOK ==
  /\ status \in [Submissions -> PurgeableStatus \cup {"LATER"}]
  /\ retention \in [Submissions -> {"RETAINED", "QUARANTINED", "PURGED"}]
  /\ media \in [Submissions -> SUBSET Objects]
  /\ flagged \subseteq Submissions
  /\ attempt \in [Submissions -> AttemptStatus]
  /\ collected \subseteq Submissions
  /\ storage \in [Objects -> StorageState]
  /\ deleting \subseteq Objects
  /\ hold \in [Holds -> Submissions \cup {None}]
  /\ purge \in [Purges -> PurgeRow]
  /\ object \in [Purges -> [Objects -> ObjectStatus]]
  /\ worker \in [Workers -> WorkerRow]

Init ==
  /\ status = [s \in Submissions |-> "IN_PROGRESS"]
  /\ retention = [s \in Submissions |-> "RETAINED"]
  /\ media = LegacyMedia
  /\ flagged = {}
  /\ attempt = [s \in Submissions |-> "NONE"]
  /\ collected = {}
  /\ storage = [o \in Objects |->
       IF \E s \in Submissions : o \in LegacyMedia[s] THEN "stored" ELSE "unused"]
  /\ deleting = {}
  /\ hold = [h \in Holds |-> None]
  /\ purge = [p \in Purges |-> [target |-> None, by |-> None, approver |-> None,
                                status |-> "NONE", elapsed |-> FALSE]]
  /\ object = [p \in Purges |-> [o \in Objects |-> "NONE"]]
  /\ worker = [w \in Workers |-> IdleWorker]

-----------------------------------------------------------------------------
(* Queries. *)

HasHold(s)    == \E h \in Holds : hold[h] = s
HasPayment(s) == attempt[s] \in {"PENDING", "PAID"}

\* findSharedAnswerMedia: another Submission that is not purged refers to o.
IsShared(s, o) ==
  \E t \in Submissions \ {s} : o \in media[t] /\ retention[t] # "PURGED"

\* The open purges of a Submission: request returns one instead of a second.
OpenPurges(s) ==
  {p \in Purges : /\ purge[p].target = s
                  /\ purge[p].status \in {"REQUESTED", "QUARANTINED", "FAILED"}}

\* purgeBlockers finds nothing.
IsPurgeable(s) ==
  /\ retention[s] = "RETAINED"
  /\ status[s] \in PurgeableStatus
  /\ ~HasPayment(s)
  /\ ~HasHold(s)

\* A deleting transaction holds the row locks of s and of its purge.
IsLocked(s) ==
  \E w \in Workers : worker[w].held /\ purge[worker[w].purge].target = s

Target(w) == purge[worker[w].purge].target

-----------------------------------------------------------------------------
(* The rest of the backend, as far as a purge meets it.  Every transaction  *)
(* of it takes the Submission row lock and requires RETAINED.               *)

\* A new take: its key replaces `old' in the Answer of its slot (None: the slot
\* had no Answer).  The replaced object stays in the bucket.  The trigger
\* Answer_retention_guard refuses a key that a purge has reserved.
CreatePresignedUpload(s, o, old) ==
  /\ status[s] = "IN_PROGRESS"
  /\ retention[s] = "RETAINED"
  /\ KeyOf[o] = s /\ storage[o] = "unused"
  /\ old \in media[s] \cup {None}
  /\ media' = [media EXCEPT ![s] = (@ \ {old}) \cup {o}]
  /\ storage' = [storage EXCEPT ![o] = "presigned"]
  /\ UNCHANGED <<rowVars, status, flagged, attempt, collected, deleting, hold, worker>>

\* The page uploads.  The URL lives for one hour, a quarantine for thirty days: a
\* key is issued once, so a purge that captured it began after the URL was issued,
\* and outlives the URL, whether or not it was cancelled.
UploadTake(o) ==
  /\ storage[o] = "presigned"
  /\ ~ \E p \in Purges : object[p][o] # "NONE" /\ purge[p].elapsed
  /\ storage' = [storage EXCEPT ![o] = "stored"]
  /\ UNCHANGED <<rowVars, lifeVars, deleting, hold, worker>>

RaiseFlag(s) ==
  /\ status[s] = "IN_PROGRESS"
  /\ retention[s] = "RETAINED"
  /\ flagged' = flagged \cup {s}
  /\ UNCHANGED <<rowVars, status, media, attempt, collected, bucketVars, hold, worker>>

\* Completion, abandonment, routing after a dismissed flag, waiver.
StatusMoves(s, to) ==
  /\ retention[s] = "RETAINED"
  /\ \/ status[s] = "IN_PROGRESS" /\ to \in {"ABANDONED", "AWAITING_PAYMENT", "LATER"}
     \/ status[s] = "AWAITING_PAYMENT" /\ to = "LATER"
  /\ status' = [status EXCEPT ![s] = to]
  /\ UNCHANGED <<rowVars, media, flagged, attempt, collected, bucketVars, hold, worker>>

CreateIpaymuCheckout(s) ==
  /\ attempt[s] = "NONE"
  /\ status[s] = "AWAITING_PAYMENT"
  /\ retention[s] = "RETAINED"
  /\ attempt' = [attempt EXCEPT ![s] = "PENDING"]
  /\ UNCHANGED <<rowVars, status, media, flagged, collected, bucketVars, hold, worker>>

\* A rejected checkout or a notified failure.
AttemptFails(s) ==
  /\ attempt[s] = "PENDING"
  /\ retention[s] = "RETAINED"
  /\ attempt' = [attempt EXCEPT ![s] = "FAILED"]
  /\ UNCHANGED <<rowVars, status, media, flagged, collected, bucketVars, hold, worker>>

\* The provider takes the student's money.  It knows nothing of retention, and a
\* success may follow a failure of the same attempt.
ProviderCollects(s) ==
  /\ attempt[s] \in {"PENDING", "FAILED"}
  /\ collected' = collected \cup {s}
  /\ UNCHANGED <<rowVars, status, media, flagged, attempt, bucketVars, hold, worker>>

\* Mutant: the retention status is not checked.
SettleAlways(s) ==
  /\ s \in collected
  /\ attempt[s] \in {"PENDING", "FAILED"}
  /\ attempt' = [attempt EXCEPT ![s] = "PAID"]
  /\ status' = IF status[s] = "AWAITING_PAYMENT"
                 THEN [status EXCEPT ![s] = "LATER"] ELSE status
  /\ UNCHANGED <<rowVars, media, flagged, collected, bucketVars, hold, worker>>

\* A verified success is refused for a Submission that is not retained.
NotifySuccess(s) ==
  /\ s \in collected
  /\ attempt[s] \in {"PENDING", "FAILED"}
  /\ retention[s] = "RETAINED"
  /\ attempt' = [attempt EXCEPT ![s] = "PAID"]
  /\ status' = IF status[s] = "AWAITING_PAYMENT"
                 THEN [status EXCEPT ![s] = "LATER"] ELSE status
  /\ UNCHANGED <<rowVars, media, flagged, collected, bucketVars, hold, worker>>

\* Mutant: a hold is written without the Submission row lock.
HoldWithoutLock(h, s) ==
  /\ hold[h] = None
  /\ retention[s] # "PURGED"
  /\ hold' = [hold EXCEPT ![h] = s]
  /\ UNCHANGED <<rowVars, lifeVars, bucketVars, worker>>

CreateRetentionHold(h, s) ==
  /\ hold[h] = None
  /\ retention[s] # "PURGED"
  /\ ~IsLocked(s)
  /\ hold' = [hold EXCEPT ![h] = s]
  /\ UNCHANGED <<rowVars, lifeVars, bucketVars, worker>>

\* Locks the hold alone.
ReleaseRetentionHold(h) ==
  /\ hold[h] # None
  /\ hold' = [hold EXCEPT ![h] = None]
  /\ UNCHANGED <<rowVars, lifeVars, bucketVars, worker>>

-----------------------------------------------------------------------------
(* Request, approval, quarantine, recovery. *)

RequestSubmissionPurge(p, s, u) ==
  /\ purge[p].status = "NONE"
  /\ OpenPurges(s) = {}
  /\ IsPurgeable(s)
  /\ purge' = [purge EXCEPT ![p].target = s, ![p].by = u, ![p].status = "REQUESTED"]
  /\ UNCHANGED <<lifeVars, bucketVars, retention, object, hold, worker>>

\* Mutant: the requester may approve.
ApproveAlone(p, u) ==
  LET s == purge[p].target IN
  /\ purge[p].status = "REQUESTED"
  /\ IsPurgeable(s)
  /\ \A o \in media[s] : ~IsShared(s, o)
  /\ retention' = [retention EXCEPT ![s] = "QUARANTINED"]
  /\ purge' = [purge EXCEPT ![p].status = "QUARANTINED", ![p].approver = u]
  /\ object' = [object EXCEPT ![p] =
       [o \in Objects |-> IF o \in media[s] THEN "QUARANTINED" ELSE "NONE"]]
  /\ UNCHANGED <<lifeVars, bucketVars, hold, worker>>

\* Another Admin approves: the media the Answers refer to now is captured.
ApproveSubmissionPurge(p, u) ==
  LET s == purge[p].target IN
  /\ purge[p].status = "REQUESTED"
  /\ u # purge[p].by
  /\ IsPurgeable(s)
  /\ \A o \in media[s] : ~IsShared(s, o)
  /\ retention' = [retention EXCEPT ![s] = "QUARANTINED"]
  /\ purge' = [purge EXCEPT ![p].status = "QUARANTINED", ![p].approver = u]
  /\ object' = [object EXCEPT ![p] =
       [o \in Objects |-> IF o \in media[s] THEN "QUARANTINED" ELSE "NONE"]]
  /\ UNCHANGED <<lifeVars, bucketVars, hold, worker>>

\* Time passes quarantineUntil.
QuarantineElapses(p) ==
  /\ purge[p].approver # None
  /\ ~purge[p].elapsed
  /\ purge' = [purge EXCEPT ![p].elapsed = TRUE]
  /\ UNCHANGED <<lifeVars, bucketVars, retention, object, hold, worker>>

\* Mutant: an attempted deletion does not stop the recovery.
CancelDespiteAttempts(p) ==
  LET s == purge[p].target IN
  /\ purge[p].status = "QUARANTINED"
  /\ ~IsLocked(s)
  /\ retention' = [retention EXCEPT ![s] = "RETAINED"]
  /\ object' = [object EXCEPT ![p] =
       [o \in Objects |-> IF @[o] = "QUARANTINED" THEN "CANCELLED" ELSE @[o]]]
  /\ purge' = [purge EXCEPT ![p].status = "CANCELLED"]
  /\ UNCHANGED <<lifeVars, bucketVars, hold, worker>>

\* Recovery: only while no deletion was attempted.  quarantineUntil is not read.
CancelSubmissionPurge(p) ==
  LET s == purge[p].target IN
  /\ purge[p].status = "QUARANTINED"
  /\ \A o \in Objects : object[p][o] \in {"NONE", "QUARANTINED"}
  /\ ~IsLocked(s)
  /\ retention' = [retention EXCEPT ![s] = "RETAINED"]
  /\ object' = [object EXCEPT ![p] =
       [o \in Objects |-> IF @[o] = "QUARANTINED" THEN "CANCELLED" ELSE @[o]]]
  /\ purge' = [purge EXCEPT ![p].status = "CANCELLED"]
  /\ UNCHANGED <<lifeVars, bucketVars, hold, worker>>

-----------------------------------------------------------------------------
(* Finalization. *)

IsFinalizable(p) ==
  /\ purge[p].status \in {"QUARANTINED", "FAILED"}
  /\ retention[purge[p].target] = "QUARANTINED"

\* Mutant: an interrupted deletion is not taken up again.
NeverInterrupted == {"QUARANTINED", "FAILED"}

\* DELETE_PENDING is left by a finalization that was interrupted.
AttemptableStatus == {"QUARANTINED", "DELETE_PENDING", "FAILED"}

\* The request is checked, then read with its objects: the loop works on this
\* reading.
BeginFinalize(w, p) ==
  /\ worker[w].stage = "idle"
  /\ purge[p].status \in {"QUARANTINED", "FAILED"}
  /\ purge[p].elapsed
  /\ worker' = [worker EXCEPT ![w] =
       [stage |-> "working", purge |-> p, object |-> None, held |-> FALSE, failed |-> FALSE,
        todo |-> {o \in Objects : object[p][o] \in AttemptableStatus}]]
  /\ UNCHANGED <<rowVars, lifeVars, bucketVars, hold>>

\* preparePurgeObjectAttempt may reserve o.
CanReserve(p, o) ==
  /\ IsFinalizable(p)
  /\ object[p][o] \in AttemptableStatus
  /\ ~HasHold(purge[p].target)
  /\ ~IsShared(purge[p].target, o)

\* Commits DELETE_PENDING before the storage is asked for anything.
PreparePurgeObject(w, o) ==
  LET p == worker[w].purge IN
  /\ worker[w].stage = "working"
  /\ o \in worker[w].todo
  /\ ~IsLocked(Target(w))
  /\ CanReserve(p, o)
  /\ object' = [object EXCEPT ![p][o] = "DELETE_PENDING"]
  /\ worker' = [worker EXCEPT ![w].stage = "reserved", ![w].object = o,
                              ![w].todo = @ \ {o}]
  /\ UNCHANGED <<lifeVars, bucketVars, retention, purge, hold>>

\* A lock that takes ten seconds, a hold or a shared key is an error, which
\* leaves no trace on the request; anything else skips the object.
SkipPurgeObject(w, o) ==
  LET p == worker[w].purge IN
  /\ worker[w].stage = "working"
  /\ o \in worker[w].todo
  /\ IsLocked(Target(w)) \/ ~CanReserve(p, o)
  /\ worker' = [worker EXCEPT ![w].todo = @ \ {o},
       ![w].failed = \/ @
                     \/ IsLocked(Target(w))
                     \/ /\ IsFinalizable(p)
                        /\ HasHold(Target(w)) \/ object[p][o] \in AttemptableStatus]
  /\ UNCHANGED <<rowVars, lifeVars, bucketVars, hold>>

\* The deleting transaction: takes the locks, checks again, stays open.
LockForDelete(w) ==
  LET p == worker[w].purge  o == worker[w].object IN
  /\ worker[w].stage = "reserved"
  /\ ~IsLocked(Target(w))
  /\ IsFinalizable(p)
  /\ object[p][o] = "DELETE_PENDING"
  /\ ~HasHold(Target(w)) /\ ~IsShared(Target(w), o)
  /\ worker' = [worker EXCEPT ![w].stage = "looking", ![w].held = TRUE]
  /\ UNCHANGED <<rowVars, lifeVars, bucketVars, hold>>

\* The object and its request are FAILED, in one transaction.
RecordFailure(p, o) ==
  /\ object' = [object EXCEPT ![p][o] = "FAILED"]
  /\ purge' = [purge EXCEPT ![p].status = "FAILED"]

\* The deleting transaction ends before it deletes: with an error when it waits
\* too long for the locks or finds a hold, with a recorded failure on a shared
\* key, otherwise with nothing.
RefuseDelete(w) ==
  LET p == worker[w].purge  o == worker[w].object IN
  /\ worker[w].stage = "reserved"
  /\ IF IsLocked(Target(w)) \/ (IsFinalizable(p) /\ HasHold(Target(w)))
       THEN /\ worker' = [worker EXCEPT ![w].stage = "noting"]
            /\ UNCHANGED rowVars
     ELSE IF IsFinalizable(p) /\ object[p][o] = "DELETE_PENDING"
       THEN /\ IsShared(Target(w), o)
            /\ RecordFailure(p, o)
            /\ worker' = [worker EXCEPT ![w].stage = "working", ![w].failed = TRUE]
            /\ UNCHANGED retention
     ELSE /\ worker' = [worker EXCEPT ![w].stage = "working"]
          /\ UNCHANGED rowVars
  /\ UNCHANGED <<lifeVars, bucketVars, hold>>

\* The HEAD is answered, whatever became of the transaction meanwhile.
SendDelete(w) ==
  /\ worker[w].stage = "looking"
  /\ worker' = [worker EXCEPT ![w].stage = "erasing"]
  /\ deleting' = deleting \cup {worker[w].object}
  /\ UNCHANGED <<rowVars, lifeVars, storage, hold>>

\* The bucket executes a DELETE, also one whose sender is gone.
StorageDeletes(o) ==
  /\ o \in deleting
  /\ deleting' = deleting \ {o}
  /\ storage' = [storage EXCEPT ![o] = IF @ = "stored" THEN "erased" ELSE @]
  /\ UNCHANGED <<rowVars, lifeVars, hold, worker>>

\* The DELETE was answered and the HEAD after it finds nothing.
ConfirmDelete(w) ==
  LET p == worker[w].purge  o == worker[w].object IN
  /\ worker[w].stage = "erasing" /\ worker[w].held
  /\ o \notin deleting /\ storage[o] # "stored"
  /\ object' = [object EXCEPT ![p][o] = "ABSENT"]
  /\ worker' = [worker EXCEPT ![w].stage = "working", ![w].held = FALSE]
  /\ UNCHANGED <<lifeVars, bucketVars, retention, purge, hold>>

\* A storage call fails, or the HEAD after the DELETE still finds the object.
FailDelete(w) ==
  /\ worker[w].stage \in {"looking", "erasing"} /\ worker[w].held
  /\ RecordFailure(worker[w].purge, worker[w].object)
  /\ worker' = [worker EXCEPT ![w].stage = "working", ![w].held = FALSE, ![w].failed = TRUE]
  /\ UNCHANGED <<lifeVars, bucketVars, retention, hold>>

\* Sixty seconds: the transaction is rolled back, the storage call goes on.
TransactionExpires(w) ==
  /\ worker[w].held
  /\ worker' = [worker EXCEPT ![w].held = FALSE]
  /\ UNCHANGED <<rowVars, lifeVars, bucketVars, hold>>

\* The storage call ends, and the next statement finds the transaction closed.
FindExpired(w) ==
  /\ worker[w].stage \in {"looking", "erasing"} /\ ~worker[w].held
  /\ worker' = [worker EXCEPT ![w].stage = "noting"]
  /\ UNCHANGED <<rowVars, lifeVars, bucketVars, hold>>

\* Mutant: the note is written whatever the request has become.
NoteAnyway(w, recorded) ==
  LET p == worker[w].purge IN
  /\ worker[w].stage = "noting"
  /\ recorded => ~IsLocked(Target(w))
  /\ purge' = IF recorded THEN [purge EXCEPT ![p].status = "FAILED"] ELSE purge
  /\ worker' = [worker EXCEPT ![w] =
       IF @.object = None THEN IdleWorker
                          ELSE [@ EXCEPT !.stage = "working", !.failed = TRUE]]
  /\ UNCHANGED <<lifeVars, bucketVars, retention, object, hold>>

\* The error is recorded, or recording it fails too and the object stays
\* DELETE_PENDING.  After an object the loop goes on; after the last step the
\* operation ends.
NoteFailure(w, recorded) ==
  LET p == worker[w].purge IN
  /\ worker[w].stage = "noting"
  /\ recorded => ~IsLocked(Target(w))
  /\ purge' = IF recorded /\ purge[p].status \in {"QUARANTINED", "FAILED"}
                THEN [purge EXCEPT ![p].status = "FAILED"] ELSE purge
  /\ worker' = [worker EXCEPT ![w] =
       IF @.object = None THEN IdleWorker
                          ELSE [@ EXCEPT !.stage = "working", !.failed = TRUE]]
  /\ UNCHANGED <<lifeVars, bucketVars, retention, object, hold>>

\* Every object was processed, some without success: retried by the next call.
EndWithFailures(w) ==
  /\ worker[w].stage = "working"
  /\ worker[w].todo = {} /\ worker[w].failed
  /\ worker' = [worker EXCEPT ![w] = IdleWorker]
  /\ UNCHANGED <<rowVars, lifeVars, bucketVars, hold>>

\* Mutant: a FAILED object does not stop the removal of the rows.
ObjectsAreSettled(p) ==
  \A o \in Objects : object[p][o] \in {"NONE", "ABSENT", "FAILED"}

ObjectsAreAbsent(p) == \A o \in Objects : object[p][o] \in {"NONE", "ABSENT"}

\* The foreign key of SubmissionFlag is ON DELETE RESTRICT: with a flag row the
\* transaction fails at its last statement.
CanComplete(p) ==
  LET s == purge[p].target IN
  /\ ObjectsAreAbsent(p)
  /\ \A o \in Objects : object[p][o] = "ABSENT" => ~IsShared(s, o)
  /\ ~HasHold(s)
  /\ ~HasPayment(s)
  /\ s \notin flagged

HasEnded(p) == purge[p].status \in {"CANCELLED", "COMPLETED"}

\* Answers, manifest, start intent, FAILED payments and the Submission go.
CompletePurge(w) ==
  LET p == worker[w].purge  s == purge[p].target IN
  /\ worker[w].stage = "working" /\ worker[w].todo = {} /\ ~worker[w].failed
  /\ ~IsLocked(s)
  /\ ~HasEnded(p) /\ CanComplete(p)
  /\ purge' = [purge EXCEPT ![p].status = "COMPLETED"]
  /\ retention' = [retention EXCEPT ![s] = "PURGED"]
  /\ media' = [media EXCEPT ![s] = {}]
  /\ attempt' = [attempt EXCEPT ![s] = "NONE"]
  /\ worker' = [worker EXCEPT ![w] = IdleWorker]
  /\ UNCHANGED <<status, flagged, collected, bucketVars, object, hold>>

\* It ended while this finalization was under way, or it cannot be completed, or
\* not now.
CannotComplete(w) ==
  LET p == worker[w].purge IN
  /\ worker[w].stage = "working" /\ worker[w].todo = {} /\ ~worker[w].failed
  /\ IsLocked(Target(w)) \/ HasEnded(p) \/ ~CanComplete(p)
  /\ worker' = [worker EXCEPT ![w] =
       IF HasEnded(p) THEN IdleWorker
                      ELSE [@ EXCEPT !.stage = "noting", !.object = None]]
  /\ UNCHANGED <<rowVars, lifeVars, bucketVars, hold>>

\* The process dies.  An open transaction is rolled back, a DELETE is not.
Crash(w) ==
  /\ worker[w].stage # "idle"
  /\ worker' = [worker EXCEPT ![w] = IdleWorker]
  /\ UNCHANGED <<rowVars, lifeVars, bucketVars, hold>>

-----------------------------------------------------------------------------
LifeNext ==
  \/ \E s \in Submissions, o \in Objects, old \in Objects \cup {None} :
       CreatePresignedUpload(s, o, old)
  \/ \E o \in Objects : UploadTake(o)
  \/ \E s \in Submissions :
       \/ RaiseFlag(s)
       \/ \E to \in {"ABANDONED", "AWAITING_PAYMENT", "LATER"} : StatusMoves(s, to)
       \/ CreateIpaymuCheckout(s)
       \/ AttemptFails(s)
       \/ ProviderCollects(s)
       \/ NotifySuccess(s)

HoldNext ==
  \E h \in Holds : \/ \E s \in Submissions : CreateRetentionHold(h, s)
                   \/ ReleaseRetentionHold(h)

RequestNext ==
  \E p \in Purges :
    \/ \E u \in Admins : \/ \E s \in Submissions : RequestSubmissionPurge(p, s, u)
                         \/ ApproveSubmissionPurge(p, u)
    \/ QuarantineElapses(p)
    \/ CancelSubmissionPurge(p)

\* What a finalization does once an operator has called it.
WorkerStep(w) ==
  \/ \E o \in Objects : PreparePurgeObject(w, o) \/ SkipPurgeObject(w, o)
  \/ LockForDelete(w)
  \/ RefuseDelete(w)
  \/ SendDelete(w)
  \/ ConfirmDelete(w)
  \/ FailDelete(w)
  \/ FindExpired(w)
  \/ \E recorded \in BOOLEAN : NoteFailure(w, recorded)
  \/ EndWithFailures(w)
  \/ CompletePurge(w)
  \/ CannotComplete(w)

FinalizeNext ==
  \/ \E w \in Workers : \/ \E p \in Purges : BeginFinalize(w, p)
                        \/ WorkerStep(w)
                        \/ TransactionExpires(w)
                        \/ Crash(w)
  \/ \E o \in Objects : StorageDeletes(o)

Next == LifeNext \/ HoldNext \/ RequestNext \/ FinalizeNext

Spec == Init /\ [][Next]_vars

\* Storage, the database or the process fails a finalization.  A process that
\* dies when all it still had to do was to end is no fault.
Fault(w) ==
  \/ FailDelete(w)
  \/ TransactionExpires(w)
  \/ /\ Crash(w)
     /\ worker[w].stage # "noting"
     /\ ~(worker[w].stage = "working" /\ worker[w].todo = {} /\ worker[w].failed)

\* An operator repeats the call of a purge that has not ended, a call that runs
\* goes on, and the bucket executes what it was sent.
OperatedSpec ==
  /\ Spec
  /\ \A w \in Workers : /\ \A p \in Purges : WF_vars(BeginFinalize(w, p))
                        /\ WF_vars(WorkerStep(w))
  /\ \A o \in Objects : WF_vars(StorageDeletes(o))

-----------------------------------------------------------------------------
(* Properties. *)

\* A Submission that is open to its student, its Examiners and Admins has all of
\* its Answer media: none is erased, and no DELETE that could still erase one is
\* under way or about to be sent, however late a finalization was interrupted and
\* whoever recovered the Submission meanwhile.
RetainedIsIntact ==
  \A s \in Submissions : retention[s] = "RETAINED" =>
    \A o \in media[s] :
      /\ storage[o] # "erased"
      /\ o \notin deleting
      /\ \A w \in Workers : worker[w].stage \in {"looking", "erasing"} => worker[w].object # o

\* What a completed purge captured is gone from the bucket before the rows that
\* lead to it are: nothing captured is left behind without a row.
NothingCapturedIsLeft ==
  \A p \in Purges : purge[p].status = "COMPLETED" =>
    \A o \in Objects : object[p][o] # "NONE" => storage[o] # "stored"

\* Nothing is erased, or asked to be erased, that two different Admins did not
\* release and whose thirty days have not passed.
ErasureIsAuthorised ==
  \A o \in Objects : (storage[o] = "erased" \/ o \in deleting) =>
    \E p \in Purges :
      /\ object[p][o] \in {"DELETE_PENDING", "FAILED", "ABSENT"}
      /\ purge[p].elapsed
      /\ purge[p].approver # None /\ purge[p].approver # purge[p].by

\* One purge at a time: the retention status and the requests tell the same
\* story, so a recovery can never undo what another request still erases.
OnePurgeAtATime ==
  \A s \in Submissions :
    /\ \A p, q \in OpenPurges(s) : p = q
    /\ retention[s] = "QUARANTINED" <=>
         \E p \in OpenPurges(s) : purge[p].status \in {"QUARANTINED", "FAILED"}
    /\ retention[s] = "PURGED" <=>
         \E p \in Purges : purge[p].target = s /\ purge[p].status = "COMPLETED"

\* Money is never booked on a Submission that is being purged, and none is
\* purged that waits for a payment.
PurgeSparesPayment ==
  \A s \in Submissions : retention[s] # "RETAINED" => ~HasPayment(s)

\* While its transaction lasts, a finalization asks storage for nothing that a
\* hold protects, although the hold may have come after the reservation.
HoldStopsDeletion ==
  [][\A w \in Workers :
       worker[w].held /\ worker[w].stage = "looking" /\ worker'[w].stage = "erasing"
         => ~HasHold(Target(w))]_vars

\* A purge that ended stays as it ended, whatever a slower finalization of the
\* same request still has to report.
EndedStays ==
  [][\A p \in Purges : HasEnded(p) => purge'[p].status = purge[p].status]_vars

\* Once faults stop, every approved purge whose quarantine is over ends, if its
\* Submission has no flag and Holds is empty: whatever a fault has left behind,
\* the next call finds a way on.
PurgeEnds ==
  <>[][\A w \in Workers : ~Fault(w)]_vars =>
    \A p \in Purges :
      (purge[p].elapsed /\ purge[p].target \notin flagged) ~> HasEnded(p)

=============================================================================
