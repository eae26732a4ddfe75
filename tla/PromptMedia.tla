----------------------------- MODULE PromptMedia -----------------------------
(***************************************************************************)
(* The prompt audio of Questions: uploaded by an Admin                     *)
(* (service/upload.service.ts), delivered to Submissions, withdrawn and     *)
(* brought back with its Question (service/question.service.ts), and in the *)
(* end quarantined and deleted by an operator's cleanup runs               *)
(* (service/promptMediaCleanup.service.ts).                                *)
(*                                                                         *)
(* Every write that makes or removes a reference to a storage key takes the *)
(* advisory lock of that key.  A deletion holds it across its storage calls *)
(* until the database rolls the transaction back after 60 seconds; the      *)
(* calls it surrounds go on.  A Question has one key for good, made of its   *)
(* id, so that the Question stands for its key here: a new upload overwrites *)
(* the object, and a URL presigned long after a quarantine began names what *)
(* is about to be deleted.  Answers refer to a key through their manifest   *)
(* entry, so that one reference per Submission stands for entry and Answer. *)
(***************************************************************************)

CONSTANTS
  Questions,    \* pool of Question ids, each with its storage key
  Submissions,  \* pool of Submission ids
  Workers,      \* slots for cleanup runs under way, each at one object
  Requests,     \* slots for upload confirmations under way
  None,         \* SQL NULL
  PositionOf    \* the (Test Set, category) of a Question

ASSUME PromptNoneAssumption == None \notin Questions

VARIABLES
  question,    \* Question rows
  storage,     \* the Questions with an object in the bucket
  stored,      \* history: the Questions that ever had one
  url,         \* the presigned PUT URL of a Question
  deleting,    \* the Questions with a DELETE on its way to the bucket
  object,      \* PromptMediaCleanupObject rows, by their key
  recalled,    \* history: quarantined anew after a deletion was attempted
  prompt,      \* the audio in a Submission's manifest, None without a manifest
  purged,      \* the Submissions with retentionStatus PURGED
  confirming,  \* upload confirmations between their HEAD and their update
  worker       \* cleanup runs under way

bucketVars  == <<storage, stored, url, deleting>>
cleanupVars == <<object, recalled, worker>>
attemptVars == <<prompt, purged>>
vars == <<question, storage, stored, url, deleting, object, recalled, prompt,
          purged, confirming, worker>>

-----------------------------------------------------------------------------
\* FAILED is set by the audit after an update, which reads what it just wrote.
QuestionRow ==
  [state : {"none", "active", "retired"}, audio : {"NONE", "PENDING", "UPLOADED"}]

\* live: presigned after the last quarantine of the object began; it may have
\* expired or not.  old: presigned before that.
UrlState == {"none", "live", "old"}

\* The code also compares with CANCELLED, which the enum does not have.
Final == {"DELETED", "MISSING"}

CleanupStatus == {"NONE", "QUARANTINED", "DELETE_PENDING", "FAILED", "SKIPPED_REFERENCED"}
                   \cup Final

\* until: quarantineUntil is null, in the future, in the past.
ObjectRow == [status : CleanupStatus, until : {"null", "ahead", "over"}, attempted : BOOLEAN]

\* listed: a QUARANTINE run has the audio in its inventory.  due: a FINALIZE run
\* has it in its list.  pending: DELETE_PENDING is committed.  deleting: the
\* second check is done, the HEAD before the DELETE is out.  sent: the DELETE
\* and the HEAD after it are out.  held: the worker holds the lock.
WorkerRow ==
  [phase : {"idle", "listed", "due", "pending", "deleting", "sent"},
   key : Questions \cup {None}, existed : BOOLEAN, held : BOOLEAN]

IdleWorker == [phase |-> "idle", key |-> None, existed |-> FALSE, held |-> FALSE]

TypeOK ==
  /\ question \in [Questions -> QuestionRow]
  /\ storage \subseteq stored /\ stored \subseteq Questions
  /\ url \in [Questions -> UrlState] /\ deleting \subseteq Questions
  /\ object \in [Questions -> ObjectRow]
  /\ recalled \subseteq Questions
  /\ prompt \in [Submissions -> Questions \cup {None}]
  /\ purged \subseteq Submissions
  /\ confirming \in [Requests -> Questions \cup {None}]
  /\ worker \in [Workers -> WorkerRow]
  /\ \A w \in Workers : worker[w].held => worker[w].phase \in {"deleting", "sent"}

Init ==
  /\ question = [q \in Questions |-> [state |-> "none", audio |-> "NONE"]]
  /\ storage = {} /\ stored = {} /\ deleting = {}
  /\ url = [q \in Questions |-> "none"]
  /\ object = [q \in Questions |-> [status |-> "NONE", until |-> "null", attempted |-> FALSE]]
  /\ recalled = {}
  /\ prompt = [s \in Submissions |-> None]
  /\ purged = {}
  /\ confirming = [r \in Requests |-> None]
  /\ worker = [w \in Workers |-> IdleWorker]

-----------------------------------------------------------------------------
(* Queries. *)

HasActive(q) == question[q].state = "active" /\ question[q].audio # "NONE"
HasSource(q) == question[q].audio # "NONE"

\* Mutant: only the references of the active bank count.
IsReferencedByBank(q) == HasActive(q)

\* readReferences: manifests and Answers of Submissions that are not purged.
IsReferenced(q) == \E s \in Submissions \ purged : prompt[s] = q

\* Nothing but a retired source Question is left of the key.
IsUnused(q) == HasSource(q) /\ ~HasActive(q) /\ ~IsReferenced(q)

IsUnlocked(q) == \A w \in Workers : ~(worker[w].held /\ worker[w].key = q)

PositionIsFree(q) ==
  \A p \in Questions : PositionOf[p] = PositionOf[q] => question[p].state # "active"

-----------------------------------------------------------------------------
(* Questions and their audio. *)

CreateQuestion(q) ==
  /\ question[q].state = "none" /\ PositionIsFree(q)
  /\ question' = [question EXCEPT ![q].state = "active"]
  /\ UNCHANGED <<bucketVars, cleanupVars, attemptVars, confirming>>

\* The same key at every upload, and no lock.
CreateQuestionAudioPresignedUpload(q) ==
  /\ question[q].state = "active" /\ question[q].audio # "UPLOADED"
  /\ question' = [question EXCEPT ![q].audio = "PENDING"]
  /\ url' = [url EXCEPT ![q] = "live"]
  /\ UNCHANGED <<storage, stored, deleting, cleanupVars, attemptVars, confirming>>

\* The Admin's browser PUTs the audio; a URL can be used more than once.
PutAudio(q) ==
  /\ url[q] # "none"
  /\ storage' = storage \cup {q} /\ stored' = stored \cup {q}
  /\ UNCHANGED <<question, url, deleting, cleanupVars, attemptVars, confirming>>

\* confirmQuestionAudioUpload up to its HEAD, which finds the object.
BeginConfirm(r, q) ==
  /\ confirming[r] = None
  /\ question[q].state = "active" /\ question[q].audio = "PENDING"
  /\ q \in storage
  /\ confirming' = [confirming EXCEPT ![r] = q]
  /\ UNCHANGED <<question, bucketVars, cleanupVars, attemptVars>>

\* Its conditional update: the Question may have been retired since.
CommitConfirm(r) ==
  LET q == confirming[r] IN
  /\ q # None
  /\ question' = IF question[q].state = "active" /\ question[q].audio = "PENDING"
                 THEN [question EXCEPT ![q].audio = "UPLOADED"] ELSE question
  /\ confirming' = [confirming EXCEPT ![r] = None]
  /\ UNCHANGED <<bucketVars, cleanupVars, attemptVars>>

RetireQuestion(q) ==
  /\ question[q].state = "active" /\ IsUnlocked(q)
  /\ question' = [question EXCEPT ![q].state = "retired"]
  /\ UNCHANGED <<bucketVars, cleanupVars, attemptVars, confirming>>

\* Refused once a cleanup has gone too far with the audio.  The cleanup row
\* stays as it is, with the deadline of its quarantine.
RestoreQuestion(q) ==
  /\ question[q].state = "retired" /\ IsUnlocked(q)
  /\ object[q].status \notin {"FAILED", "DELETE_PENDING"} \cup Final
  /\ PositionIsFree(q)
  /\ question' = [question EXCEPT ![q].state = "active"]
  /\ UNCHANGED <<bucketVars, cleanupVars, attemptVars, confirming>>

\* initializeManifestSubmission writes an entry for an eligible Question.
DeliverPrompt(s, q) ==
  /\ prompt[s] = None
  /\ question[q].state = "active" /\ question[q].audio = "UPLOADED"
  /\ IsUnlocked(q)
  /\ prompt' = [prompt EXCEPT ![s] = q]
  /\ UNCHANGED <<question, bucketVars, cleanupVars, purged, confirming>>

\* The end of a Submission purge (SubmissionPurge) removes manifest and Answers.
PurgeSubmission(s) ==
  /\ prompt[s] # None /\ s \notin purged /\ IsUnlocked(prompt[s])
  /\ purged' = purged \cup {s}
  /\ UNCHANGED <<question, bucketVars, cleanupVars, prompt, confirming>>

-----------------------------------------------------------------------------
(* QUARANTINE runs. *)

\* inventoryPromptMedia lists the audio of retired Questions.
Inventory(w, q) ==
  /\ worker[w].phase = "idle"
  /\ question[q].state = "retired" /\ HasSource(q)
  /\ worker' = [worker EXCEPT ![w].phase = "listed", ![w].key = q]
  /\ UNCHANGED <<question, bucketVars, object, recalled, attemptVars, confirming>>

\* quarantineCandidate writes o, or leaves an object that has been dealt with.
\* From a quarantine on, the URLs presigned before it will be the old ones.
QuarantineAs(w, k, o) ==
  LET final == object[k].status \in Final IN
  /\ object' = IF final THEN object ELSE [object EXCEPT ![k] = o]
  /\ recalled' = IF ~final /\ o.status = "QUARANTINED" /\ o.attempted
                 THEN recalled \cup {k} ELSE recalled
  /\ url' = IF ~final /\ o.status = "QUARANTINED" /\ url[k] = "live"
            THEN [url EXCEPT ![k] = "old"] ELSE url
  /\ worker' = [worker EXCEPT ![w] = IdleWorker]
  /\ UNCHANGED <<question, storage, stored, deleting, attemptVars, confirming>>

\* Its HEAD answers; references are read under the lock.
QuarantineCandidate(w) ==
  LET k == worker[w].key IN
  /\ worker[w].phase = "listed" /\ IsUnlocked(k)
  /\ \/ /\ k \notin storage
        /\ QuarantineAs(w, k, [object[k] EXCEPT !.status = "MISSING", !.until = "null"])
     \/ /\ k \in storage /\ (HasActive(k) \/ IsReferenced(k))
        /\ QuarantineAs(w, k, [object[k] EXCEPT !.status = "SKIPPED_REFERENCED", !.until = "null"])
     \/ /\ k \in storage /\ ~HasActive(k) /\ ~IsReferenced(k)
        /\ QuarantineAs(w, k, [object[k] EXCEPT !.status = "QUARANTINED", !.until = "ahead"])

\* Its HEAD fails: the key is marked without a look at its references.
InspectionFails(w) ==
  LET k == worker[w].key IN
  /\ worker[w].phase = "listed" /\ IsUnlocked(k)
  /\ QuarantineAs(w, k, [object[k] EXCEPT !.status = "FAILED", !.until = "null"])

\* Thirty days; a PUT URL lives for one hour.
QuarantineElapses(q) ==
  /\ object[q].until = "ahead"
  /\ object' = [object EXCEPT ![q].until = "over"]
  /\ url' = IF url[q] = "old" THEN [url EXCEPT ![q] = "none"] ELSE url
  /\ UNCHANGED <<question, storage, stored, deleting, recalled, worker, attemptVars, confirming>>

-----------------------------------------------------------------------------
(* FINALIZE runs. *)

FindDue(w, q) ==
  /\ worker[w].phase = "idle"
  /\ object[q].status \in {"QUARANTINED", "FAILED", "DELETE_PENDING"}
  /\ object[q].until = "over"
  /\ worker' = [worker EXCEPT ![w].phase = "due", ![w].key = q]
  /\ UNCHANGED <<question, bucketVars, object, recalled, attemptVars, confirming>>

\* preparePromptMediaDeleteAttempt.
PrepareDelete(w) ==
  LET k == worker[w].key
      open == object[k].status \notin Final /\ object[k].until = "over" IN
  /\ worker[w].phase = "due" /\ IsUnlocked(k)
  /\ object' = IF ~open THEN object
               ELSE IF IsUnused(k)
               THEN [object EXCEPT ![k].status = "DELETE_PENDING", ![k].attempted = TRUE]
               ELSE [object EXCEPT ![k].status = "SKIPPED_REFERENCED", ![k].until = "null"]
  /\ worker' = IF open /\ IsUnused(k) THEN [worker EXCEPT ![w].phase = "pending"]
               ELSE [worker EXCEPT ![w] = IdleWorker]
  /\ UNCHANGED <<question, bucketVars, recalled, attemptVars, confirming>>

\* Mutant: it notes every failure.
NoteEveryFailure(w) ==
  /\ worker[w].phase = "due" /\ IsUnlocked(worker[w].key)
  /\ object' = [object EXCEPT ![worker[w].key].status = "FAILED"]
  /\ worker' = [worker EXCEPT ![w] = IdleWorker]
  /\ UNCHANGED <<question, bucketVars, recalled, attemptVars, confirming>>

\* It throws: finalizeCandidate notes the failure of an object that is not final.
NoteFailure(w) ==
  LET k == worker[w].key IN
  /\ worker[w].phase = "due" /\ IsUnlocked(k)
  /\ object' = IF object[k].status \in Final THEN object
               ELSE [object EXCEPT ![k].status = "FAILED"]
  /\ worker' = [worker EXCEPT ![w] = IdleWorker]
  /\ UNCHANGED <<question, bucketVars, recalled, attemptVars, confirming>>

\* confirmPromptMediaDeleteAttempt takes the lock and checks once more.
LockForDelete(w) ==
  LET k == worker[w].key
      pending == object[k].status = "DELETE_PENDING" IN
  /\ worker[w].phase = "pending" /\ IsUnlocked(k)
  /\ object' = IF pending /\ ~IsUnused(k)
               THEN [object EXCEPT ![k].status = "SKIPPED_REFERENCED", ![k].until = "null"]
               ELSE object
  /\ worker' = IF pending /\ IsUnused(k)
               THEN [worker EXCEPT ![w].phase = "deleting", ![w].held = TRUE]
               ELSE [worker EXCEPT ![w] = IdleWorker]
  /\ UNCHANGED <<question, bucketVars, recalled, attemptVars, confirming>>

\* deleteStorageObject: the HEAD before has answered, the DELETE goes out.
SendDelete(w) ==
  /\ worker[w].phase = "deleting"
  /\ deleting' = deleting \cup {worker[w].key}
  /\ worker' = [worker EXCEPT ![w].phase = "sent", ![w].existed = worker[w].key \in storage]
  /\ UNCHANGED <<question, storage, stored, url, object, recalled, attemptVars, confirming>>

\* The bucket carries out a DELETE, whoever still waits for it.
StorageDeletes(q) ==
  /\ q \in deleting
  /\ storage' = storage \ {q} /\ deleting' = deleting \ {q}
  /\ UNCHANGED <<question, stored, url, cleanupVars, attemptVars, confirming>>

EndDelete(w, status) ==
  /\ object' = [object EXCEPT ![worker[w].key].status = status,
                              ![worker[w].key].until = IF status = "FAILED" THEN @ ELSE "null"]
  /\ worker' = [worker EXCEPT ![w] = IdleWorker]
  /\ UNCHANGED <<question, bucketVars, recalled, attemptVars, confirming>>

\* Mutant: the DELETE's answer is enough.
ConfirmDeleteUnseen(w) ==
  /\ worker[w].phase = "sent" /\ worker[w].held
  /\ EndDelete(w, IF worker[w].existed THEN "DELETED" ELSE "MISSING")

\* The HEAD after it proves the absence.
ConfirmDelete(w) ==
  /\ worker[w].phase = "sent" /\ worker[w].held
  /\ worker[w].key \notin storage
  /\ EndDelete(w, IF worker[w].existed THEN "DELETED" ELSE "MISSING")

\* A storage call fails, or the object is still there.
FailDelete(w) ==
  /\ worker[w].phase \in {"deleting", "sent"} /\ worker[w].held
  /\ EndDelete(w, "FAILED")

\* Sixty seconds: the lock is gone, the calls go on.
TransactionExpires(w) ==
  /\ worker[w].held
  /\ worker' = [worker EXCEPT ![w].held = FALSE]
  /\ UNCHANGED <<question, bucketVars, object, recalled, attemptVars, confirming>>

\* The process dies, or its transaction fails and nothing can be noted.
Crash(w) ==
  /\ worker[w].phase # "idle"
  /\ worker' = [worker EXCEPT ![w] = IdleWorker]
  /\ UNCHANGED <<question, bucketVars, object, recalled, attemptVars, confirming>>

-----------------------------------------------------------------------------
Bank ==
  \E q \in Questions :
    \/ CreateQuestion(q) \/ RetireQuestion(q) \/ RestoreQuestion(q)
    \/ CreateQuestionAudioPresignedUpload(q)
    \/ \E r \in Requests : BeginConfirm(r, q)
    \/ \E s \in Submissions : DeliverPrompt(s, q)

Cleanup(w) ==
  \/ \E q \in Questions : Inventory(w, q) \/ FindDue(w, q)
  \/ QuarantineCandidate(w) \/ InspectionFails(w)
  \/ PrepareDelete(w) \/ NoteFailure(w)
  \/ LockForDelete(w) \/ SendDelete(w) \/ ConfirmDelete(w) \/ FailDelete(w)
  \/ TransactionExpires(w) \/ Crash(w)

Next ==
  \/ Bank
  \/ \E r \in Requests : CommitConfirm(r)
  \/ \E s \in Submissions : PurgeSubmission(s)
  \/ \E q \in Questions : PutAudio(q) \/ QuarantineElapses(q) \/ StorageDeletes(q)
  \/ \E w \in Workers : Cleanup(w)

Spec == Init /\ [][Next]_vars

-----------------------------------------------------------------------------
(* Properties. *)

\* Somebody counts on the object: an active Question, a Submission that is not
\* purged, or the promise of a quarantine that has not run out.
IsProtected(q) ==
  \/ question[q].state = "active"
  \/ \E s \in Submissions \ purged : prompt[s] = q
  \/ object[q].status = "QUARANTINED" /\ object[q].until = "ahead"

\* Audio once uploaded is in the bucket for as long as somebody counts on it,
\* whatever retirements, restores, uploads, starts, purges, cleanup runs, crashes
\* and late storage calls come between the check of the references and the
\* DELETE.  Audio quarantined anew after a deletion was attempted is left out:
\* the DELETE may still be on its way, which CONTEXT.md:140 would not have.
KeptWhileProtected == \A q \in stored \ recalled : IsProtected(q) => q \in storage

\* What is recorded as deleted is lost to nobody: no restore, start or upload
\* that crosses the deletion leaves somebody who counts on it.  The object can
\* come back, but only through a URL presigned after its last quarantine began,
\* by a Question restored during that quarantine: every older URL is dead.
DeletedIsUnused ==
  \A q \in Questions : object[q].status = "DELETED" =>
    /\ ~IsProtected(q)
    /\ q \in storage => url[q] = "live"

\* A confirmed deletion is never reopened, by a run that was already under way
\* or by one that comes later.
FinalStays ==
  [][\A q \in Questions : object[q].status \in Final => object'[q] = object[q]]_vars
=============================================================================
