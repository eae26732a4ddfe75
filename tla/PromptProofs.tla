----------------------------- MODULE PromptProofs -----------------------------
(***************************************************************************)
(* Prompt audio, for every value of the constants.                         *)
(*                                                                         *)
(* The argument: from the second check of the references on, the object of *)
(* a Question is doomed - it is deleted, or a DELETE is or may be on its    *)
(* way - and nobody can take a reference to it any more (DoomOK): the       *)
(* Question is retired, and cannot be restored while the cleanup status is  *)
(* one of those a deletion leaves.  The lock alone would not do, because it *)
(* is lost after sixty seconds while the storage calls go on.  A URL that   *)
(* outlives a deletion was presigned after the quarantine had begun: older  *)
(* ones are dead when the quarantine is over (RowOK).                       *)
(***************************************************************************)
EXTENDS PromptMedia, TLAPS

Doomed(k) ==
  \/ k \in deleting \cup (stored \ storage)
  \/ \E w \in Workers : worker[w].phase = "deleting" /\ worker[w].key = k

\* What a deletion leaves behind in the status.
Marked == {"DELETE_PENDING", "FAILED"} \cup Final

DoomOK(k) == Doomed(k) /\ k \notin recalled => IsUnused(k) /\ object[k].status \in Marked

\* The cleanup row o and the URL u of one object: a deletion is attempted when
\* the quarantine is over and no URL from before it is left.
RowOK(k, o, u) ==
  /\ o.attempted \/ o.until # "null" => k \in stored
  /\ o.until = "over" => u # "old"
  /\ o.status = "DELETE_PENDING" => o.attempted /\ o.until = "over"
  /\ o.status = "DELETED" => o.attempted /\ u # "old" /\ (k \in storage => u = "live")
  /\ o.status \in Final => o.until = "null"

KeyOK(k) ==
  /\ RowOK(k, object[k], url[k])
  /\ Doomed(k) => object[k].attempted
  /\ object[k].status = "DELETED" => IsUnused(k)

WorkerOK(w) ==
  /\ worker[w].phase # "idle" => worker[w].key \in Questions
  /\ worker[w].phase \in {"pending", "deleting", "sent"} => object[worker[w].key].attempted
  /\ worker[w].held =>
       /\ worker[w].phase \in {"deleting", "sent"}
       /\ object[worker[w].key].status = "DELETE_PENDING"
       /\ IsUnused(worker[w].key)

LocksOK ==
  \A w, v \in Workers :
    worker[w].held /\ worker[v].held /\ worker[w].key = worker[v].key => w = v

QuestionsOK == \A q \in Questions : question[q].state = "none" => question[q].audio = "NONE"

TablesOK ==
  /\ question \in [Questions -> QuestionRow]
  /\ storage \subseteq stored /\ stored \subseteq Questions
  /\ url \in [Questions -> UrlState] /\ deleting \subseteq Questions
  /\ object \in [Questions -> ObjectRow]
  /\ recalled \subseteq Questions
  /\ prompt \in [Submissions -> Questions \cup {None}]
  /\ purged \subseteq Submissions
  /\ confirming \in [Requests -> Questions \cup {None}]
  /\ worker \in [Workers -> WorkerRow]

PromptInv ==
  /\ TablesOK /\ QuestionsOK /\ LocksOK
  /\ \A k \in Questions : KeyOK(k) /\ DoomOK(k)
  /\ \A w \in Workers : WorkerOK(w)

LEMMA TypesFollow == PromptInv => TypeOK
  BY DEF PromptInv, TablesOK, TypeOK, WorkerOK

LEMMA InitHolds == Init => PromptInv
<1> SUFFICES ASSUME Init PROVE PromptInv
  OBVIOUS
<1>1. IdleWorker \in WorkerRow
  BY DEF IdleWorker, WorkerRow
<1>2. TablesOK
  BY <1>1 DEF Init, TablesOK, QuestionRow, ObjectRow, CleanupStatus, UrlState
<1>3. QuestionsOK /\ LocksOK /\ \A w \in Workers : WorkerOK(w)
  BY DEF Init, QuestionsOK, LocksOK, WorkerOK, IdleWorker
<1>4. \A k \in Questions : ~Doomed(k)
  BY DEF Init, Doomed, IdleWorker
<1>5. \A k \in Questions : RowOK(k, object[k], url[k]) /\ object[k].status = "NONE"
  BY DEF Init, RowOK, Final
<1> QED
  BY <1>2, <1>3, <1>4, <1>5 DEF PromptInv, KeyOK, DoomOK

-----------------------------------------------------------------------------
(* Steps of the bank, of Submissions and of the bucket: no cleanup row and no *)
(* worker changes.                                                           *)

\* The conditions under which such a step is harmless.
LEMMA BankStep ==
  ASSUME PromptInv, UNCHANGED <<object, recalled, worker>>,
         TablesOK', QuestionsOK',
         deleting' \subseteq deleting,
         stored \subseteq stored',
         \A k \in Questions : k \in stored' \ storage' =>
           k \in (stored \ storage) \cup deleting,
         \A k \in Questions : url'[k] = url[k] \/ url'[k] = "live",
         \A k \in Questions : k \in storage' => k \in storage \/ url[k] # "none",
         \A k \in Questions : IsUnused(k) /\ object[k].status \in Marked => IsUnused(k)'
  PROVE  PromptInv'
<1>1. object' = object /\ recalled' = recalled /\ worker' = worker
  OBVIOUS
<1>2. \A k \in Questions : Doomed(k)' => Doomed(k)
  BY <1>1 DEF Doomed
<1>3. ASSUME NEW k \in Questions PROVE KeyOK(k)'
  <2>1. KeyOK(k) /\ url[k] \in UrlState
    BY DEF PromptInv, TablesOK
  <2>2. object[k].status = "DELETED" /\ k \in storage' => url'[k] = "live"
    BY <2>1 DEF KeyOK, RowOK, UrlState
  <2>3. RowOK(k, object[k], url[k])'
    BY <1>1, <2>1, <2>2 DEF KeyOK, RowOK
  <2>4. object[k].status = "DELETED" => IsUnused(k)'
    BY <2>1 DEF KeyOK, Marked, Final
  <2> QED
    BY <1>1, <1>2, <2>1, <2>3, <2>4 DEF KeyOK
<1>4. ASSUME NEW k \in Questions PROVE DoomOK(k)'
  BY <1>1, <1>2 DEF PromptInv, DoomOK
<1>5. ASSUME NEW w \in Workers PROVE WorkerOK(w)'
  <2>1. WorkerOK(w)
    BY DEF PromptInv
  <2>2. worker[w].held => IsUnused(worker[w].key)'
    BY <2>1 DEF WorkerOK, Marked
  <2> QED
    BY <1>1, <2>1, <2>2 DEF WorkerOK
<1>6. LocksOK'
  BY <1>1 DEF PromptInv, LocksOK
<1> QED
  BY <1>3, <1>4, <1>5, <1>6 DEF PromptInv

\* A Question gets another row; storage, URLs and Submissions stay.
LEMMA QuestionStep ==
  ASSUME PromptInv, NEW q \in Questions, NEW row \in QuestionRow,
         question' = [question EXCEPT ![q] = row],
         row.state # "none", question[q].audio # "NONE" => row.audio # "NONE",
         confirming' \in [Requests -> Questions \cup {None}],
         UNCHANGED <<bucketVars, cleanupVars, attemptVars>>,
         row.state = "active" =>
           \/ question[q].state = "active" \/ question[q].audio = "NONE"
           \/ object[q].status \notin Marked
  PROVE  PromptInv'
<1>1. /\ UNCHANGED <<object, recalled, worker, storage, stored, url, deleting, prompt, purged>>
      /\ question'[q] = row /\ \A p \in Questions \ {q} : question'[p] = question[p]
      /\ question' \in [Questions -> QuestionRow]
  BY DEF bucketVars, cleanupVars, attemptVars, PromptInv, TablesOK
<1>2. TablesOK' /\ QuestionsOK'
  BY <1>1 DEF PromptInv, TablesOK, QuestionsOK
<1>3. ASSUME NEW k \in Questions, IsUnused(k), object[k].status \in Marked
      PROVE  IsUnused(k)'
  BY <1>1, <1>3 DEF IsUnused, HasSource, HasActive, IsReferenced
<1> QED
  BY <1>1, <1>2, <1>3, BankStep

LEMMA CreateRight ==
  ASSUME PromptInv, NEW q \in Questions, CreateQuestion(q)
  PROVE  PromptInv'
<1> DEFINE row == [question[q] EXCEPT !.state = "active"]
<1>1. question[q] \in QuestionRow /\ question[q].state = "none" /\ question[q].audio = "NONE"
  BY DEF PromptInv, TablesOK, QuestionsOK, CreateQuestion
<1>2. row \in QuestionRow /\ row.state = "active" /\ row.audio = question[q].audio
  BY <1>1 DEF QuestionRow
<1>3. question' = [question EXCEPT ![q] = row]
  BY DEF CreateQuestion
<1>4. UNCHANGED <<bucketVars, cleanupVars, attemptVars>> /\ confirming' = confirming
  BY DEF CreateQuestion
<1>5. confirming' \in [Requests -> Questions \cup {None}]
  BY <1>4 DEF PromptInv, TablesOK
<1> HIDE DEF row
<1> QED
  BY <1>1, <1>2, <1>3, <1>4, <1>5, QuestionStep

LEMMA RetireRight ==
  ASSUME PromptInv, NEW q \in Questions, RetireQuestion(q)
  PROVE  PromptInv'
<1> DEFINE row == [question[q] EXCEPT !.state = "retired"]
<1>1. question[q] \in QuestionRow
  BY DEF PromptInv, TablesOK
<1>2. row \in QuestionRow /\ row.state = "retired" /\ row.audio = question[q].audio
  BY <1>1 DEF QuestionRow
<1>3. question' = [question EXCEPT ![q] = row]
  BY DEF RetireQuestion
<1>4. UNCHANGED <<bucketVars, cleanupVars, attemptVars>> /\ confirming' = confirming
  BY DEF RetireQuestion
<1>5. confirming' \in [Requests -> Questions \cup {None}]
  BY <1>4 DEF PromptInv, TablesOK
<1> HIDE DEF row
<1> QED
  BY <1>2, <1>3, <1>4, <1>5, QuestionStep

\* A restore is refused while the cleanup status is one a deletion leaves.
LEMMA RestoreRight ==
  ASSUME PromptInv, NEW q \in Questions, RestoreQuestion(q)
  PROVE  PromptInv'
<1> DEFINE row == [question[q] EXCEPT !.state = "active"]
<1>1. question[q] \in QuestionRow
  BY DEF PromptInv, TablesOK
<1>2. row \in QuestionRow /\ row.state = "active" /\ row.audio = question[q].audio
  BY <1>1 DEF QuestionRow
<1>3. question' = [question EXCEPT ![q] = row]
  BY DEF RestoreQuestion
<1>4. object[q].status \notin Marked
  BY DEF RestoreQuestion, Marked
<1>5. UNCHANGED <<bucketVars, cleanupVars, attemptVars>> /\ confirming' = confirming
  BY DEF RestoreQuestion
<1>6. confirming' \in [Requests -> Questions \cup {None}]
  BY <1>5 DEF PromptInv, TablesOK
<1> HIDE DEF row
<1> QED
  BY <1>2, <1>3, <1>4, <1>5, <1>6, QuestionStep

LEMMA CommitConfirmRight ==
  ASSUME PromptInv, NEW r \in Requests, CommitConfirm(r)
  PROVE  PromptInv'
<1> DEFINE q == confirming[r]
           row == [question[q] EXCEPT !.audio = "UPLOADED"]
<1>1. q \in Questions /\ UNCHANGED <<bucketVars, cleanupVars, attemptVars>>
  BY DEF PromptInv, TablesOK, CommitConfirm
<1>2. confirming' \in [Requests -> Questions \cup {None}]
  BY DEF PromptInv, TablesOK, CommitConfirm
<1>3. question[q] \in QuestionRow
  BY <1>1 DEF PromptInv, TablesOK
<1>4. row \in QuestionRow /\ row.state = question[q].state /\ row.audio = "UPLOADED"
  BY <1>3 DEF QuestionRow
<1>5. CASE question[q].state = "active" /\ question[q].audio = "PENDING"
  <2>1. question' = [question EXCEPT ![q] = row]
    BY <1>5 DEF CommitConfirm
  <2> HIDE DEF q, row
  <2> QED
    BY <1>1, <1>2, <1>4, <1>5, <2>1, QuestionStep
<1>6. CASE ~(question[q].state = "active" /\ question[q].audio = "PENDING")
  <2>1. question' = question
    BY <1>6 DEF CommitConfirm
  <2>2. UNCHANGED <<object, recalled, worker, storage, stored, url, deleting, prompt, purged>>
    BY <1>1 DEF bucketVars, cleanupVars, attemptVars
  <2>3. TablesOK' /\ QuestionsOK'
    BY <1>2, <2>1, <2>2 DEF PromptInv, TablesOK, QuestionsOK
  <2>4. \A k \in Questions : IsUnused(k) => IsUnused(k)'
    BY <2>1, <2>2 DEF IsUnused, HasSource, HasActive, IsReferenced
  <2> QED
    BY <2>2, <2>3, <2>4, BankStep
<1> QED
  BY <1>5, <1>6

LEMMA BeginConfirmRight ==
  ASSUME PromptInv, NEW r \in Requests, NEW q \in Questions, BeginConfirm(r, q)
  PROVE  PromptInv'
<1>1. confirming' \in [Requests -> Questions \cup {None}] /\ question' = question
  BY DEF PromptInv, TablesOK, BeginConfirm
<1>2. UNCHANGED <<object, recalled, worker, storage, stored, url, deleting, prompt, purged>>
  BY DEF BeginConfirm, bucketVars, cleanupVars, attemptVars
<1>3. TablesOK' /\ QuestionsOK'
  BY <1>1, <1>2 DEF PromptInv, TablesOK, QuestionsOK
<1>4. \A k \in Questions : IsUnused(k) => IsUnused(k)'
  BY <1>1, <1>2 DEF IsUnused, HasSource, HasActive, IsReferenced
<1> QED
  BY <1>2, <1>3, <1>4, BankStep

\* A presign is for an active Question, whose object nobody has given up.
LEMMA PresignRight ==
  ASSUME PromptInv, NEW q \in Questions, CreateQuestionAudioPresignedUpload(q)
  PROVE  PromptInv'
<1>1. /\ UNCHANGED <<object, recalled, worker, storage, stored, deleting, prompt, purged, confirming>>
      /\ url' = [url EXCEPT ![q] = "live"] /\ question[q].state = "active"
  BY DEF CreateQuestionAudioPresignedUpload, cleanupVars, attemptVars
<1>2. /\ url' \in [Questions -> UrlState]
      /\ \A k \in Questions : url'[k] = url[k] \/ url'[k] = "live"
  BY <1>1 DEF PromptInv, TablesOK, UrlState
<1>3. /\ question' \in [Questions -> QuestionRow]
      /\ question'[q].audio = "PENDING" /\ question'[q].state = "active"
      /\ \A p \in Questions \ {q} : question'[p] = question[p]
  <2>1. /\ question \in [Questions -> QuestionRow]
        /\ question' = [question EXCEPT ![q].audio = "PENDING"]
    BY DEF CreateQuestionAudioPresignedUpload, PromptInv, TablesOK
  <2> QED
    BY <1>1, <2>1 DEF QuestionRow
<1>4. TablesOK' /\ QuestionsOK'
  BY <1>1, <1>2, <1>3 DEF PromptInv, TablesOK, QuestionsOK
<1>5. ASSUME NEW k \in Questions, IsUnused(k) PROVE IsUnused(k)'
  <2>1. k # q
    BY <1>1, <1>5 DEF IsUnused, HasActive, HasSource
  <2> QED
    BY <1>1, <1>3, <1>5, <2>1 DEF IsUnused, HasSource, HasActive, IsReferenced
<1> QED
  BY <1>1, <1>2, <1>4, <1>5, BankStep

LEMMA PutRight ==
  ASSUME PromptInv, NEW q \in Questions, PutAudio(q)
  PROVE  PromptInv'
<1>1. /\ UNCHANGED <<object, recalled, worker, question, url, deleting, prompt, purged, confirming>>
      /\ storage' = storage \cup {q} /\ stored' = stored \cup {q} /\ url[q] # "none"
  BY DEF PutAudio, cleanupVars, attemptVars
<1>2. TablesOK' /\ QuestionsOK'
  BY <1>1 DEF PromptInv, TablesOK, QuestionsOK
<1>3. \A k \in Questions : IsUnused(k) => IsUnused(k)'
  BY <1>1 DEF IsUnused, HasSource, HasActive, IsReferenced
<1> QED
  BY <1>1, <1>2, <1>3, BankStep

LEMMA DeleteLands ==
  ASSUME PromptInv, NEW q \in Questions, StorageDeletes(q)
  PROVE  PromptInv'
<1>1. /\ UNCHANGED <<object, recalled, worker, question, url, stored, prompt, purged, confirming>>
      /\ storage' = storage \ {q} /\ deleting' = deleting \ {q} /\ q \in deleting
  BY DEF StorageDeletes, cleanupVars, attemptVars
<1>2. TablesOK' /\ QuestionsOK'
  BY <1>1 DEF PromptInv, TablesOK, QuestionsOK
<1>3. \A k \in Questions : IsUnused(k) => IsUnused(k)'
  BY <1>1 DEF IsUnused, HasSource, HasActive, IsReferenced
<1> QED
  BY <1>1, <1>2, <1>3, BankStep

\* A new attempt gets the audio of an active Question.
LEMMA DeliverRight ==
  ASSUME PromptInv, NEW s \in Submissions, NEW q \in Questions, DeliverPrompt(s, q)
  PROVE  PromptInv'
<1>1. /\ UNCHANGED <<object, recalled, worker, question, url, storage, stored, deleting, purged,
                     confirming>>
      /\ prompt' = [prompt EXCEPT ![s] = q]
      /\ question[q].state = "active" /\ question[q].audio = "UPLOADED"
  BY DEF DeliverPrompt, bucketVars, cleanupVars
<1>2. TablesOK' /\ QuestionsOK'
  BY <1>1 DEF PromptInv, TablesOK, QuestionsOK
<1>3. ASSUME NEW k \in Questions, IsUnused(k) PROVE IsUnused(k)'
  <2>1. q # k
    BY <1>1, <1>3 DEF IsUnused, HasActive
  <2>2. ~IsReferenced(k)'
    BY <1>1, <1>3, <2>1 DEF IsUnused, IsReferenced, PromptInv, TablesOK
  <2> QED
    BY <1>1, <1>3, <2>2 DEF IsUnused, HasSource, HasActive
<1> QED
  BY <1>1, <1>2, <1>3, BankStep

LEMMA PurgeRight ==
  ASSUME PromptInv, NEW s \in Submissions, PurgeSubmission(s)
  PROVE  PromptInv'
<1>1. /\ UNCHANGED <<object, recalled, worker, question, url, storage, stored, deleting, prompt,
                     confirming>>
      /\ purged' = purged \cup {s}
  BY DEF PurgeSubmission, bucketVars, cleanupVars
<1>2. TablesOK' /\ QuestionsOK'
  BY <1>1 DEF PromptInv, TablesOK, QuestionsOK
<1>3. \A k \in Questions : IsUnused(k) => IsUnused(k)'
  BY <1>1 DEF IsUnused, HasSource, HasActive, IsReferenced
<1> QED
  BY <1>1, <1>2, <1>3, BankStep

\* The quarantine runs out, and with it every URL from before it.
LEMMA ElapseRight ==
  ASSUME PromptInv, NEW k \in Questions, QuarantineElapses(k)
  PROVE  PromptInv'
<1> DEFINE row == [object[k] EXCEPT !.until = "over"]
<1>1. /\ UNCHANGED <<recalled, worker, question, storage, stored, deleting, prompt, purged,
                     confirming>>
      /\ object' = [object EXCEPT ![k] = row]
      /\ url' = IF url[k] = "old" THEN [url EXCEPT ![k] = "none"] ELSE url
      /\ object[k].until = "ahead"
  BY DEF QuarantineElapses, attemptVars
<1>2. /\ object[k] \in ObjectRow /\ RowOK(k, object[k], url[k])
      /\ object \in [Questions -> ObjectRow]
  BY DEF PromptInv, TablesOK, KeyOK
<1>3. /\ row \in ObjectRow /\ row.until = "over" /\ row.status = object[k].status
      /\ row.attempted = object[k].attempted
  BY <1>2 DEF ObjectRow
<1> HIDE DEF row
<1>4. /\ object'[k] = row /\ \A c \in Questions \ {k} : object'[c] = object[c]
      /\ object' \in [Questions -> ObjectRow]
  BY <1>1, <1>2, <1>3
<1>5. /\ url' \in [Questions -> UrlState] /\ url'[k] # "old"
      /\ \A c \in Questions \ {k} : url'[c] = url[c]
  BY <1>1 DEF PromptInv, TablesOK, UrlState
<1>6. TablesOK' /\ QuestionsOK'
  BY <1>1, <1>4, <1>5 DEF PromptInv, TablesOK, QuestionsOK
<1>7. \A c \in Questions : /\ object'[c].status = object[c].status
                           /\ object'[c].attempted = object[c].attempted
  BY <1>3, <1>4
<1>8. \A c : /\ Doomed(c)' <=> Doomed(c)
             /\ IsUnused(c)' <=> IsUnused(c)
  BY <1>1 DEF Doomed, IsUnused, HasSource, HasActive, IsReferenced
<1>9. ASSUME NEW c \in Questions PROVE KeyOK(c)' /\ DoomOK(c)'
  <2>1. KeyOK(c) /\ DoomOK(c)
    BY DEF PromptInv
  <2>2. RowOK(c, object[c], url[c])'
    <3>1. CASE c = k
      <4>1. object[k].status \notin Final /\ object[k].status # "DELETE_PENDING"
        BY <1>1, <1>2 DEF RowOK
      <4> QED
        BY <1>1, <1>2, <1>3, <1>4, <1>5, <3>1, <4>1 DEF RowOK, Final
    <3>2. CASE c # k
      BY <1>1, <1>4, <1>5, <2>1, <3>2 DEF RowOK, KeyOK
    <3> QED
      BY <3>1, <3>2
  <2> QED
    BY <1>1, <1>7, <1>8, <2>1, <2>2 DEF KeyOK, DoomOK
<1>10. LocksOK' /\ \A w \in Workers : WorkerOK(w)'
  <2>1. LocksOK'
    BY <1>1 DEF PromptInv, LocksOK
  <2>2. ASSUME NEW w \in Workers PROVE WorkerOK(w)'
    BY <1>1, <1>7, <1>8 DEF PromptInv, WorkerOK
  <2> QED
    BY <2>1, <2>2
<1> QED
  BY <1>6, <1>9, <1>10 DEF PromptInv

-----------------------------------------------------------------------------
(* Steps of a cleanup run: they change its row and at most the cleanup row of *)
(* one key.                                                                  *)

\* No other run holds the lock of k.
OthersAway(w, k) == \A v \in Workers \ {w} : ~(worker[v].held /\ worker[v].key = k)

\* What run w may become at key k, with o as its cleanup row.
WorkerFits(w, k, o, row) ==
  /\ row.phase # "idle" => row.key = k
  /\ row.phase \in {"pending", "deleting", "sent"} => o.attempted
  /\ row.held => /\ row.phase \in {"deleting", "sent"}
                 /\ o.status = "DELETE_PENDING"
                 /\ OthersAway(w, k) /\ IsUnused(k)

LEMMA CleanupStep ==
  ASSUME PromptInv, NEW w \in Workers, NEW k \in Questions, NEW o \in ObjectRow, NEW row \in WorkerRow,
         object' = [object EXCEPT ![k] = o], worker' = [worker EXCEPT ![w] = row],
         recalled \subseteq recalled', recalled' \subseteq recalled \cup {k},
         deleting \subseteq deleting', deleting' \subseteq deleting \cup {k},
         deleting' # deleting => Doomed(k),
         url' \in [Questions -> UrlState], \A c \in Questions \ {k} : url'[c] = url[c],
         UNCHANGED <<question, storage, stored, attemptVars, confirming>>,
         o = object[k] \/ OthersAway(w, k),
         RowOK(k, o, url'[k]), object[k].attempted => o.attempted,
         o.status = "DELETED" => IsUnused(k),
         WorkerFits(w, k, o, row),
         (Doomed(k) \/ row.phase = "deleting") /\ k \notin recalled' =>
           IsUnused(k) /\ o.status \in Marked
  PROVE  PromptInv'
<1>1. /\ question' = question /\ storage' = storage /\ stored' = stored
      /\ prompt' = prompt /\ purged' = purged /\ confirming' = confirming
  BY DEF attemptVars
<1>2. /\ object'[k] = o /\ \A c \in Questions \ {k} : object'[c] = object[c]
      /\ object' \in [Questions -> ObjectRow]
  BY DEF PromptInv, TablesOK
<1>3. /\ worker'[w] = row /\ \A v \in Workers \ {w} : worker'[v] = worker[v]
      /\ worker' \in [Workers -> WorkerRow]
  BY DEF PromptInv, TablesOK
<1>4. TablesOK' /\ QuestionsOK'
  BY <1>1, <1>2, <1>3 DEF PromptInv, TablesOK, QuestionsOK
<1>5. \A c : IsUnused(c)' <=> IsUnused(c)
  BY <1>1 DEF IsUnused, HasSource, HasActive, IsReferenced
<1>6. \A c \in Questions \ {k} : Doomed(c)' => Doomed(c)
  BY <1>1, <1>3 DEF Doomed, WorkerFits
<1>7. Doomed(k)' => Doomed(k) \/ row.phase = "deleting"
  BY <1>1, <1>3 DEF Doomed
<1>8. ASSUME NEW c \in Questions PROVE KeyOK(c)' /\ DoomOK(c)'
  <2>0. KeyOK(c) /\ DoomOK(c)
    BY DEF PromptInv
  <2>1. CASE c = k
    <3>1. RowOK(k, object[k], url[k])'
      BY <1>1, <1>2 DEF RowOK
    <3>2. Doomed(k)' => o.attempted
      BY <1>7, <2>0, <2>1 DEF KeyOK, WorkerFits
    <3> QED
      BY <1>2, <1>5, <1>7, <2>1, <3>1, <3>2 DEF KeyOK, DoomOK
  <2>2. CASE c # k
    <3>1. RowOK(c, object[c], url[c])'
      BY <1>1, <1>2, <2>0, <2>2 DEF RowOK, KeyOK
    <3> QED
      BY <1>2, <1>5, <1>6, <2>0, <2>2, <3>1 DEF KeyOK, DoomOK
  <2> QED
    BY <2>1, <2>2
<1>9. ASSUME NEW v \in Workers PROVE WorkerOK(v)'
  <2>1. CASE v = w
    BY <1>2, <1>3, <1>5, <2>1 DEF WorkerOK, WorkerFits
  <2>2. CASE v # w
    <3>1. WorkerOK(v) /\ worker'[v] = worker[v]
      BY <1>3, <2>2 DEF PromptInv
    <3>2. \A c \in Questions : object[c].attempted => object'[c].attempted
      BY <1>2
    <3>3. worker[v].held => object'[worker[v].key] = object[worker[v].key]
      BY <1>2, <2>2, <3>1 DEF OthersAway, WorkerOK
    <3> QED
      BY <1>5, <3>1, <3>2, <3>3 DEF WorkerOK
  <2> QED
    BY <2>1, <2>2
<1>10. LocksOK'
  BY <1>3 DEF PromptInv, LocksOK, WorkerFits, OthersAway
<1> QED
  BY <1>4, <1>8, <1>9, <1>10 DEF PromptInv

\* ... when it leaves the cleanup row and the bucket alone.
LEMMA WorkerStep ==
  ASSUME PromptInv, NEW w \in Workers, NEW k \in Questions, NEW row \in WorkerRow,
         worker' = [worker EXCEPT ![w] = row],
         UNCHANGED <<question, bucketVars, object, recalled, attemptVars, confirming>>,
         WorkerFits(w, k, object[k], row),
         row.phase = "deleting" => Doomed(k)
  PROVE  PromptInv'
<1>1. /\ KeyOK(k) /\ DoomOK(k) /\ object[k] \in ObjectRow
      /\ object \in [Questions -> ObjectRow]
  BY DEF PromptInv, TablesOK
<1>2. object' = [object EXCEPT ![k] = object[k]]
  BY <1>1
<1>3. /\ UNCHANGED <<question, storage, stored, attemptVars, confirming>>
      /\ recalled' = recalled /\ deleting' = deleting
      /\ url' = url /\ url \in [Questions -> UrlState]
  BY DEF bucketVars, PromptInv, TablesOK
<1> QED
  BY <1>1, <1>2, <1>3, CleanupStep DEF KeyOK, DoomOK

LEMMA WorkerFields ==
  ASSUME PromptInv, NEW w \in Workers
  PROVE  /\ worker[w] \in WorkerRow /\ WorkerOK(w)
         /\ worker[w].phase \in {"idle", "listed", "due", "pending", "deleting", "sent"}
         /\ worker[w].existed \in BOOLEAN /\ worker[w].held \in BOOLEAN
         /\ worker[w].key \in Questions \cup {None}
         /\ IdleWorker \in WorkerRow /\ IdleWorker.phase = "idle" /\ IdleWorker.held = FALSE
  BY DEF PromptInv, TablesOK, WorkerRow, IdleWorker

\* A run lists a key.
LEMMA ListRight ==
  ASSUME PromptInv, NEW w \in Workers, NEW k \in Questions, Inventory(w, k) \/ FindDue(w, k)
  PROVE  PromptInv'
<1>1. PICK phase \in {"listed", "due"} :
        worker' = [worker EXCEPT ![w].phase = phase, ![w].key = k]
  BY DEF Inventory, FindDue
<1> DEFINE row == [worker[w] EXCEPT !.phase = phase, !.key = k]
<1>2. worker[w].phase = "idle" /\ worker[w] \in WorkerRow /\ WorkerOK(w)
  BY WorkerFields DEF Inventory, FindDue
<1>3. row \in WorkerRow /\ row.phase = phase /\ row.key = k /\ row.held = worker[w].held
  BY <1>2 DEF WorkerRow
<1>4. worker' = [worker EXCEPT ![w] = row]
  BY <1>1 DEF PromptInv, TablesOK
<1>5. UNCHANGED <<question, bucketVars, object, recalled, attemptVars, confirming>>
  BY DEF Inventory, FindDue
<1>6. ~worker[w].held
  BY <1>2 DEF WorkerOK
<1> HIDE DEF row
<1>7. WorkerFits(w, k, object[k], row) /\ row.phase # "deleting"
  BY <1>3, <1>6 DEF WorkerFits
<1> QED
  BY <1>3, <1>4, <1>5, <1>7, WorkerStep

LEMMA CrashRight ==
  ASSUME PromptInv, NEW w \in Workers, Crash(w)
  PROVE  PromptInv'
<1>1. worker[w].key \in Questions
  BY WorkerFields DEF Crash, WorkerOK
<1>2. /\ worker' = [worker EXCEPT ![w] = IdleWorker]
      /\ UNCHANGED <<question, bucketVars, object, recalled, attemptVars, confirming>>
  BY DEF Crash
<1>3. IdleWorker \in WorkerRow /\ IdleWorker.phase = "idle" /\ IdleWorker.held = FALSE
  BY WorkerFields
<1>4. WorkerFits(w, worker[w].key, object[worker[w].key], IdleWorker)
  BY <1>3 DEF WorkerFits
<1> QED
  BY <1>1, <1>2, <1>3, <1>4, WorkerStep

\* The lock is gone, and the run goes on without it.
LEMMA ExpireRight ==
  ASSUME PromptInv, NEW w \in Workers, TransactionExpires(w)
  PROVE  PromptInv'
<1> DEFINE row == [worker[w] EXCEPT !.held = FALSE]
<1>1. worker[w] \in WorkerRow /\ WorkerOK(w) /\ worker[w].held
  BY WorkerFields DEF TransactionExpires
<1>2. /\ row \in WorkerRow /\ row.held = FALSE /\ row.phase = worker[w].phase
      /\ row.key = worker[w].key
  BY <1>1 DEF WorkerRow
<1>3. PICK k \in Questions : k = worker[w].key
  BY <1>1 DEF WorkerOK
<1>4. worker' = [worker EXCEPT ![w] = row]
  BY DEF TransactionExpires
<1>5. UNCHANGED <<question, bucketVars, object, recalled, attemptVars, confirming>>
  BY DEF TransactionExpires
<1> HIDE DEF row
<1>6. WorkerFits(w, k, object[k], row)
  BY <1>1, <1>2, <1>3 DEF WorkerFits, WorkerOK
<1>7. row.phase = "deleting" => Doomed(k)
  BY <1>2, <1>3 DEF Doomed
<1> QED
  BY <1>2, <1>4, <1>5, <1>6, <1>7, WorkerStep

\* The DELETE goes out for a key that is doomed already.
LEMMA SendRight ==
  ASSUME PromptInv, NEW w \in Workers, SendDelete(w)
  PROVE  PromptInv'
<1>1. worker[w] \in WorkerRow /\ WorkerOK(w) /\ worker[w].phase = "deleting"
  BY WorkerFields DEF SendDelete
<1>2. PICK k \in Questions : k = worker[w].key
  BY <1>1 DEF WorkerOK
<1> DEFINE was == worker[w].key \in storage
           row == [worker[w] EXCEPT !.phase = "sent", !.existed = was]
<1>3. was \in BOOLEAN
  OBVIOUS
<1>4. worker' = [worker EXCEPT ![w] = row]
  BY DEF SendDelete
<1> HIDE DEF was
<1>5. /\ row \in WorkerRow /\ row.phase = "sent" /\ row.key = k
      /\ row.held = worker[w].held
  BY <1>3, <1>1, <1>2 DEF WorkerRow
<1>6. /\ UNCHANGED <<question, storage, stored, attemptVars, confirming>>
      /\ recalled' = recalled /\ deleting' = deleting \cup {k} /\ object' = object
      /\ url' = url /\ url \in [Questions -> UrlState]
  BY <1>2 DEF SendDelete, PromptInv, TablesOK
<1> HIDE DEF row
<1>7. Doomed(k)
  BY <1>1, <1>2 DEF Doomed
<1>8. OthersAway(w, k) \/ ~worker[w].held
  BY <1>2 DEF PromptInv, LocksOK, OthersAway
<1>9. WorkerFits(w, k, object[k], row)
  BY <1>1, <1>2, <1>5, <1>8 DEF WorkerFits, WorkerOK
<1>10. KeyOK(k) /\ DoomOK(k) /\ object[k] \in ObjectRow /\ object' = [object EXCEPT ![k] = object[k]]
  BY <1>6 DEF PromptInv, TablesOK
<1> QED
  BY <1>5, <1>4, <1>6, <1>7, <1>9, <1>10, CleanupStep DEF KeyOK, DoomOK

-----------------------------------------------------------------------------
(* A run writes the cleanup row of its key and lets go of it. *)

LEMMA NoteStep ==
  ASSUME PromptInv, NEW w \in Workers, NEW k \in Questions, NEW o \in ObjectRow,
         object' = [object EXCEPT ![k] = o], worker' = [worker EXCEPT ![w] = IdleWorker],
         recalled \subseteq recalled', recalled' \subseteq recalled \cup {k},
         UNCHANGED <<question, bucketVars, attemptVars, confirming>>,
         o = object[k] \/ OthersAway(w, k),
         RowOK(k, o, url[k]), object[k].attempted => o.attempted,
         o.status = "DELETED" => IsUnused(k),
         Doomed(k) /\ k \notin recalled' => o.status \in Marked
  PROVE  PromptInv'
<1>1. IdleWorker \in WorkerRow /\ IdleWorker.phase = "idle" /\ IdleWorker.held = FALSE
  BY WorkerFields
<1>2. WorkerFits(w, k, o, IdleWorker)
  BY <1>1 DEF WorkerFits
<1>3. Doomed(k) /\ k \notin recalled' => IsUnused(k)
  BY DEF PromptInv, DoomOK
<1>4. /\ UNCHANGED <<question, storage, stored, attemptVars, confirming>>
      /\ deleting' = deleting /\ url' = url /\ url \in [Questions -> UrlState]
  BY DEF bucketVars, PromptInv, TablesOK
<1> QED
  BY <1>1, <1>2, <1>3, <1>4, CleanupStep

LEMMA Unlocked ==
  ASSUME PromptInv, NEW w \in Workers, NEW k, IsUnlocked(k)
  PROVE  OthersAway(w, k)
  BY DEF IsUnlocked, OthersAway

\* What quarantineCandidate writes over a row that is not final.
LEMMA QuarantineAsRight ==
  ASSUME PromptInv, NEW w \in Workers, NEW k \in Questions, k = worker[w].key, IsUnlocked(k),
         NEW status \in {"MISSING", "SKIPPED_REFERENCED", "QUARANTINED", "FAILED"},
         NEW until \in {"null", "ahead"},
         QuarantineAs(w, k, [object[k] EXCEPT !.status = status, !.until = until]),
         until = "ahead" => k \in stored /\ status = "QUARANTINED",
         status = "SKIPPED_REFERENCED" => HasActive(k) \/ IsReferenced(k)
  PROVE  PromptInv'
<1> DEFINE o == [object[k] EXCEPT !.status = status, !.until = until]
<1>1. KeyOK(k) /\ DoomOK(k) /\ object[k] \in ObjectRow /\ object \in [Questions -> ObjectRow]
  BY DEF PromptInv, TablesOK
<1>2. /\ o \in ObjectRow /\ o.status = status /\ o.until = until
      /\ o.attempted = object[k].attempted
  BY <1>1 DEF ObjectRow, CleanupStatus, Final
<1>3. /\ worker' = [worker EXCEPT ![w] = IdleWorker]
      /\ UNCHANGED <<question, storage, stored, deleting, attemptVars, confirming>>
      /\ object' = IF object[k].status \in Final THEN object ELSE [object EXCEPT ![k] = o]
      /\ recalled' = IF object[k].status \notin Final /\ o.status = "QUARANTINED" /\ o.attempted
                     THEN recalled \cup {k} ELSE recalled
      /\ url' = IF object[k].status \notin Final /\ o.status = "QUARANTINED" /\ url[k] = "live"
                THEN [url EXCEPT ![k] = "old"] ELSE url
  BY DEF QuarantineAs
<1> HIDE DEF o
<1>4. OthersAway(w, k)
  BY Unlocked
<1>5. CASE object[k].status \in Final
  <2>1. object' = [object EXCEPT ![k] = object[k]] /\ recalled' = recalled
    BY <1>1, <1>3, <1>5
  <2>2. UNCHANGED <<question, bucketVars, attemptVars, confirming>>
    BY <1>3, <1>5 DEF bucketVars
  <2> QED
    BY <1>1, <1>3, <1>5, <2>1, <2>2, NoteStep DEF KeyOK, Marked
<1>6. CASE object[k].status \notin Final
  <2>1. object' = [object EXCEPT ![k] = o]
    BY <1>3, <1>6
  <2>2. recalled \subseteq recalled' /\ recalled' \subseteq recalled \cup {k}
    BY <1>3
  <2>3. url' \in [Questions -> UrlState] /\ \A c \in Questions \ {k} : url'[c] = url[c]
    BY <1>3 DEF PromptInv, TablesOK, UrlState
  <2>4. RowOK(k, o, url'[k])
    BY <1>1, <1>2 DEF RowOK, KeyOK, Final
  <2>5. ASSUME Doomed(k), k \notin recalled' PROVE IsUnused(k) /\ o.status \in Marked
    <3>1. o.attempted /\ IsUnused(k)
      BY <1>1, <1>2, <2>2, <2>5 DEF KeyOK, DoomOK
    <3>2. status # "QUARANTINED"
      BY <1>2, <1>3, <1>6, <2>5, <3>1
    <3> QED
      BY <1>2, <3>1, <3>2 DEF IsUnused, Marked, Final
  <2>6. IdleWorker \in WorkerRow /\ IdleWorker.phase = "idle" /\ IdleWorker.held = FALSE
    BY WorkerFields
  <2>7. WorkerFits(w, k, o, IdleWorker)
    BY <2>6 DEF WorkerFits
  <2> QED
    BY <1>2, <1>3, <1>4, <2>1, <2>2, <2>3, <2>4, <2>5, <2>6, <2>7, CleanupStep
<1> QED
  BY <1>5, <1>6

LEMMA QuarantineRight ==
  ASSUME PromptInv, NEW w \in Workers, QuarantineCandidate(w) \/ InspectionFails(w)
  PROVE  PromptInv'
<1>1. PICK k \in Questions : k = worker[w].key /\ IsUnlocked(k)
  BY WorkerFields DEF QuarantineCandidate, InspectionFails, WorkerOK
<1>2. storage \subseteq stored
  BY DEF PromptInv, TablesOK
<1>3. CASE QuarantineAs(w, k, [object[k] EXCEPT !.status = "MISSING", !.until = "null"])
  BY <1>1, <1>3, QuarantineAsRight
<1>4. CASE /\ HasActive(k) \/ IsReferenced(k)
           /\ QuarantineAs(w, k, [object[k] EXCEPT !.status = "SKIPPED_REFERENCED", !.until = "null"])
  BY <1>1, <1>4, QuarantineAsRight
<1>5. CASE /\ k \in storage
           /\ QuarantineAs(w, k, [object[k] EXCEPT !.status = "QUARANTINED", !.until = "ahead"])
  BY <1>1, <1>2, <1>5, QuarantineAsRight
<1>6. CASE QuarantineAs(w, k, [object[k] EXCEPT !.status = "FAILED", !.until = "null"])
  BY <1>1, <1>6, QuarantineAsRight
<1> QED
  BY <1>1, <1>3, <1>4, <1>5, <1>6 DEF QuarantineCandidate, InspectionFails

\* The first check: the quarantine is over, so no URL from before it is left.
LEMMA PrepareRight ==
  ASSUME PromptInv, NEW w \in Workers, PrepareDelete(w)
  PROVE  PromptInv'
<1>1. PICK k \in Questions : k = worker[w].key /\ IsUnlocked(k)
  BY WorkerFields DEF PrepareDelete, WorkerOK
<1>2. KeyOK(k) /\ DoomOK(k) /\ object[k] \in ObjectRow /\ object \in [Questions -> ObjectRow]
  BY DEF PromptInv, TablesOK
<1>3. /\ OthersAway(w, k)
      /\ recalled' = recalled
      /\ UNCHANGED <<question, bucketVars, attemptVars, confirming>>
  BY <1>1, Unlocked DEF PrepareDelete
<1> DEFINE open == object[k].status \notin Final /\ object[k].until = "over"
           marked == [object[k] EXCEPT !.status = "DELETE_PENDING", !.attempted = TRUE]
           skipped == [object[k] EXCEPT !.status = "SKIPPED_REFERENCED", !.until = "null"]
<1>4. CASE ~open
  <2>1. object' = [object EXCEPT ![k] = object[k]] /\ worker' = [worker EXCEPT ![w] = IdleWorker]
    BY <1>1, <1>2, <1>4 DEF PrepareDelete
  <2> QED
    BY <1>2, <1>3, <2>1, NoteStep DEF KeyOK, DoomOK
<1>5. CASE open /\ ~IsUnused(k)
  <2>1. object' = [object EXCEPT ![k] = skipped] /\ worker' = [worker EXCEPT ![w] = IdleWorker]
    BY <1>1, <1>5 DEF PrepareDelete
  <2>2. /\ skipped \in ObjectRow /\ skipped.status = "SKIPPED_REFERENCED"
        /\ skipped.until = "null" /\ skipped.attempted = object[k].attempted
    BY <1>2 DEF ObjectRow, CleanupStatus
  <2> HIDE DEF skipped, open
  <2>3. RowOK(k, skipped, url[k])
    BY <1>2, <2>2 DEF KeyOK, RowOK, Final
  <2> QED
    BY <1>2, <1>3, <1>5, <2>1, <2>2, <2>3, NoteStep DEF DoomOK
<1>6. CASE open /\ IsUnused(k)
  <2> DEFINE row == [worker[w] EXCEPT !.phase = "pending"]
  <2>1. object' = [object EXCEPT ![k] = marked] /\ worker' = [worker EXCEPT ![w] = row]
    <3>1. /\ object' = [object EXCEPT ![k].status = "DELETE_PENDING", ![k].attempted = TRUE]
          /\ worker' = [worker EXCEPT ![w].phase = "pending"]
      BY <1>1, <1>6 DEF PrepareDelete
    <3> QED
      BY <3>1 DEF PromptInv, TablesOK
  <2>2. /\ marked \in ObjectRow /\ marked.status = "DELETE_PENDING"
        /\ marked.until = "over" /\ marked.attempted = TRUE
    BY <1>2, <1>6 DEF ObjectRow, CleanupStatus
  <2>3. /\ worker[w] \in WorkerRow /\ worker[w].phase = "due" /\ ~worker[w].held
    BY WorkerFields DEF PrepareDelete, WorkerOK
  <2>4. row \in WorkerRow /\ row.phase = "pending" /\ row.key = k /\ row.held = worker[w].held
    BY <1>1, <2>3 DEF WorkerRow
  <2>5. k \in stored /\ url[k] # "old"
    BY <1>2, <1>6 DEF KeyOK, RowOK
  <2> HIDE DEF marked, row, open
  <2>6. RowOK(k, marked, url[k])
    BY <2>2, <2>5 DEF RowOK, Final
  <2>7. WorkerFits(w, k, marked, row)
    BY <2>2, <2>3, <2>4 DEF WorkerFits
  <2>8. /\ UNCHANGED <<question, storage, stored, attemptVars, confirming>>
        /\ deleting' = deleting /\ url' = url /\ url \in [Questions -> UrlState]
    BY <1>3 DEF bucketVars, PromptInv, TablesOK
  <2> QED
    BY <1>3, <1>6, <2>1, <2>2, <2>4, <2>6, <2>7, <2>8, CleanupStep DEF Marked
<1> QED
  BY <1>4, <1>5, <1>6

LEMMA NoteFailureRight ==
  ASSUME PromptInv, NEW w \in Workers, NoteFailure(w)
  PROVE  PromptInv'
<1>1. PICK k \in Questions : k = worker[w].key /\ IsUnlocked(k)
  BY WorkerFields DEF NoteFailure, WorkerOK
<1>2. KeyOK(k) /\ DoomOK(k) /\ object[k] \in ObjectRow /\ object \in [Questions -> ObjectRow]
  BY DEF PromptInv, TablesOK
<1>3. /\ OthersAway(w, k)
      /\ recalled' = recalled /\ worker' = [worker EXCEPT ![w] = IdleWorker]
      /\ UNCHANGED <<question, bucketVars, attemptVars, confirming>>
  BY <1>1, Unlocked DEF NoteFailure
<1>4. CASE object[k].status \in Final
  <2>1. object' = [object EXCEPT ![k] = object[k]]
    BY <1>1, <1>2, <1>4 DEF NoteFailure
  <2> QED
    BY <1>2, <1>3, <2>1, NoteStep DEF KeyOK, DoomOK
<1>5. CASE object[k].status \notin Final
  <2> DEFINE failed == [object[k] EXCEPT !.status = "FAILED"]
  <2>1. object' = [object EXCEPT ![k] = failed]
    BY <1>1, <1>2, <1>5 DEF NoteFailure
  <2>2. /\ failed \in ObjectRow /\ failed.status = "FAILED"
        /\ failed.until = object[k].until /\ failed.attempted = object[k].attempted
    BY <1>2 DEF ObjectRow, CleanupStatus
  <2> HIDE DEF failed
  <2>3. RowOK(k, failed, url[k])
    BY <1>2, <2>2 DEF KeyOK, RowOK, Final
  <2> QED
    BY <1>2, <1>3, <2>1, <2>2, <2>3, NoteStep DEF Marked
<1> QED
  BY <1>4, <1>5

\* The second check, under the lock: from here on the key is doomed.
LEMMA LockRight ==
  ASSUME PromptInv, NEW w \in Workers, LockForDelete(w)
  PROVE  PromptInv'
<1>1. PICK k \in Questions : k = worker[w].key /\ IsUnlocked(k)
  BY WorkerFields DEF LockForDelete, WorkerOK
<1>2. KeyOK(k) /\ DoomOK(k) /\ object[k] \in ObjectRow /\ object \in [Questions -> ObjectRow]
  BY DEF PromptInv, TablesOK
<1>3. /\ OthersAway(w, k)
      /\ recalled' = recalled
      /\ UNCHANGED <<question, bucketVars, attemptVars, confirming>>
  BY <1>1, Unlocked DEF LockForDelete
<1>4. CASE object[k].status # "DELETE_PENDING"
  <2>1. object' = [object EXCEPT ![k] = object[k]] /\ worker' = [worker EXCEPT ![w] = IdleWorker]
    BY <1>1, <1>2, <1>4 DEF LockForDelete
  <2> QED
    BY <1>2, <1>3, <2>1, NoteStep DEF KeyOK, DoomOK
<1>5. CASE object[k].status = "DELETE_PENDING" /\ ~IsUnused(k)
  <2> DEFINE skipped == [object[k] EXCEPT !.status = "SKIPPED_REFERENCED", !.until = "null"]
  <2>1. object' = [object EXCEPT ![k] = skipped] /\ worker' = [worker EXCEPT ![w] = IdleWorker]
    BY <1>1, <1>5 DEF LockForDelete
  <2>2. /\ skipped \in ObjectRow /\ skipped.status = "SKIPPED_REFERENCED"
        /\ skipped.until = "null" /\ skipped.attempted = object[k].attempted
    BY <1>2 DEF ObjectRow, CleanupStatus
  <2> HIDE DEF skipped
  <2>3. RowOK(k, skipped, url[k])
    BY <1>2, <2>2 DEF KeyOK, RowOK, Final
  <2> QED
    BY <1>2, <1>3, <1>5, <2>1, <2>2, <2>3, NoteStep DEF DoomOK
<1>6. CASE object[k].status = "DELETE_PENDING" /\ IsUnused(k)
  <2> DEFINE row == [worker[w] EXCEPT !.phase = "deleting", !.held = TRUE]
  <2>1. object' = [object EXCEPT ![k] = object[k]] /\ worker' = [worker EXCEPT ![w] = row]
    <3>1. /\ object' = object
          /\ worker' = [worker EXCEPT ![w].phase = "deleting", ![w].held = TRUE]
      BY <1>1, <1>6 DEF LockForDelete
    <3> QED
      BY <1>2, <3>1 DEF PromptInv, TablesOK
  <2>2. worker[w] \in WorkerRow
    BY WorkerFields
  <2>3. row \in WorkerRow /\ row.phase = "deleting" /\ row.key = k /\ row.held = TRUE
    BY <1>1, <2>2 DEF WorkerRow
  <2>4. object[k].attempted
    BY <1>2, <1>6 DEF KeyOK, RowOK
  <2> HIDE DEF row
  <2>5. WorkerFits(w, k, object[k], row) /\ object[k].status # "DELETED"
    BY <1>3, <1>6, <2>3, <2>4 DEF WorkerFits
  <2>6. /\ UNCHANGED <<question, storage, stored, attemptVars, confirming>>
        /\ deleting' = deleting /\ url' = url /\ url \in [Questions -> UrlState]
    BY <1>3 DEF bucketVars, PromptInv, TablesOK
  <2> QED
    BY <1>2, <1>3, <1>6, <2>1, <2>3, <2>5, <2>6, CleanupStep DEF KeyOK, Marked
<1> QED
  BY <1>4, <1>5, <1>6

\* A run that holds the lock ends its deletion.
LEMMA EndRight ==
  ASSUME PromptInv, NEW w \in Workers, ConfirmDelete(w) \/ FailDelete(w)
  PROVE  PromptInv'
<1>1. worker[w].held /\ WorkerOK(w)
  BY WorkerFields DEF ConfirmDelete, FailDelete
<1>2. PICK k \in Questions : k = worker[w].key
  BY <1>1 DEF WorkerOK
<1>3. KeyOK(k) /\ object[k] \in ObjectRow /\ object \in [Questions -> ObjectRow]
  BY DEF PromptInv, TablesOK
<1>4. /\ object[k].attempted /\ object[k].until = "over" /\ IsUnused(k)
      /\ OthersAway(w, k)
  BY <1>1, <1>2, <1>3 DEF WorkerOK, PromptInv, LocksOK, OthersAway, KeyOK, RowOK
<1>5. PICK status \in {"DELETED", "MISSING", "FAILED"} :
        EndDelete(w, status) /\ (status = "DELETED" => k \notin storage)
  BY <1>2 DEF ConfirmDelete, FailDelete
<1> DEFINE o == [object[k] EXCEPT !.status = status,
                                  !.until = IF status = "FAILED" THEN @ ELSE "null"]
<1>6. /\ o \in ObjectRow /\ o.status = status
      /\ o.until = (IF status = "FAILED" THEN object[k].until ELSE "null")
      /\ o.attempted = object[k].attempted
  BY <1>3 DEF ObjectRow, CleanupStatus, Final
<1>7. object' = [object EXCEPT ![k] = o]
  BY <1>2, <1>3, <1>5 DEF EndDelete
<1>8. /\ worker' = [worker EXCEPT ![w] = IdleWorker] /\ recalled' = recalled
      /\ UNCHANGED <<question, bucketVars, attemptVars, confirming>>
  BY <1>5 DEF EndDelete
<1> HIDE DEF o
<1>9. RowOK(k, o, url[k])
  BY <1>3, <1>4, <1>5, <1>6 DEF KeyOK, RowOK, Final
<1>10. o.status \in Marked
  BY <1>6 DEF Marked, Final
<1> QED
  BY <1>4, <1>6, <1>7, <1>8, <1>9, <1>10, NoteStep

-----------------------------------------------------------------------------
(* The invariant and the theorems. *)

LEMMA StutterRight == PromptInv /\ UNCHANGED vars => PromptInv'
<1> SUFFICES ASSUME PromptInv, UNCHANGED vars PROVE PromptInv'
  OBVIOUS
<1>1. /\ UNCHANGED <<object, recalled, worker, question, url, storage, stored, deleting>>
      /\ UNCHANGED <<prompt, purged, confirming>>
  BY DEF vars
<1>2. TablesOK' /\ QuestionsOK'
  BY <1>1 DEF PromptInv, TablesOK, QuestionsOK
<1>3. \A c \in Questions : IsUnused(c) => IsUnused(c)'
  BY <1>1 DEF IsUnused, HasSource, HasActive, IsReferenced
<1> QED
  BY <1>1, <1>2, <1>3, BankStep

LEMMA BankRight ==
  ASSUME PromptInv, Bank
  PROVE  PromptInv'
  BY CreateRight, RetireRight, RestoreRight, PresignRight, BeginConfirmRight, DeliverRight
     DEF Bank

LEMMA CleanupRight ==
  ASSUME PromptInv, NEW w \in Workers, Cleanup(w)
  PROVE  PromptInv'
  BY ListRight, QuarantineRight, PrepareRight, NoteFailureRight, LockRight, SendRight,
     EndRight, ExpireRight, CrashRight
     DEF Cleanup

LEMMA StepHolds == PromptInv /\ [Next]_vars => PromptInv'
<1> SUFFICES ASSUME PromptInv, [Next]_vars PROVE PromptInv'
  OBVIOUS
<1>1. CASE UNCHANGED vars
  BY <1>1, StutterRight
<1>2. CASE Bank
  BY <1>2, BankRight
<1>3. ASSUME NEW r \in Requests, CommitConfirm(r) PROVE PromptInv'
  BY <1>3, CommitConfirmRight
<1>4. ASSUME NEW s \in Submissions, PurgeSubmission(s) PROVE PromptInv'
  BY <1>4, PurgeRight
<1>5. ASSUME NEW k \in Questions, PutAudio(k) \/ QuarantineElapses(k) \/ StorageDeletes(k)
      PROVE  PromptInv'
  BY <1>5, PutRight, ElapseRight, DeleteLands
<1>6. ASSUME NEW w \in Workers, Cleanup(w) PROVE PromptInv'
  BY <1>6, CleanupRight
<1> QED
  BY <1>1, <1>2, <1>3, <1>4, <1>5, <1>6 DEF Next

LEMMA InvariantHolds == Spec => []PromptInv
<1> QED
  BY InitHolds, StepHolds, PTL DEF Spec

\* Every table keeps its types, and only a run at its storage calls holds a lock.
THEOREM PromptTypeSafety == Spec => []TypeOK
<1> QED
  BY TypesFollow, InvariantHolds, PTL

\* For any number of Questions, uploads, attempts and cleanup runs, audio somebody
\* counts on is in the bucket, although every upload of a Question has one key.
THEOREM ProtectedIsKept == Spec => []KeptWhileProtected
<1>1. PromptInv => KeptWhileProtected
  <2> SUFFICES ASSUME PromptInv, NEW k \in stored \ recalled, IsProtected(k), k \notin storage
               PROVE  FALSE
    BY DEF KeptWhileProtected
  <2>1. k \in Questions /\ Doomed(k)
    BY DEF PromptInv, TablesOK, Doomed
  <2>2. IsUnused(k) /\ object[k].status \in Marked
    BY <2>1 DEF PromptInv, DoomOK
  <2> QED
    BY <2>2 DEF IsProtected, IsUnused, HasSource, HasActive, IsReferenced, Marked, Final
<1> QED
  BY <1>1, InvariantHolds, PTL

\* Nobody counts on a deleted object, then or later, and only a URL presigned
\* after its last quarantine began can put one in its place.
THEOREM DeletedStaysUnused == Spec => []DeletedIsUnused
<1>1. PromptInv => DeletedIsUnused
  <2> SUFFICES ASSUME PromptInv, NEW k \in Questions, object[k].status = "DELETED"
               PROVE  ~IsProtected(k) /\ (k \in storage => url[k] = "live")
    BY DEF DeletedIsUnused
  <2>1. KeyOK(k)
    BY DEF PromptInv
  <2> QED
    BY <2>1 DEF KeyOK, RowOK, IsProtected, IsUnused, HasSource, HasActive, IsReferenced
<1> QED
  BY <1>1, InvariantHolds, PTL

\* Only steps that have looked at the status, or hold the lock, write it.
LEMMA FinalStep ==
  ASSUME PromptInv, [Next]_vars, NEW k \in Questions, object[k].status \in Final
  PROVE  object'[k] = object[k]
<1>0. object \in [Questions -> ObjectRow] /\ KeyOK(k)
  BY DEF PromptInv, TablesOK
<1>1. CASE UNCHANGED vars
  BY <1>1 DEF vars
<1>2. CASE Bank
  BY <1>2 DEF Bank, CreateQuestion, RetireQuestion, RestoreQuestion, BeginConfirm,
              CreateQuestionAudioPresignedUpload, DeliverPrompt, cleanupVars
<1>3. ASSUME NEW r \in Requests, CommitConfirm(r) PROVE object'[k] = object[k]
  BY <1>3 DEF CommitConfirm, cleanupVars
<1>4. ASSUME NEW s \in Submissions, PurgeSubmission(s) PROVE object'[k] = object[k]
  BY <1>4 DEF PurgeSubmission, cleanupVars
<1>5. ASSUME NEW c \in Questions, PutAudio(c) \/ StorageDeletes(c) PROVE object'[k] = object[k]
  BY <1>5 DEF PutAudio, StorageDeletes, cleanupVars
<1>6. ASSUME NEW c \in Questions, QuarantineElapses(c) PROVE object'[k] = object[k]
  <2>1. object[k].until = "null"
    BY <1>0 DEF KeyOK, RowOK
  <2> QED
    BY <1>0, <1>6, <2>1 DEF QuarantineElapses
<1>7. ASSUME NEW w \in Workers, Cleanup(w) PROVE object'[k] = object[k]
  <2>1. ASSUME NEW c \in Questions, Inventory(w, c) \/ FindDue(w, c) PROVE object'[k] = object[k]
    BY <2>1 DEF Inventory, FindDue
  <2>2. ASSUME NEW o, QuarantineAs(w, worker[w].key, o) PROVE object'[k] = object[k]
    BY <1>0, <2>2 DEF QuarantineAs
  <2>3. CASE QuarantineCandidate(w) \/ InspectionFails(w)
    BY <2>2, <2>3 DEF QuarantineCandidate, InspectionFails
  <2>4. CASE PrepareDelete(w)
    BY <1>0, <2>4 DEF PrepareDelete
  <2>5. CASE NoteFailure(w)
    BY <1>0, <2>5 DEF NoteFailure
  <2>6. CASE LockForDelete(w)
    BY <1>0, <2>6 DEF LockForDelete, Final
  <2>7. CASE SendDelete(w) \/ TransactionExpires(w) \/ Crash(w)
    BY <2>7 DEF SendDelete, TransactionExpires, Crash
  <2>8. CASE ConfirmDelete(w) \/ FailDelete(w)
    <3>1. worker[w].held /\ WorkerOK(w)
      BY <2>8, WorkerFields DEF ConfirmDelete, FailDelete
    <3>2. worker[w].key # k
      BY <3>1 DEF WorkerOK, Final
    <3>3. PICK status : EndDelete(w, status)
      BY <2>8 DEF ConfirmDelete, FailDelete
    <3> QED
      BY <1>0, <3>2, <3>3 DEF EndDelete
  <2> QED
    BY <1>7, <2>1, <2>3, <2>4, <2>5, <2>6, <2>7, <2>8 DEF Cleanup
<1> QED
  BY <1>1, <1>2, <1>3, <1>4, <1>5, <1>6, <1>7 DEF Next

\* However many runs are at the same key, one of them cannot undo what another
\* has confirmed.
THEOREM FinalIsFinal == Spec => FinalStays
<1>1. ASSUME PromptInv, [Next]_vars
      PROVE  [\A q \in Questions : object[q].status \in Final => object'[q] = object[q]]_vars
  <2>1. \A q \in Questions : object[q].status \in Final => object'[q] = object[q]
    BY <1>1, FinalStep
  <2> QED
    BY <2>1
<1> QED
  BY <1>1, InvariantHolds, PTL DEF Spec, FinalStays
=============================================================================
