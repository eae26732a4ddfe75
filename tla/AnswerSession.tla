----------------------------- MODULE AnswerSession -----------------------------
(***************************************************************************)
(* How the Answers of one Submission come to be: the test pages that       *)
(* record a take per Manifest Entry and upload it in the background        *)
(* (frontend/app/test/[testId]/page.tsx, hooks/useRecording.ts), the       *)
(* storage the takes are PUT to, and the backend that hands out an upload  *)
(* key and verifies what was stored (service/upload.service.ts).           *)
(*                                                                         *)
(* A student may have the Submission open in several pages: a reload whose *)
(* leave beacon was lost, or a fresh tab, resumes it.  A request that its  *)
(* page gave up on may still be executed, and a PUT may land late.  An     *)
(* upload key is a number: each presign takes the next one, and what is    *)
(* PUT under a key is one take for ever.                                   *)
(***************************************************************************)
EXTENDS Naturals, FiniteSets

CONSTANTS N,          \* the number of Manifest Entries
          Pages,      \* the page instances that may open the Submission
          Requests,   \* bound: presign and confirm requests in flight
          MaxKeys,    \* bound: upload keys handed out
          Ends,       \* the ways a recorded take may turn out, of Kinds
          Together    \* bound: the entries several open pages may record

ASSUME NAssumption == N \in Nat \ {0}
ASSUME PagesAssumption == 0 \notin Pages
ASSUME MaxKeysAssumption == MaxKeys \in Nat
ASSUME EndsAssumption == Ends \subseteq {"good", "cut", "short", "empty"}

VARIABLES
  status,     \* of the Submission, as far as recording is concerned
  answer,     \* Manifest Entry -> its Answer row
  flags,      \* Manifest Entry -> device flags raised on its Answer
  issued,     \* how many upload keys were handed out
  object,     \* upload key -> what happened under it
  request,    \* presign and confirm requests
  phase,      \* page -> where its slot flow is
  slot,       \* page -> the entry it is at
  recorder,   \* page -> the state of useRecording
  take,       \* page -> entry -> the take held in page memory
  upload      \* page -> entry -> the state of its upload

rowVars == <<status, answer, flags>>
pageVars == <<phase, slot, recorder>>
vars == <<status, answer, flags, issued, object, request,
          phase, slot, recorder, take, upload>>

\* The Manifest Entries, in delivery order, and the upload keys.
Entries == 1..N
Keys == 1..MaxKeys

(***************************************************************************)
(* What a take amounts to: "cut" is 8 KB or more with a failure reported   *)
(* by the page (device, connection, recorder, under 2 seconds), "short"    *)
(* less than 8 KB, "empty" nothing at all.  The page reports a failure for *)
(* all but "good".  mixed: the other entries it contains footage of.       *)
(***************************************************************************)
Kinds == {"good", "cut", "short", "empty"}
NoTake == [page |-> 0, from |-> 0, mixed |-> {}, kind |-> "none"]
Takes == [page : Pages, from : Entries, mixed : SUBSET Entries, kind : Kinds]

\* The Answer row: key 0 while there is none; PENDING until it is verified.
Answers == [key : 0..MaxKeys, verified : BOOLEAN, failed : BOOLEAN]
NoAnswer == [key |-> 0, verified |-> FALSE, failed |-> FALSE]

\* A key handed out, a PUT on its way, an object in storage.
Objects == [entry : Entries \cup {0}, page : Pages \cup {0}, take : Takes \cup {NoTake},
            state : {"none", "issued", "sent", "stored"}]
NoObject == [entry |-> 0, page |-> 0, take |-> NoTake, state |-> "none"]

\* seen is the key a confirmation inspected; awaited says that its page still waits.
RequestRows == [op : {"presign", "confirm"}, page : Pages, entry : Entries,
                awaited : BOOLEAN, failed : BOOLEAN, seen : 0..MaxKeys]
             \cup {[op |-> "idle"]}
Idle == [op |-> "idle"]

\* A page instance is opened once; a reload is another instance.
Phases == {"new", "closed", "preparation", "recording", "finalizing", "completed",
           "done"}

\* listening is the entry whose recorder has the current generation, 0 for none;
\* events are the recorders whose last data and stop events are still to be
\* delivered; mixed is whose data chunksRef has besides that of listening.
Recorders == [listening : Entries \cup {0}, live : BOOLEAN, events : SUBSET Entries,
              mixed : SUBSET Entries, blob : Takes \cup {NoTake}, failed : BOOLEAN]
NoRecorder == [listening |-> 0, live |-> FALSE, events |-> {}, mixed |-> {},
               blob |-> NoTake, failed |-> FALSE]

Uploads == [state : {"idle", "ready", "failed", "signing", "uploading", "verifying",
                     "uploaded"}, key : 0..MaxKeys]
NoUpload == [state |-> "idle", key |-> 0]

TypeOK ==
  /\ status \in {"IN_PROGRESS", "ABANDONED", "COMPLETED"}
  /\ answer \in [Entries -> Answers]
  /\ flags \in [Entries -> Nat]
  /\ issued \in 0..MaxKeys
  /\ object \in [Keys -> Objects]
  /\ request \in [Requests -> RequestRows]
  /\ phase \in [Pages -> Phases]
  /\ slot \in [Pages -> Entries]
  /\ recorder \in [Pages -> Recorders]
  /\ take \in [Pages -> [Entries -> Takes \cup {NoTake}]]
  /\ upload \in [Pages -> [Entries -> Uploads]]

Init ==
  /\ status = "IN_PROGRESS"
  /\ answer = [e \in Entries |-> NoAnswer]
  /\ flags = [e \in Entries |-> 0]
  /\ issued = 0
  /\ object = [k \in Keys |-> NoObject]
  /\ request = [r \in Requests |-> Idle]
  /\ phase = [p \in Pages |-> "new"]
  /\ slot = [p \in Pages |-> 1]
  /\ recorder = [p \in Pages |-> NoRecorder]
  /\ take = [p \in Pages |-> [e \in Entries |-> NoTake]]
  /\ upload = [p \in Pages |-> [e \in Entries |-> NoUpload]]

IsOpen == status = "IN_PROGRESS"

IsVerified(e) == answer[e].verified

IsLive(p) == phase[p] \notin {"new", "closed"}

Others(p) == Pages \ {p}

IsFailure(t) == t.kind # "good"

-----------------------------------------------------------------------------
(* The page: opening, leaving, and the slot flow. *)

First(S) == CHOOSE e \in S : \A f \in S : e <= f

\* The page resumes at the first entry without a verified Answer.
OpenPage(p) ==
  LET open == {e \in Entries : ~IsVerified(e)} IN
  /\ phase[p] = "new"
  /\ IsOpen
  /\ \A q \in Others(p) : IsLive(q) => slot[q] \in Together \/ phase[q] = "preparation"
  /\ phase' = [phase EXCEPT ![p] = IF open = {} THEN "completed" ELSE "preparation"]
  /\ slot' = [slot EXCEPT ![p] = IF open = {} THEN 1 ELSE First(open)]
  /\ upload' = [upload EXCEPT ![p] =
       [e \in Entries |-> [NoUpload EXCEPT !.state = IF IsVerified(e) THEN "uploaded" ELSE "idle"]]]
  /\ UNCHANGED <<rowVars, issued, object, request, recorder, take>>

\* Leaving, reloading, or being told by a Heartbeat that the Submission ended:
\* the takes in memory are gone, the requests go on without a page.
ClosePage(p) ==
  /\ IsLive(p)
  /\ phase' = [phase EXCEPT ![p] = "closed"]
  /\ slot' = [slot EXCEPT ![p] = 1]
  /\ recorder' = [recorder EXCEPT ![p] = NoRecorder]
  /\ take' = [take EXCEPT ![p] = [e \in Entries |-> NoTake]]
  /\ upload' = [upload EXCEPT ![p] = [e \in Entries |-> NoUpload]]
  /\ request' = [r \in Requests |->
       IF request[r] # Idle /\ request[r].page = p
         THEN [request[r] EXCEPT !.awaited = FALSE] ELSE request[r]]
  /\ UNCHANGED <<rowVars, issued, object>>

TakeOf(p, e, mixed, kind) == [page |-> p, from |-> e, mixed |-> mixed, kind |-> kind]

\* Preparation ends: the recorder starts, or a missing device or a recorder that
\* cannot start hands back an empty failed take at once.
StartRecording(p, starts) ==
  /\ phase[p] = "preparation"
  /\ slot[p] \in Together \/ \A q \in Others(p) : ~IsLive(q)
  /\ phase' = [phase EXCEPT ![p] = "recording"]
  /\ recorder' = [recorder EXCEPT ![p] =
       [listening |-> IF starts THEN slot[p] ELSE 0, live |-> starts, events |-> @.events,
        mixed |-> {}, blob |-> IF starts THEN NoTake ELSE TakeOf(p, slot[p], {}, "empty"),
        failed |-> ~starts]]
  /\ UNCHANGED <<rowVars, issued, object, request, slot, take, upload>>

\* MediaRecorder.stop(): the stop event follows later.
Stopped(p, rec) ==
  IF rec.live THEN [rec EXCEPT !.live = FALSE, !.events = @ \cup {slot[p]}] ELSE rec

\* The recording reached its maximum duration.
StopRecording(p) ==
  /\ phase[p] = "recording"
  /\ recorder[p].live
  /\ recorder' = [recorder EXCEPT ![p] = Stopped(p, @)]
  /\ UNCHANGED <<rowVars, issued, object, request, phase, slot, take, upload>>

\* failTake: a device or the connection is lost while the answer is recording.
FailTake(p) ==
  /\ phase[p] = "recording"
  /\ phase' = [phase EXCEPT ![p] = "finalizing"]
  /\ recorder' = [recorder EXCEPT ![p] = [Stopped(p, @) EXCEPT !.failed = TRUE]]
  /\ UNCHANGED <<rowVars, issued, object, request, slot, take, upload>>

\* The recorder reports an error: the take is finished at once, and the recorder
\* stopped, whose last events come later.
RecorderError(p, kind) ==
  LET rec == recorder[p] IN
  /\ rec.live
  /\ kind # "good" /\ (rec.mixed # {} => kind # "empty")
  /\ recorder' = [recorder EXCEPT ![p] =
       [Stopped(p, rec) EXCEPT !.listening = 0, !.blob = TakeOf(p, slot[p], rec.mixed, kind)]]
  /\ UNCHANGED <<rowVars, issued, object, request, phase, slot, take, upload>>

\* Mutant: a stop event is taken for the current recorder's, whoever it is from.
StopEventOfAny(p, e, kind) ==
  /\ e \in recorder[p].events
  /\ recorder' = [recorder EXCEPT ![p].events = @ \ {e}, ![p].listening = 0,
                                  ![p].blob = TakeOf(p, e, {}, kind)]
  /\ UNCHANGED <<rowVars, issued, object, request, phase, slot, take, upload>>

\* A stopped recorder delivers its last data, then its stop event, whose finish()
\* ends the take only of the current generation.  ondataavailable has no such
\* guard: data of an earlier recorder goes into what is being recorded, if there
\* is any data and anything is.
StopEvent(p, e, kind) ==
  LET rec == recorder[p] IN
  /\ e \in rec.events
  /\ \/ /\ rec.listening = e
        /\ rec.mixed # {} => kind # "empty"
        /\ recorder' = [recorder EXCEPT ![p].events = @ \ {e}, ![p].listening = 0,
                          ![p].blob = TakeOf(p, e, rec.mixed, kind)]
     \/ /\ rec.listening # e
        /\ \E data \in {{}, {e}} :
             /\ rec.listening = 0 => data = {}
             /\ recorder' = [recorder EXCEPT ![p].events = @ \ {e}, ![p].mixed = @ \cup data]
  /\ UNCHANGED <<rowVars, issued, object, request, phase, slot, take, upload>>

\* The blob arrived: keep the take, queue its upload, reset the recorder and
\* advance at once.
QueueTake(p) ==
  LET e == slot[p]
      blob == recorder[p].blob
  IN
  /\ phase[p] \in {"recording", "finalizing"}
  /\ blob # NoTake
  /\ take' = [take EXCEPT ![p][e] =
       IF recorder[p].failed /\ blob.kind = "good" THEN [blob EXCEPT !.kind = "cut"] ELSE blob]
  /\ upload' = [upload EXCEPT ![p][e] = [state |-> "ready", key |-> 0]]
  /\ recorder' = [recorder EXCEPT ![p] =
       [NoRecorder EXCEPT !.events = Stopped(p, recorder[p]).events]]
  /\ IF e < N
       THEN phase' = [phase EXCEPT ![p] = "preparation"] /\ slot' = [slot EXCEPT ![p] = e + 1]
       ELSE phase' = [phase EXCEPT ![p] = "completed"] /\ UNCHANGED slot
  /\ UNCHANGED <<rowVars, issued, object, request>>

-----------------------------------------------------------------------------
(* The background upload of one take: presign, PUT, confirm. *)

\* What a page learns from the answer to one of its requests.
Learns(r, e, new) ==
  upload' = IF request[r].awaited THEN [upload EXCEPT ![request[r].page][e] = new] ELSE upload

\* The take is forgotten once the server reported a verified Answer.
LearnsVerified(r, e) ==
  /\ Learns(r, e, [state |-> "uploaded", key |-> 0])
  /\ take' = IF request[r].awaited THEN [take EXCEPT ![request[r].page][e] = NoTake] ELSE take

LearnsFailure(r, e) ==
  /\ Learns(r, e, [state |-> "failed", key |-> 0])
  /\ UNCHANGED take

Finished(r) == request' = [request EXCEPT ![r] = Idle]

\* An attempt of startUpload, the first or a retry.
StartUpload(p, e, r) ==
  /\ upload[p][e].state \in {"ready", "failed"}
  /\ request[r] = Idle
  /\ upload' = [upload EXCEPT ![p][e] = [state |-> "signing", key |-> 0]]
  /\ request' = [request EXCEPT ![r] =
       [op |-> "presign", page |-> p, entry |-> e, awaited |-> TRUE, failed |-> FALSE, seen |-> 0]]
  /\ UNCHANGED <<rowVars, issued, object, pageVars, take>>

\* The row createPresignedUpload leaves: PENDING under the new key.
PendingAnswer(key) == [key |-> key, verified |-> FALSE, failed |-> FALSE]

\* Mutant: the eligibility of the Submission was read before its row was locked.
MayPresignStale(e) == ~IsVerified(e)

MayPresign(e) == IsOpen /\ ~IsVerified(e)

\* createPresignedUpload under the Submission lock hands out a new key and makes
\* the Answer PENDING; a page that still waits sends its PUT at once.
CreatePresignedUpload(r) ==
  LET e == request[r].entry
      p == request[r].page
      key == issued + 1
  IN
  /\ request[r].op = "presign"
  /\ MayPresign(e)
  /\ key \in Keys
  /\ issued' = key
  /\ answer' = [answer EXCEPT ![e] = PendingAnswer(key)]
  /\ object' = [object EXCEPT ![key] =
       [entry |-> e, page |-> p,
        take |-> IF request[r].awaited THEN take[p][e] ELSE NoTake,
        state |-> IF request[r].awaited THEN "sent" ELSE "issued"]]
  /\ Learns(r, e, [state |-> "uploading", key |-> key])
  /\ Finished(r)
  /\ UNCHANGED <<status, flags, pageVars, take>>

\* The presign is refused: the Answer is verified already, which the page takes
\* for success, or the Submission is no longer open.
RefusePresign(r) ==
  LET e == request[r].entry IN
  /\ request[r].op = "presign"
  /\ ~MayPresign(e)
  /\ IF IsOpen THEN LearnsVerified(r, e) ELSE LearnsFailure(r, e)
  /\ Finished(r)
  /\ UNCHANGED <<rowVars, issued, object, pageVars>>

\* A PUT lands, whether or not anybody still waits for it.
PutLands(k) ==
  /\ object[k].state = "sent"
  /\ object' = [object EXCEPT ![k].state = "stored"]
  /\ UNCHANGED <<rowVars, issued, request, pageVars, take, upload>>

PutFails(p, e) ==
  /\ upload[p][e].state = "uploading"
  /\ upload' = [upload EXCEPT ![p][e] = [state |-> "failed", key |-> 0]]
  /\ UNCHANGED <<rowVars, issued, object, request, pageVars, take>>

\* Mutant: the page reports no failure with its take.
ReportsNothing(t) == t.kind = "none"

\* The failure a page reports with its confirmation.
ReportsFailure(t) == IsFailure(t)

\* The PUT succeeded: the page asks for its verification.
RequestConfirmation(p, e, r) ==
  /\ upload[p][e].state = "uploading"
  /\ object[upload[p][e].key].state = "stored"
  /\ request[r] = Idle
  /\ upload' = [upload EXCEPT ![p][e] = [state |-> "verifying", key |-> 0]]
  /\ request' = [request EXCEPT ![r] =
       [op |-> "confirm", page |-> p, entry |-> e, awaited |-> TRUE,
        failed |-> ReportsFailure(take[p][e]), seen |-> 0]]
  /\ UNCHANGED <<rowVars, issued, object, pageVars, take>>

-----------------------------------------------------------------------------
(* confirmUpload: the Answer is read and its object inspected, then the row *)
(* is updated under the Submission lock.                                    *)

\* What the inspection accepts: a stored object, not empty unless the page
\* reported a failure.
IsAcceptable(r, k) ==
  /\ object[k].state = "stored"
  /\ object[k].take.kind # "empty" \/ request[r].failed

\* An object under 8 KB is a failure whatever the page says.
InspectUpload(r) ==
  LET e == request[r].entry
      k == answer[e].key
  IN
  /\ request[r].op = "confirm"
  /\ request[r].seen = 0
  /\ IsOpen
  /\ k # 0
  /\ ~IsVerified(e)
  /\ IsAcceptable(r, k)
  /\ request' = [request EXCEPT ![r].seen = k,
       ![r].failed = @ \/ object[k].take.kind \in {"short", "empty"}]
  /\ UNCHANGED <<rowVars, issued, object, pageVars, take, upload>>

\* It is answered before any inspection: already verified, or an error.
AnswerConfirmEarly(r) ==
  LET e == request[r].entry IN
  /\ request[r].op = "confirm"
  /\ request[r].seen = 0
  /\ \/ IsOpen /\ IsVerified(e) /\ LearnsVerified(r, e)
     \/ ~IsOpen /\ LearnsFailure(r, e)
     \/ IsOpen /\ ~IsVerified(e) /\ (answer[e].key = 0 \/ ~IsAcceptable(r, answer[e].key))
          /\ LearnsFailure(r, e)
  /\ Finished(r)
  /\ UNCHANGED <<rowVars, issued, object, pageVars>>

\* Mutants: the update is not bound to the inspected key, or not to PENDING.
StillPendingAnyKey(r) == IsOpen /\ ~IsVerified(request[r].entry)
StillTheKey(r) == IsOpen /\ answer[request[r].entry].key = request[r].seen

\* The row the confirmation may update: PENDING under the inspected key.
StillPending(r) ==
  /\ IsOpen
  /\ answer[request[r].entry].key = request[r].seen
  /\ ~IsVerified(request[r].entry)

\* The Answer and its flag commit together.
ConfirmUpload(r) ==
  LET e == request[r].entry IN
  /\ request[r].op = "confirm"
  /\ request[r].seen # 0
  /\ StillPending(r)
  /\ answer' = [answer EXCEPT ![e].verified = TRUE, ![e].failed = request[r].failed]
  /\ flags' = IF request[r].failed THEN [flags EXCEPT ![e] = @ + 1] ELSE flags
  /\ LearnsVerified(r, e)
  /\ Finished(r)
  /\ UNCHANGED <<status, issued, object, pageVars>>

\* Mutant: a confirmation that updated nothing is reported as a success.
RefuseConfirmQuietly(r) ==
  /\ request[r].op = "confirm"
  /\ request[r].seen # 0
  /\ ~StillPending(r)
  /\ LearnsVerified(r, request[r].entry)
  /\ Finished(r)
  /\ UNCHANGED <<rowVars, issued, object, pageVars>>

\* Nothing was updated: a verified Answer is a success, anything else an error.
RefuseConfirm(r) ==
  LET e == request[r].entry IN
  /\ request[r].op = "confirm"
  /\ request[r].seen # 0
  /\ ~StillPending(r)
  /\ IF IsVerified(e) THEN LearnsVerified(r, e) ELSE LearnsFailure(r, e)
  /\ Finished(r)
  /\ UNCHANGED <<rowVars, issued, object, pageVars>>

\* The page stops waiting; the request is lost, or executed later all the same.
GiveUp(r, lost) ==
  /\ request[r] # Idle
  /\ request[r].awaited \/ lost
  /\ LearnsFailure(r, request[r].entry)
  /\ request' = [request EXCEPT ![r] = IF lost THEN Idle ELSE [@ EXCEPT !.awaited = FALSE]]
  /\ UNCHANGED <<rowVars, issued, object, pageVars>>

-----------------------------------------------------------------------------
(* The end of the recording. *)

\* The page asks once all its uploads are verified; the server checks the exact
\* set of verified Answers itself.  The answer may be lost: a repeat is a no-op.
CompleteSubmission(p, answered) ==
  /\ phase[p] = "completed"
  /\ \A e \in Entries : upload[p][e].state = "uploaded"
  /\ \/ status = "IN_PROGRESS" /\ \A e \in Entries : IsVerified(e)
     \/ status = "COMPLETED" /\ answered
  /\ status' = "COMPLETED"
  /\ phase' = IF answered THEN [phase EXCEPT ![p] = "done"] ELSE phase
  /\ UNCHANGED <<answer, flags, issued, object, request, slot, recorder,
                 take, upload>>

\* The leave beacon, the student, or the sweeper.
AbandonSubmission ==
  /\ IsOpen
  /\ status' = "ABANDONED"
  /\ UNCHANGED <<answer, flags, issued, object, request, pageVars, take, upload>>

PageNext(p) ==
  \/ OpenPage(p)
  \/ ClosePage(p)
  \/ \E starts \in BOOLEAN : StartRecording(p, starts)
  \/ StopRecording(p)
  \/ FailTake(p)
  \/ \E kind \in Ends : RecorderError(p, kind)
  \/ \E e \in Entries, kind \in Ends : StopEvent(p, e, kind)
  \/ QueueTake(p)
  \/ \E e \in Entries, r \in Requests :
       StartUpload(p, e, r) \/ RequestConfirmation(p, e, r)
  \/ \E e \in Entries : PutFails(p, e)
  \/ \E answered \in BOOLEAN : CompleteSubmission(p, answered)

RequestNext(r) ==
  \/ CreatePresignedUpload(r)
  \/ RefusePresign(r)
  \/ InspectUpload(r)
  \/ AnswerConfirmEarly(r)
  \/ ConfirmUpload(r)
  \/ RefuseConfirm(r)
  \/ \E lost \in BOOLEAN : GiveUp(r, lost)

Next ==
  \/ \E p \in Pages : PageNext(p)
  \/ \E r \in Requests : RequestNext(r)
  \/ \E k \in Keys : PutLands(k)
  \/ AbandonSubmission

Spec == Init /\ [][Next]_vars

-----------------------------------------------------------------------------
(* Invariants. *)

\* A verified Answer names an object that is stored, however presigns and
\* confirmations of several pages and retries crossed (the storageKey in the
\* WHERE of confirmUpload).
VerifiedIsStored ==
  \A e \in Entries : IsVerified(e) => object[answer[e].key].state = "stored"

\* Every failed Answer has exactly one device flag and no other has any, though
\* the same confirmation may be executed twice (confirmUpload).
OneFlagPerFailure ==
  \A e \in Entries :
    flags[e] = IF IsVerified(e) /\ answer[e].failed THEN 1 ELSE 0

\* The take of an entry, held by a page or PUT to storage, is the one recorded for
\* it: no late event of an earlier recorder ends or replaces it.  Footage of
\* another entry gets into it only from an earlier one of the same page whose own
\* take is a failure, as long as the page holds that: no stop, loss of a device or
\* of the connection, or failed start lets data through (useRecording).
TakeIsOfItsEntry ==
  /\ \A p \in Pages, e \in Entries : take[p][e] # NoTake =>
       /\ take[p][e].from = e
       /\ \A f \in take[p][e].mixed :
            f < e /\ (take[p][f] # NoTake => IsFailure(take[p][f]))
  /\ \A k \in Keys : object[k].take # NoTake => object[k].take.from = object[k].entry

\* A take is forgotten only when its entry has a verified Answer: an open page
\* holds a take, or there is an Answer, for every entry it has passed.
TakeIsNeverLost ==
  \A p \in Pages, e \in Entries :
    /\ IsLive(p) /\ (e < slot[p] \/ phase[p] \in {"completed", "done"}) =>
         take[p][e] # NoTake \/ IsVerified(e)
    /\ upload[p][e].state = "uploaded" => IsVerified(e)

\* When one page alone uploads an entry, its Answer is failed exactly when the
\* take was: no retry, lost response or late request drops the report.
FailureIsReported ==
  \A e \in Entries :
    /\ IsVerified(e)
    /\ \A k, l \in 1..issued :
         object[k].entry = e /\ object[l].entry = e => object[k].page = object[l].page
    => (answer[e].failed <=> IsFailure(object[answer[e].key].take))

-----------------------------------------------------------------------------
(* Action properties. *)

\* Evidence is final: a verified Answer never changes again, and after the end
\* of the recording no Answer and no device flag does, whatever requests are
\* still on their way.
EvidenceIsFinal ==
  [][/\ \A e \in Entries : IsVerified(e) => answer'[e] = answer[e]
     /\ status # "IN_PROGRESS" => UNCHANGED <<answer, flags>>]_vars

-----------------------------------------------------------------------------
(* What a comment says, and the code does not always do.                  *)

\* upload.service.ts, confirmUpload: a failure the client reports marks the
\* Answer and opens a flag.  Stated for every verified Answer.
FailedTakeIsFlagged ==
  \A e \in Entries :
    IsVerified(e) /\ IsFailure(object[answer[e].key].take) => flags[e] = 1
=============================================================================
