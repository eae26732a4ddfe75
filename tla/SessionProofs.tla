---------------------------- MODULE SessionProofs ----------------------------
(***************************************************************************)
(* The Answers of a Submission, for any number of entries, pages, requests  *)
(* and upload keys.                                                         *)
(*                                                                         *)
(* Rows: a key is used when it is handed out and not before, so that what   *)
(* an inspection has found stored stays stored (KeysInOrder).  Flow: what   *)
(* the recorder of a page holds or waits for is of the slot the page is at  *)
(* (FlowOK).  Footage: whatever late data may still bring in is of an       *)
(* earlier entry whose take is a failure (MixInv).                          *)
(* Held: an entry a page has passed has a take or an Answer                 *)
(* (TakeIsNeverLost itself, because no step undoes a verified Answer).      *)
(* Reports: a page has one take per entry, so that whatever it PUTs and      *)
(* reports for the entry is about that take (ReportInv).                    *)
(***************************************************************************)
EXTENDS AnswerSession, WellFoundedInduction, TLAPS

-----------------------------------------------------------------------------
(* What each kind of step leaves alone. *)

LEMMA PagesLeaveRows ==
  ASSUME NEW p \in Pages, PageNext(p)
  PROVE  /\ UNCHANGED <<answer, flags, issued, object>>
         /\ UNCHANGED status \/ status' = "COMPLETED"
<1> USE DEF rowVars, pageVars
<1>1. CASE OpenPage(p) \/ ClosePage(p) \/ \E starts \in BOOLEAN : StartRecording(p, starts)
  BY <1>1 DEF OpenPage, ClosePage, StartRecording
<1>2. CASE StopRecording(p) \/ FailTake(p) \/ QueueTake(p)
  BY <1>2 DEF StopRecording, FailTake, QueueTake
<1>3. CASE \/ \E kind \in Ends : RecorderError(p, kind)
           \/ \E e \in Entries, kind \in Ends : StopEvent(p, e, kind)
  BY <1>3 DEF RecorderError, StopEvent
<1>4. CASE \/ \E e \in Entries, r \in Requests :
                StartUpload(p, e, r) \/ RequestConfirmation(p, e, r)
           \/ \E e \in Entries : PutFails(p, e)
  BY <1>4 DEF StartUpload, RequestConfirmation, PutFails
<1>5. CASE \E answered \in BOOLEAN : CompleteSubmission(p, answered)
  BY <1>5 DEF CompleteSubmission
<1> QED
  BY <1>1, <1>2, <1>3, <1>4, <1>5 DEF PageNext

LEMMA RequestsLeavePages ==
  ASSUME NEW r \in Requests, RequestNext(r)
  PROVE  /\ UNCHANGED <<status, phase, slot, recorder>>
         /\ UNCHANGED <<issued, object>> \/ CreatePresignedUpload(r)
         /\ UNCHANGED answer \/ CreatePresignedUpload(r) \/ ConfirmUpload(r)
         /\ UNCHANGED flags \/ ConfirmUpload(r)
<1> USE DEF rowVars, pageVars
<1>1. CASE CreatePresignedUpload(r) \/ RefusePresign(r)
  BY <1>1 DEF CreatePresignedUpload, RefusePresign
<1>2. CASE InspectUpload(r) \/ AnswerConfirmEarly(r)
  BY <1>2 DEF InspectUpload, AnswerConfirmEarly
<1>3. CASE ConfirmUpload(r) \/ RefuseConfirm(r)
  BY <1>3 DEF ConfirmUpload, RefuseConfirm
<1>4. CASE \E lost \in BOOLEAN : GiveUp(r, lost)
  BY <1>4 DEF GiveUp
<1> QED
  BY <1>1, <1>2, <1>3, <1>4 DEF RequestNext

LEMMA OthersLeave ==
  ASSUME (\E k \in Keys : PutLands(k)) \/ AbandonSubmission \/ UNCHANGED vars
  PROVE  /\ UNCHANGED <<answer, flags, issued, request, phase, slot, recorder, take, upload>>
         /\ UNCHANGED object \/ \E k \in Keys : PutLands(k)
         /\ UNCHANGED status \/ status' = "ABANDONED"
  BY DEF PutLands, AbandonSubmission, vars, rowVars, pageVars

-----------------------------------------------------------------------------
(* The Answers, their flags and the objects. *)

RowTypes ==
  /\ status \in {"IN_PROGRESS", "ABANDONED", "COMPLETED"}
  /\ answer \in [Entries -> Answers]
  /\ flags \in [Entries -> Nat]
  /\ issued \in 0..MaxKeys
  /\ object \in [Keys -> Objects]

\* No key is used before it is handed out, and what an inspection has seen is stored.
KeysInOrder ==
  /\ \A k \in Keys : k > issued => object[k] = NoObject
  /\ \A r \in Requests :
       request[r].op = "confirm" /\ request[r].seen # 0 =>
         request[r].seen \in Keys /\ object[request[r].seen].state = "stored"

\* A verified Answer has a key.
VerifiedHasKey == \A e \in Entries : IsVerified(e) => answer[e].key \in Keys

RowInv ==
  TypeOK /\ KeysInOrder /\ VerifiedHasKey /\ VerifiedIsStored /\ OneFlagPerFailure

\* A request under way, as opposed to an idle slot.
Requested ==
  [op : {"presign", "confirm"}, page : Pages, entry : Entries,
   awaited : BOOLEAN, failed : BOOLEAN, seen : 0..MaxKeys]

LEMMA RequestIsTyped ==
  ASSUME TypeOK, NEW r \in Requests,
         request[r].op \in {"presign", "confirm"} \/ request[r] # Idle
  PROVE  request[r] \in Requested
  BY DEF TypeOK, RequestRows, Requested, Idle

\* What an upload key handed out does to the rows.
LEMMA PresignRows ==
  ASSUME TypeOK, NEW r \in Requests, CreatePresignedUpload(r)
  PROVE  /\ RowTypes'
         /\ IsOpen /\ ~IsVerified(request[r].entry) /\ request[r].entry \in Entries
         /\ \A e \in Entries \ {request[r].entry} : answer'[e] = answer[e]
         /\ ~answer'[request[r].entry].verified
         /\ issued + 1 \in Keys /\ issued' = issued + 1
         /\ \A k \in Keys \ {issued + 1} : object'[k] = object[k]
<1>0. RowTypes /\ request[r] \in Requested
  BY RequestIsTyped DEF TypeOK, RowTypes, CreatePresignedUpload
<1>1. /\ IsOpen /\ ~IsVerified(request[r].entry) /\ issued + 1 \in Keys
      /\ issued' = issued + 1
      /\ answer' = [answer EXCEPT ![request[r].entry] = PendingAnswer(issued + 1)]
      /\ UNCHANGED <<status, flags>>
  BY DEF CreatePresignedUpload, MayPresign
<1>2. PICK t \in Takes \cup {NoTake}, state \in {"sent", "issued"} :
        object' = [object EXCEPT ![issued + 1] =
          [entry |-> request[r].entry, page |-> request[r].page, take |-> t, state |-> state]]
  <2>1. take[request[r].page][request[r].entry] \in Takes \cup {NoTake}
    BY <1>0 DEF TypeOK, Requested
  <2> QED
    BY <2>1 DEF CreatePresignedUpload
<1>3. PendingAnswer(issued + 1) \in Answers /\ ~PendingAnswer(issued + 1).verified
  BY <1>1, MaxKeysAssumption DEF PendingAnswer, Answers, Keys
<1>4. [entry |-> request[r].entry, page |-> request[r].page, take |-> t, state |-> state]
        \in Objects
  BY <1>0 DEF Objects, Requested
<1>5. request[r].entry \in Entries /\ issued' \in 0..MaxKeys
  BY <1>0, <1>1, MaxKeysAssumption DEF Requested, Keys
<1>6. object' \in [Keys -> Objects] /\ \A k \in Keys \ {issued + 1} : object'[k] = object[k]
  BY <1>0, <1>1, <1>2, <1>4 DEF RowTypes
<1>7. /\ answer' \in [Entries -> Answers]
      /\ \A e \in Entries \ {request[r].entry} : answer'[e] = answer[e]
      /\ ~answer'[request[r].entry].verified
  BY <1>0, <1>1, <1>3, <1>5 DEF RowTypes
<1> QED
  BY <1>0, <1>1, <1>5, <1>6, <1>7 DEF RowTypes

LEMMA ConfirmRows ==
  ASSUME TypeOK, NEW r \in Requests, ConfirmUpload(r)
  PROVE  LET e == request[r].entry IN
         /\ RowTypes'
         /\ IsOpen /\ ~IsVerified(e) /\ e \in Entries
         /\ answer[e].key = request[r].seen /\ request[r].op = "confirm" /\ request[r].seen # 0
         /\ answer'[e] = [answer[e] EXCEPT !.verified = TRUE, !.failed = request[r].failed]
         /\ \A f \in Entries \ {e} : answer'[f] = answer[f] /\ flags'[f] = flags[f]
         /\ flags'[e] = IF request[r].failed THEN flags[e] + 1 ELSE flags[e]
         /\ UNCHANGED <<issued, object>>
<1> DEFINE e == request[r].entry
<1>0. RowTypes /\ request[r] \in Requested
  BY RequestIsTyped DEF TypeOK, RowTypes, ConfirmUpload
<1>1. /\ IsOpen /\ ~IsVerified(e) /\ answer[e].key = request[r].seen
      /\ request[r].op = "confirm" /\ request[r].seen # 0
      /\ answer' = [answer EXCEPT ![e].verified = TRUE, ![e].failed = request[r].failed]
      /\ flags' = IF request[r].failed THEN [flags EXCEPT ![e] = @ + 1] ELSE flags
      /\ UNCHANGED <<status, issued, object>>
  BY DEF ConfirmUpload, StillPending
<1>2. e \in Entries /\ request[r].failed \in BOOLEAN
  BY <1>0 DEF Requested
<1> HIDE DEF e
<1>3. /\ answer' \in [Entries -> Answers]
      /\ answer'[e] = [answer[e] EXCEPT !.verified = TRUE, !.failed = request[r].failed]
      /\ \A f \in Entries \ {e} : answer'[f] = answer[f]
  BY <1>0, <1>1, <1>2 DEF RowTypes, Answers
<1>4. /\ flags' \in [Entries -> Nat]
      /\ flags'[e] = IF request[r].failed THEN flags[e] + 1 ELSE flags[e]
      /\ \A f \in Entries \ {e} : flags'[f] = flags[f]
  BY <1>0, <1>1, <1>2 DEF RowTypes
<1> QED
  BY <1>0, <1>1, <1>2, <1>3, <1>4 DEF RowTypes, e

LEMMA PutRows ==
  ASSUME TypeOK, NEW k \in Keys, PutLands(k)
  PROVE  /\ object' \in [Keys -> Objects]
         /\ object[k].state = "sent"
         /\ object'[k] = [object[k] EXCEPT !.state = "stored"]
         /\ \A l \in Keys \ {k} : object'[l] = object[l]
  BY DEF PutLands, TypeOK, Objects

LEMMA RowTypesNext ==
  ASSUME TypeOK, [Next]_vars
  PROVE  RowTypes'
<1>0. RowTypes
  BY DEF TypeOK, RowTypes
<1>1. ASSUME NEW p \in Pages, PageNext(p) PROVE RowTypes'
  BY <1>0, <1>1, PagesLeaveRows DEF RowTypes
<1>2. ASSUME NEW r \in Requests, RequestNext(r) PROVE RowTypes'
  BY <1>0, <1>2, RequestsLeavePages, PresignRows, ConfirmRows DEF RowTypes
<1>3. ASSUME (\E k \in Keys : PutLands(k)) \/ AbandonSubmission \/ UNCHANGED vars PROVE RowTypes'
  BY <1>0, <1>3, OthersLeave, PutRows DEF RowTypes
<1> QED
  BY <1>1, <1>2, <1>3 DEF Next

-----------------------------------------------------------------------------
(* The requests. *)

\* What an inspection has seen in the row of a request, new or kept.
SeenIsStored(row) ==
  row.op = "confirm" /\ row.seen # 0 => row.seen \in Keys /\ object[row.seen].state = "stored"

RequestsOK == \A q \in Requests : request[q] \in RequestRows /\ SeenIsStored(request[q])

\* The requests after a step, relative to the objects before it.
RequestsRight ==
  /\ request' \in [Requests -> RequestRows]
  /\ \A q \in Requests : SeenIsStored(request'[q])

LEMMA RequestStep ==
  ASSUME TypeOK, RequestsOK, NEW r \in Requests, NEW row \in RequestRows,
         request' = [request EXCEPT ![r] = row], SeenIsStored(row)
  PROVE  RequestsRight
<1>1. request'[r] = row /\ \A q \in Requests \ {r} : request'[q] = request[q]
  BY DEF TypeOK
<1> QED
  BY <1>1 DEF TypeOK, RequestsOK, RequestsRight

LEMMA PageRequests ==
  ASSUME TypeOK, RequestsOK, NEW p \in Pages, PageNext(p)
  PROVE  RequestsRight
<1>0. request \in [Requests -> RequestRows]
  BY DEF TypeOK
<1>1. ASSUME UNCHANGED request PROVE RequestsRight
  BY <1>0, <1>1 DEF RequestsOK, RequestsRight
<1>2. ASSUME ClosePage(p) PROVE RequestsRight
  <2>1. ASSUME NEW q \in Requests
        PROVE  request'[q] \in RequestRows /\ SeenIsStored(request'[q])
    <3>1. CASE request'[q] = request[q]
      BY <3>1 DEF RequestsOK
    <3>2. CASE request[q] # Idle /\ request'[q] = [request[q] EXCEPT !.awaited = FALSE]
      <4>1. request[q] \in Requested
        BY <3>2, RequestIsTyped
      <4>2. /\ request'[q] \in Requested /\ request'[q].op = request[q].op
            /\ request'[q].seen = request[q].seen
        BY <3>2, <4>1 DEF Requested
      <4> QED
        BY <4>2 DEF RequestsOK, SeenIsStored, Requested, RequestRows
    <3> QED
      BY <1>2, <3>1, <3>2 DEF ClosePage
  <2>2. request' = [q \in Requests |-> request'[q]]
    BY <1>2 DEF ClosePage
  <2> QED
    BY <2>1, <2>2 DEF RequestsRight
<1>3. ASSUME NEW e \in Entries, NEW r \in Requests,
             StartUpload(p, e, r) \/ RequestConfirmation(p, e, r)
      PROVE  RequestsRight
  <2>1. PICK op \in {"presign", "confirm"}, failed \in BOOLEAN :
          request' = [request EXCEPT ![r] =
            [op |-> op, page |-> p, entry |-> e, awaited |-> TRUE, failed |-> failed, seen |-> 0]]
    BY <1>3 DEF StartUpload, RequestConfirmation, ReportsFailure, IsFailure
  <2> DEFINE row == [op |-> op, page |-> p, entry |-> e, awaited |-> TRUE,
                     failed |-> failed, seen |-> 0]
  <2>2. row \in RequestRows /\ SeenIsStored(row)
    BY MaxKeysAssumption DEF RequestRows, SeenIsStored
  <2> HIDE DEF row
  <2> QED
    BY <2>1, <2>2, RequestStep DEF row
<1>4. CASE OpenPage(p) \/ \E starts \in BOOLEAN : StartRecording(p, starts)
  BY <1>1, <1>4 DEF OpenPage, StartRecording
<1>5. CASE StopRecording(p) \/ FailTake(p) \/ QueueTake(p)
  BY <1>1, <1>5 DEF StopRecording, FailTake, QueueTake
<1>6. CASE \/ \E kind \in Ends : RecorderError(p, kind)
           \/ \E e \in Entries, kind \in Ends : StopEvent(p, e, kind)
  BY <1>1, <1>6 DEF RecorderError, StopEvent
<1>7. CASE \/ \E e \in Entries : PutFails(p, e)
           \/ \E answered \in BOOLEAN : CompleteSubmission(p, answered)
  BY <1>1, <1>7 DEF PutFails, CompleteSubmission
<1> QED
  BY <1>2, <1>3, <1>4, <1>5, <1>6, <1>7 DEF PageNext

LEMMA RequestRequests ==
  ASSUME TypeOK, RequestsOK, NEW r \in Requests, RequestNext(r)
  PROVE  RequestsRight
<1>1. ASSUME Finished(r) PROVE RequestsRight
  <2>1. Idle \in RequestRows /\ SeenIsStored(Idle)
    BY DEF Idle, RequestRows, SeenIsStored
  <2> QED
    BY <1>1, <2>1, RequestStep DEF Finished
<1>2. ASSUME InspectUpload(r) PROVE RequestsRight
  <2> DEFINE k == answer[request[r].entry].key
             row == [request[r] EXCEPT !.seen = k,
                       !.failed = @ \/ object[k].take.kind \in {"short", "empty"}]
  <2>1. request[r] \in Requested
    BY <1>2, RequestIsTyped DEF InspectUpload
  <2>2. k \in Keys /\ object[k].state = "stored"
    <3>1. k \in 0..MaxKeys /\ k # 0
      BY <1>2, <2>1 DEF InspectUpload, TypeOK, Answers, Requested
    <3>2. IsAcceptable(r, k)
      BY <1>2 DEF InspectUpload
    <3> QED
      BY <3>1, <3>2, MaxKeysAssumption DEF IsAcceptable, Keys
  <2>3. row \in Requested /\ row.seen = k /\ row.op = "confirm"
    <3>1. k \in 0..MaxKeys
      BY <2>2, MaxKeysAssumption DEF Keys
    <3>2. request[r].failed \in BOOLEAN /\ request[r].op = "confirm"
      BY <1>2, <2>1 DEF InspectUpload, Requested
    <3>3. row.failed \in BOOLEAN
      BY <2>1, <3>2 DEF Requested
    <3> QED
      BY <2>1, <3>1, <3>2, <3>3 DEF Requested
  <2>4. request' = [request EXCEPT ![r] = row]
    BY <1>2 DEF InspectUpload, TypeOK
  <2>5. row \in RequestRows /\ SeenIsStored(row)
    BY <2>2, <2>3 DEF RequestRows, Requested, SeenIsStored
  <2> HIDE DEF row
  <2> QED
    BY <2>4, <2>5, RequestStep
<1>3. ASSUME NEW lost \in BOOLEAN, GiveUp(r, lost) PROVE RequestsRight
  <2>1. CASE lost
    BY <1>1, <1>3, <2>1 DEF GiveUp, Finished
  <2>2. CASE ~lost
    <3> DEFINE row == [request[r] EXCEPT !.awaited = FALSE]
    <3>1. request[r] \in Requested
      BY <1>3, RequestIsTyped DEF GiveUp
    <3>2. row \in Requested /\ row.seen = request[r].seen /\ row.op = request[r].op
      BY <3>1 DEF Requested
    <3>3. request' = [request EXCEPT ![r] = row]
      BY <1>3, <2>2 DEF GiveUp, TypeOK
    <3>4. row \in RequestRows /\ SeenIsStored(row)
      BY <3>2 DEF RequestRows, Requested, RequestsOK, SeenIsStored
    <3> HIDE DEF row
    <3> QED
      BY <3>3, <3>4, RequestStep
  <2> QED
    BY <2>1, <2>2
<1>4. CASE CreatePresignedUpload(r) \/ RefusePresign(r) \/ AnswerConfirmEarly(r)
  BY <1>1, <1>4 DEF CreatePresignedUpload, RefusePresign, AnswerConfirmEarly
<1>5. CASE ConfirmUpload(r) \/ RefuseConfirm(r)
  BY <1>1, <1>5 DEF ConfirmUpload, RefuseConfirm
<1> QED
  BY <1>2, <1>3, <1>4, <1>5 DEF RequestNext

LEMMA StoredStays ==
  ASSUME TypeOK, KeysInOrder, [Next]_vars
  PROVE  /\ \A k \in Keys : object[k].state = "stored" => object'[k].state = "stored"
         /\ \A k \in Keys : k > issued' => object'[k] = NoObject
<1>0. /\ issued \in 0..MaxKeys /\ object \in [Keys -> Objects]
      /\ \A k \in Keys : k > issued => object[k] = NoObject
      /\ Keys \subseteq Nat /\ 0..MaxKeys \subseteq Nat
  BY MaxKeysAssumption DEF TypeOK, KeysInOrder, Keys
<1>1. ASSUME UNCHANGED <<issued, object>>
      PROVE  /\ \A k \in Keys : object[k].state = "stored" => object'[k].state = "stored"
             /\ \A k \in Keys : k > issued' => object'[k] = NoObject
  BY <1>0, <1>1
<1>2. ASSUME NEW r \in Requests, CreatePresignedUpload(r)
      PROVE  /\ \A k \in Keys : object[k].state = "stored" => object'[k].state = "stored"
             /\ \A k \in Keys : k > issued' => object'[k] = NoObject
  <2>1. /\ issued + 1 \in Keys /\ issued' = issued + 1
        /\ \A k \in Keys \ {issued + 1} : object'[k] = object[k]
    BY <1>2, PresignRows
  <2>2. object[issued + 1].state # "stored"
    BY <1>0, <2>1 DEF NoObject
  <2> QED
    BY <1>0, <2>1, <2>2
<1>3. ASSUME NEW l \in Keys, PutLands(l)
      PROVE  /\ \A k \in Keys : object[k].state = "stored" => object'[k].state = "stored"
             /\ \A k \in Keys : k > issued' => object'[k] = NoObject
  <2>1. /\ object[l].state = "sent"
        /\ \A k \in Keys \ {l} : object'[k] = object[k]
        /\ object'[l].state = "stored"
        /\ UNCHANGED issued
    BY <1>0, <1>3, PutRows DEF PutLands, Objects
  <2>2. ~(l > issued)
    BY <1>0, <2>1 DEF NoObject
  <2> QED
    BY <1>0, <2>1, <2>2
<1> QED
  BY <1>1, <1>2, <1>3, PagesLeaveRows, RequestsLeavePages, OthersLeave DEF Next

LEMMA RequestsNext ==
  ASSUME TypeOK, KeysInOrder, [Next]_vars
  PROVE  request' \in [Requests -> RequestRows] /\ KeysInOrder'
<1>1. RequestsOK
  BY DEF TypeOK, KeysInOrder, RequestsOK, SeenIsStored
<1>2. RequestsRight
  <2>1. CASE \E p \in Pages : PageNext(p)
    BY <1>1, <2>1, PageRequests
  <2>2. CASE \E r \in Requests : RequestNext(r)
    BY <1>1, <2>2, RequestRequests
  <2>3. CASE (\E k \in Keys : PutLands(k)) \/ AbandonSubmission \/ UNCHANGED vars
    BY <1>1, <2>3, OthersLeave DEF TypeOK, RequestsOK, RequestsRight
  <2> QED
    BY <2>1, <2>2, <2>3 DEF Next
<1> QED
  BY <1>2, StoredStays DEF RequestsRight, SeenIsStored, KeysInOrder

-----------------------------------------------------------------------------
(* The slot flow of the pages. *)

\* The entry a page resumes at.
LEMMA FirstIsMember ==
  ASSUME NEW S \in SUBSET Entries, S # {}
  PROVE  First(S) \in S /\ \A f \in S : First(S) <= f
<1> DEFINE R == OpToRel(<, Nat)
<1>0. S \subseteq Nat
  BY NAssumption DEF Entries
<1>1. PICK n \in S : \A m \in S : ~(<<m, n>> \in R)
  <2>1. IsWellFoundedOn(R, Nat)
    BY NatLessThanWellFounded
  <2> HIDE DEF R
  <2> QED
    BY <1>0, <2>1, WFMin
<1>2. \A m \in S : n <= m
  <2> SUFFICES ASSUME NEW m \in S PROVE n <= m
    OBVIOUS
  <2>1. <<m, n>> \notin R
    BY <1>1
  <2>2. R = {ss \in Nat \X Nat : ss[1] < ss[2]}
    BY Zenon DEF OpToRel
  <2> HIDE DEF R
  <2> QED
    BY <1>0, <2>1, <2>2
<1> QED
  BY <1>2 DEF First

\* What the recorder holds is for the slot the page is at.
RecorderOK(rec, s) ==
  /\ rec.listening # 0 => rec.listening = s
  /\ rec.blob # NoTake => rec.blob.from = s

FlowOK ==
  \A p \in Pages :
    RecorderOK(recorder[p], slot[p]) /\ (phase[p] = "new" => recorder[p] = NoRecorder)

FlowRight ==
  /\ phase' \in [Pages -> Phases] /\ slot' \in [Pages -> Entries]
  /\ recorder' \in [Pages -> Recorders]
  /\ FlowOK'

LEMMA NoRecorderRight ==
  NoRecorder \in Recorders /\ \A s \in Entries : RecorderOK(NoRecorder, s)
  BY DEF NoRecorder, Recorders, RecorderOK

LEMMA FlowStep ==
  ASSUME TypeOK, FlowOK, NEW p \in Pages,
         NEW ph \in Phases, ph # "new", NEW s \in Entries, NEW rec \in Recorders,
         phase' = [phase EXCEPT ![p] = ph], slot' = [slot EXCEPT ![p] = s],
         recorder' = [recorder EXCEPT ![p] = rec], RecorderOK(rec, s)
  PROVE  FlowRight
<1>0. /\ phase \in [Pages -> Phases] /\ slot \in [Pages -> Entries]
      /\ recorder \in [Pages -> Recorders]
  BY DEF TypeOK
<1>1. phase'[p] = ph /\ slot'[p] = s /\ recorder'[p] = rec
  BY <1>0
<1>2. ASSUME NEW q \in Pages \ {p}
      PROVE  phase'[q] = phase[q] /\ slot'[q] = slot[q] /\ recorder'[q] = recorder[q]
  BY <1>0
<1>3. FlowOK'
  BY <1>1, <1>2 DEF FlowOK, RecorderOK
<1> QED
  BY <1>0, <1>3 DEF FlowRight

LEMMA FlowUnchanged ==
  ASSUME TypeOK, FlowOK, UNCHANGED <<phase, slot, recorder>>
  PROVE  FlowRight
  BY DEF TypeOK, FlowOK, FlowRight, RecorderOK

LEMMA StoppedRight ==
  ASSUME TypeOK, NEW p \in Pages, NEW rec \in Recorders
  PROVE  /\ Stopped(p, rec) \in Recorders
         /\ Stopped(p, rec).listening = rec.listening /\ Stopped(p, rec).blob = rec.blob
         /\ Stopped(p, rec).mixed = rec.mixed /\ Stopped(p, rec).live = FALSE
         /\ Stopped(p, rec).events = IF rec.live THEN rec.events \cup {slot[p]} ELSE rec.events
  BY DEF TypeOK, Stopped, Recorders

LEMMA PageFlow ==
  ASSUME TypeOK, FlowOK, NEW p \in Pages, PageNext(p)
  PROVE  FlowRight
<1>0. /\ phase \in [Pages -> Phases] /\ slot \in [Pages -> Entries]
      /\ recorder \in [Pages -> Recorders]
      /\ phase[p] \in Phases /\ slot[p] \in Entries /\ recorder[p] \in Recorders
      /\ RecorderOK(recorder[p], slot[p])
      /\ phase = [phase EXCEPT ![p] = phase[p]] /\ slot = [slot EXCEPT ![p] = slot[p]]
      /\ recorder = [recorder EXCEPT ![p] = recorder[p]]
  BY DEF TypeOK, FlowOK
<1>1. ASSUME OpenPage(p) PROVE FlowRight
  <2> DEFINE open == {e \in Entries : ~IsVerified(e)}
             s == IF open = {} THEN 1 ELSE First(open)
             ph == IF open = {} THEN "completed" ELSE "preparation"
  <2>1. s \in Entries
    <3>1. open \in SUBSET Entries /\ 1 \in Entries
      BY NAssumption DEF Entries
    <3> HIDE DEF open
    <3> QED
      BY <3>1, FirstIsMember
  <2>2. /\ phase' = [phase EXCEPT ![p] = ph] /\ slot' = [slot EXCEPT ![p] = s]
        /\ UNCHANGED recorder /\ phase[p] = "new"
    BY <1>1 DEF OpenPage
  <2>3. recorder[p] = NoRecorder
    BY <2>2 DEF FlowOK
  <2>4. ph \in Phases /\ ph # "new"
    BY DEF Phases
  <2> HIDE DEF s, ph
  <2> QED
    BY <1>0, <2>1, <2>2, <2>3, <2>4, NoRecorderRight, FlowStep
<1>2. ASSUME ClosePage(p) PROVE FlowRight
  <2>1. "closed" \in Phases /\ 1 \in Entries
    BY NAssumption DEF Phases, Entries
  <2> QED
    BY <1>2, <2>1, NoRecorderRight, FlowStep DEF ClosePage
<1>3. ASSUME NEW starts \in BOOLEAN, StartRecording(p, starts) PROVE FlowRight
  <2> DEFINE blob == TakeOf(p, slot[p], {}, "empty")
             rec == [listening |-> IF starts THEN slot[p] ELSE 0, live |-> starts,
                     events |-> recorder[p].events, mixed |-> {},
                     blob |-> IF starts THEN NoTake ELSE blob, failed |-> ~starts]
  <2>1. blob \in Takes /\ blob.from = slot[p]
    BY <1>0 DEF TakeOf, Takes, Kinds
  <2>2. /\ rec \in Recorders
        /\ rec.listening = IF starts THEN slot[p] ELSE 0
        /\ rec.blob = IF starts THEN NoTake ELSE blob
    BY <1>0, <2>1 DEF Recorders
  <2>3. recorder' = [recorder EXCEPT ![p] = rec] /\ UNCHANGED slot
        /\ phase' = [phase EXCEPT ![p] = "recording"]
    BY <1>0, <1>3 DEF StartRecording
  <2> HIDE DEF rec
  <2>4. RecorderOK(rec, slot[p])
    BY <2>1, <2>2 DEF RecorderOK
  <2> QED
    BY <1>0, <2>2, <2>3, <2>4, FlowStep DEF Phases
<1>4. ASSUME StopRecording(p) PROVE FlowRight
  <2>1. /\ recorder' = [recorder EXCEPT ![p] = Stopped(p, recorder[p])]
        /\ UNCHANGED <<phase, slot>> /\ phase[p] = "recording"
    BY <1>0, <1>4 DEF StopRecording, pageVars
  <2>2. RecorderOK(Stopped(p, recorder[p]), slot[p])
    BY <1>0, StoppedRight DEF RecorderOK
  <2> QED
    BY <1>0, <2>1, <2>2, StoppedRight, FlowStep
<1>5. ASSUME FailTake(p) PROVE FlowRight
  <2> DEFINE rec == [Stopped(p, recorder[p]) EXCEPT !.failed = TRUE]
  <2>1. /\ recorder' = [recorder EXCEPT ![p] = rec]
        /\ phase' = [phase EXCEPT ![p] = "finalizing"] /\ UNCHANGED slot
    BY <1>0, <1>5 DEF FailTake
  <2>2. Stopped(p, recorder[p]) \in Recorders
    BY <1>0, StoppedRight
  <2>3. /\ rec \in Recorders /\ rec.listening = Stopped(p, recorder[p]).listening
        /\ rec.blob = Stopped(p, recorder[p]).blob
    BY <2>2 DEF Recorders
  <2> HIDE DEF rec
  <2>4. RecorderOK(rec, slot[p])
    BY <1>0, <2>3, StoppedRight DEF RecorderOK
  <2> QED
    BY <1>0, <2>1, <2>3, <2>4, FlowStep DEF Phases
<1>6. ASSUME NEW kind \in Ends, RecorderError(p, kind), phase[p] # "new" PROVE FlowRight
  <2> DEFINE blob == TakeOf(p, slot[p], recorder[p].mixed, kind)
             rec == [Stopped(p, recorder[p]) EXCEPT !.listening = 0, !.blob = blob]
  <2>1. recorder' = [recorder EXCEPT ![p] = rec] /\ UNCHANGED <<phase, slot>>
    BY <1>0, <1>6 DEF RecorderError
  <2>2. Stopped(p, recorder[p]) \in Recorders /\ blob \in Takes /\ blob.from = slot[p]
    BY <1>0, StoppedRight, EndsAssumption DEF TakeOf, Takes, Kinds, Recorders
  <2> HIDE DEF blob
  <2>3. rec \in Recorders /\ rec.listening = 0 /\ rec.blob = blob
    BY <2>2 DEF Recorders
  <2> HIDE DEF rec
  <2>4. RecorderOK(rec, slot[p])
    BY <2>2, <2>3 DEF RecorderOK
  <2> QED
    BY <1>0, <1>6, <2>1, <2>3, <2>4, FlowStep
<1>7. ASSUME NEW e \in Entries, NEW kind \in Ends, StopEvent(p, e, kind), phase[p] # "new"
      PROVE  FlowRight
  <2> DEFINE blob == TakeOf(p, e, recorder[p].mixed, kind)
             heard == [recorder[p] EXCEPT !.events = @ \ {e}, !.listening = 0, !.blob = blob]
             late(data) == [recorder[p] EXCEPT !.events = @ \ {e}, !.mixed = @ \cup data]
  <2>1. UNCHANGED <<phase, slot>>
    BY <1>7 DEF StopEvent
  <2>2. CASE recorder[p].listening = e /\ recorder' = [recorder EXCEPT ![p] = heard]
    <3>1. blob \in Takes /\ blob.from = e
      BY <1>0, EndsAssumption DEF TakeOf, Takes, Kinds, Recorders
    <3> HIDE DEF blob
    <3>2. heard \in Recorders /\ heard.listening = 0 /\ heard.blob = blob
      BY <1>0, <3>1 DEF Recorders
    <3>3. e = slot[p]
      BY <1>0, <2>2, NAssumption DEF RecorderOK, Entries
    <3> HIDE DEF heard
    <3>4. RecorderOK(heard, slot[p])
      BY <3>1, <3>2, <3>3 DEF RecorderOK
    <3> QED
      BY <1>0, <1>7, <2>1, <2>2, <3>2, <3>4, FlowStep
  <2>3. ASSUME NEW data \in {{}, {e}}, recorder' = [recorder EXCEPT ![p] = late(data)]
        PROVE  FlowRight
    <3>1. /\ late(data) \in Recorders /\ late(data).listening = recorder[p].listening
          /\ late(data).blob = recorder[p].blob
      BY <1>0 DEF Recorders
    <3> HIDE DEF late
    <3>2. RecorderOK(late(data), slot[p])
      BY <1>0, <3>1 DEF RecorderOK
    <3> QED
      BY <1>0, <1>7, <2>1, <2>3, <3>1, <3>2, FlowStep
  <2>4. \/ recorder[p].listening = e /\ recorder' = [recorder EXCEPT ![p] = heard]
        \/ \E data \in {{}, {e}} : recorder' = [recorder EXCEPT ![p] = late(data)]
    <3>1. \A data \in {{}, {e}} :
            [recorder EXCEPT ![p].events = @ \ {e}, ![p].mixed = @ \cup data]
              = [recorder EXCEPT ![p] = late(data)]
      BY <1>0
    <3>2. [recorder EXCEPT ![p].events = @ \ {e}, ![p].listening = 0, ![p].blob = blob]
            = [recorder EXCEPT ![p] = heard]
      BY <1>0
    <3>3. CASE recorder[p].listening = e
      BY <1>7, <3>2, <3>3 DEF StopEvent
    <3>4. CASE recorder[p].listening # e
      <4> HIDE DEF late
      <4> QED
        BY <1>7, <3>1, <3>4 DEF StopEvent
    <3> QED
      BY <3>3, <3>4
  <2> QED
    BY <2>2, <2>3, <2>4
<1>8. ASSUME QueueTake(p) PROVE FlowRight
  <2> DEFINE rec == [NoRecorder EXCEPT !.events = Stopped(p, recorder[p]).events]
             s == IF slot[p] < N THEN slot[p] + 1 ELSE slot[p]
             ph == IF slot[p] < N THEN "preparation" ELSE "completed"
  <2>1. Stopped(p, recorder[p]).events \in SUBSET Entries
    BY <1>0, StoppedRight DEF Recorders
  <2>2. rec \in Recorders /\ rec.listening = 0 /\ rec.blob = NoTake
    BY <2>1 DEF Recorders, NoRecorder
  <2>3. recorder' = [recorder EXCEPT ![p] = rec]
    BY <1>8 DEF QueueTake
  <2>4. phase' = [phase EXCEPT ![p] = ph] /\ slot' = [slot EXCEPT ![p] = s]
    BY <1>0, <1>8 DEF QueueTake
  <2>5. s \in Entries /\ ph \in Phases /\ ph # "new"
    BY <1>0, NAssumption DEF Entries, Phases
  <2> HIDE DEF rec, s, ph
  <2>6. RecorderOK(rec, s)
    BY <2>2 DEF RecorderOK
  <2> QED
    BY <2>2, <2>3, <2>4, <2>5, <2>6, FlowStep
<1>9. ASSUME NEW answered \in BOOLEAN, CompleteSubmission(p, answered) PROVE FlowRight
  <2>1. UNCHANGED <<slot, recorder>> /\ phase[p] = "completed"
        /\ (phase' = [phase EXCEPT ![p] = "done"] \/ UNCHANGED phase)
    BY <1>9 DEF CompleteSubmission
  <2> QED
    BY <1>0, <2>1, FlowStep, FlowUnchanged DEF Phases
<1>10. CASE \/ \E e \in Entries, r \in Requests :
                 StartUpload(p, e, r) \/ RequestConfirmation(p, e, r)
            \/ \E e \in Entries : PutFails(p, e)
  BY <1>10, FlowUnchanged DEF StartUpload, RequestConfirmation, PutFails, pageVars
<1>11. phase[p] = "new" => ~recorder[p].live /\ recorder[p].events = {}
  BY DEF FlowOK, NoRecorder
<1>12. ASSUME \/ \E kind \in Ends : RecorderError(p, kind)
              \/ \E e \in Entries, kind \in Ends : StopEvent(p, e, kind)
       PROVE  phase[p] # "new"
  BY <1>11, <1>12 DEF RecorderError, StopEvent
<1> QED
  BY <1>1, <1>2, <1>3, <1>4, <1>5, <1>6, <1>7, <1>8, <1>9, <1>10, <1>12 DEF PageNext

LEMMA FlowNext ==
  ASSUME TypeOK, FlowOK, [Next]_vars
  PROVE  FlowRight
  BY PageFlow, FlowUnchanged, RequestsLeavePages, OthersLeave DEF Next

-----------------------------------------------------------------------------
(* The takes in memory and their uploads. *)

\* A verified Answer stays as it is.
LEMMA VerifiedStays ==
  ASSUME TypeOK, [Next]_vars
  PROVE  /\ \A e \in Entries : IsVerified(e) => answer'[e] = answer[e]
         /\ status # "IN_PROGRESS" => UNCHANGED <<answer, flags>>
<1>1. ASSUME NEW r \in Requests, RequestNext(r)
      PROVE  /\ \A e \in Entries : IsVerified(e) => answer'[e] = answer[e]
             /\ status # "IN_PROGRESS" => UNCHANGED <<answer, flags>>
  <2>1. CASE CreatePresignedUpload(r)
    BY <1>1, <2>1, PresignRows, RequestsLeavePages DEF IsOpen, CreatePresignedUpload
  <2>2. CASE ConfirmUpload(r)
    BY <1>1, <2>2, ConfirmRows DEF IsOpen
  <2> QED
    BY <1>1, <2>1, <2>2, RequestsLeavePages
<1> QED
  BY <1>1, PagesLeaveRows, OthersLeave DEF Next

\* An entry the page is done with.
IsPassed(p, e) == IsLive(p) /\ (e < slot[p] \/ phase[p] \in {"completed", "done"})

TakesOK == \A p \in Pages, e \in Entries : take[p][e] # NoTake => take[p][e].from = e

HeldRight ==
  /\ take' \in [Pages -> [Entries -> Takes \cup {NoTake}]]
  /\ upload' \in [Pages -> [Entries -> Uploads]]
  /\ TakesOK'
  /\ TakeIsNeverLost'

HeldInv == TypeOK /\ TakesOK /\ TakeIsNeverLost

\* One upload changes, perhaps with its take; no page moves.
LEMMA HeldStep ==
  ASSUME HeldInv, [Next]_vars, NEW p \in Pages, NEW e \in Entries, NEW u \in Uploads,
         \A q \in Pages, f \in Entries : IsPassed(q, f)' => IsPassed(q, f),
         upload' = [upload EXCEPT ![p][e] = u],
         UNCHANGED take \/ (take' = [take EXCEPT ![p][e] = NoTake] /\ IsVerified(e)'),
         u.state = "uploaded" => IsVerified(e)'
  PROVE  HeldRight
<1>0. /\ take \in [Pages -> [Entries -> Takes \cup {NoTake}]]
      /\ upload \in [Pages -> [Entries -> Uploads]]
      /\ \A q \in Pages, f \in Entries : take[q][f] # NoTake => take[q][f].from = f
      /\ \A q \in Pages, f \in Entries :
           /\ IsPassed(q, f) => take[q][f] # NoTake \/ IsVerified(f)
           /\ upload[q][f].state = "uploaded" => IsVerified(f)
  BY DEF HeldInv, TypeOK, TakesOK, TakeIsNeverLost, IsPassed
<1>1. /\ upload' \in [Pages -> [Entries -> Uploads]]
      /\ upload'[p][e] = u
      /\ \A q \in Pages, f \in Entries : (q = p /\ f = e) \/ upload'[q][f] = upload[q][f]
  BY <1>0
<1>2. /\ take' \in [Pages -> [Entries -> Takes \cup {NoTake}]]
      /\ take'[p][e] = take[p][e] \/ (take'[p][e] = NoTake /\ IsVerified(e)')
      /\ \A q \in Pages, f \in Entries : (q = p /\ f = e) \/ take'[q][f] = take[q][f]
  <2>1. CASE UNCHANGED take
    BY <1>0, <2>1
  <2>2. CASE take' = [take EXCEPT ![p][e] = NoTake] /\ IsVerified(e)'
    BY <1>0, <2>2
  <2> QED
    BY <2>1, <2>2
<1>3. \A f \in Entries : IsVerified(f) => IsVerified(f)'
  BY VerifiedStays DEF HeldInv, IsVerified
<1>4. TakesOK'
  BY <1>0, <1>2 DEF TakesOK
<1>5. ASSUME NEW q \in Pages, NEW f \in Entries
      PROVE  /\ IsPassed(q, f)' => take'[q][f] # NoTake \/ IsVerified(f)'
             /\ upload'[q][f].state = "uploaded" => IsVerified(f)'
  BY <1>0, <1>1, <1>2, <1>3
<1>6. TakeIsNeverLost'
  BY <1>5 DEF TakeIsNeverLost, IsPassed
<1> QED
  BY <1>1, <1>2, <1>4, <1>6 DEF HeldRight

LEMMA HeldUnchanged ==
  ASSUME HeldInv, [Next]_vars, UNCHANGED <<take, upload>>,
         \A q \in Pages, f \in Entries : IsPassed(q, f)' => IsPassed(q, f)
  PROVE  HeldRight
<1>1. \A f \in Entries : IsVerified(f) => IsVerified(f)'
  BY VerifiedStays DEF HeldInv, IsVerified
<1>2. ASSUME NEW q \in Pages, NEW f \in Entries
      PROVE  /\ IsPassed(q, f)' => take'[q][f] # NoTake \/ IsVerified(f)'
             /\ upload'[q][f].state = "uploaded" => IsVerified(f)'
  BY <1>1 DEF HeldInv, TakeIsNeverLost, IsPassed
<1>3. TakeIsNeverLost'
  BY <1>2 DEF TakeIsNeverLost, IsPassed
<1> QED
  BY <1>3 DEF HeldRight, HeldInv, TypeOK, TakesOK

LEMMA PagesStay ==
  ASSUME UNCHANGED <<phase, slot>>
  PROVE  \A q \in Pages, f \in Entries : IsPassed(q, f)' => IsPassed(q, f)
  BY DEF IsPassed, IsLive

LEMMA UploadRight ==
  \A state \in {"idle", "ready", "failed", "signing", "uploading", "verifying", "uploaded"},
     key \in 0..MaxKeys : [state |-> state, key |-> key] \in Uploads
  BY DEF Uploads

\* What a page learns from the server.
LEMMA RequestHeld ==
  ASSUME HeldInv, NEW r \in Requests, RequestNext(r)
  PROVE  HeldRight
<1>p. PICK p, e : p = request[r].page /\ e = request[r].entry
  OBVIOUS
<1>0. [Next]_vars /\ TypeOK /\ 0 \in 0..MaxKeys
  BY MaxKeysAssumption DEF Next, HeldInv
<1>1. \A q \in Pages, f \in Entries : IsPassed(q, f)' => IsPassed(q, f)
  BY RequestsLeavePages, PagesStay
<1>2. request[r] # Idle => p \in Pages /\ e \in Entries
  BY <1>p, <1>0, RequestIsTyped DEF Requested
<1>3. request[r].op \in {"presign", "confirm"} => p \in Pages /\ e \in Entries
  BY <1>p, <1>0, RequestIsTyped DEF Requested
<1>4. ASSUME p \in Pages, e \in Entries, LearnsFailure(r, e) PROVE HeldRight
  <2> DEFINE u == [state |-> "failed", key |-> 0]
  <2>1. u \in Uploads /\ u.state # "uploaded"
    BY <1>0, UploadRight
  <2>2. UNCHANGED take /\ (UNCHANGED upload \/ upload' = [upload EXCEPT ![p][e] = u])
    BY <1>p, <1>4 DEF LearnsFailure, Learns
  <2> HIDE DEF u
  <2> QED
    <3>1. CASE UNCHANGED upload
      BY <1>0, <1>1, <2>2, <3>1, HeldUnchanged
    <3>2. CASE upload' = [upload EXCEPT ![p][e] = u]
      BY <1>0, <1>1, <1>4, <2>1, <2>2, <3>2, HeldStep
    <3> QED
      BY <2>2, <3>1, <3>2
<1>5. ASSUME p \in Pages, e \in Entries, LearnsVerified(r, e), IsVerified(e)' PROVE HeldRight
  <2> DEFINE u == [state |-> "uploaded", key |-> 0]
  <2>1. u \in Uploads
    BY <1>0, UploadRight
  <2>2. \/ UNCHANGED <<take, upload>>
        \/ take' = [take EXCEPT ![p][e] = NoTake] /\ upload' = [upload EXCEPT ![p][e] = u]
    BY <1>p, <1>5 DEF LearnsVerified, Learns
  <2> HIDE DEF u
  <2> QED
    BY <1>0, <1>1, <1>5, <2>1, <2>2, HeldStep, HeldUnchanged
<1>6. CASE CreatePresignedUpload(r)
  <2> DEFINE u == [state |-> "uploading", key |-> issued + 1]
  <2>1. issued + 1 \in 0..MaxKeys
    BY <1>0, <1>6, PresignRows, MaxKeysAssumption DEF Keys
  <2>2. u \in Uploads /\ u.state # "uploaded"
    BY <2>1, UploadRight
  <2>3. UNCHANGED take /\ (UNCHANGED upload \/ upload' = [upload EXCEPT ![p][e] = u])
    BY <1>p, <1>6 DEF CreatePresignedUpload, Learns
  <2>4. p \in Pages /\ e \in Entries
    BY <1>3, <1>6 DEF CreatePresignedUpload
  <2> HIDE DEF u
  <2> QED
    <3>1. CASE UNCHANGED upload
      BY <1>0, <1>1, <2>3, <3>1, HeldUnchanged
    <3>2. CASE upload' = [upload EXCEPT ![p][e] = u]
      BY <1>0, <1>1, <2>2, <2>4, <2>3, <3>2, HeldStep
    <3> QED
      BY <2>3, <3>1, <3>2
<1>7. CASE RefusePresign(r)
  <2>1. IsOpen => IsVerified(e)'
    BY <1>p, <1>7 DEF RefusePresign, MayPresign, IsVerified, rowVars
  <2> QED
    BY <1>p, <1>3, <1>4, <1>5, <1>7, <2>1 DEF RefusePresign
<1>8. CASE InspectUpload(r)
  BY <1>0, <1>1, <1>8, HeldUnchanged DEF InspectUpload
<1>9. CASE AnswerConfirmEarly(r)
  <2>1. UNCHANGED answer /\ request[r].op = "confirm"
    BY <1>9 DEF AnswerConfirmEarly, rowVars
  <2>2. LearnsFailure(r, e) \/ (LearnsVerified(r, e) /\ IsVerified(e))
    BY <1>p, <1>9 DEF AnswerConfirmEarly, LearnsFailure, LearnsVerified, Learns
  <2> QED
    BY <1>3, <1>4, <1>5, <2>1, <2>2 DEF IsVerified
<1>10. CASE ConfirmUpload(r)
  <2>1. e \in Entries /\ answer'[e] = [answer[e] EXCEPT !.verified = TRUE, !.failed = request[r].failed]
    BY <1>p, <1>0, <1>10, ConfirmRows
  <2>2. answer[e] \in Answers
    BY <1>0, <2>1 DEF TypeOK
  <2>3. IsVerified(e)'
    BY <2>1, <2>2 DEF IsVerified, Answers
  <2> QED
    BY <1>p, <1>3, <1>5, <1>10, <2>3 DEF ConfirmUpload
<1>11. CASE RefuseConfirm(r)
  <2>1. UNCHANGED answer /\ request[r].op = "confirm"
    BY <1>11 DEF RefuseConfirm, rowVars
  <2>2. LearnsFailure(r, e) \/ (LearnsVerified(r, e) /\ IsVerified(e))
    BY <1>p, <1>11 DEF RefuseConfirm, LearnsFailure, LearnsVerified, Learns
  <2> QED
    BY <1>3, <1>4, <1>5, <2>1, <2>2 DEF IsVerified
<1>12. CASE \E lost \in BOOLEAN : GiveUp(r, lost)
  BY <1>p, <1>2, <1>4, <1>12 DEF GiveUp
<1> QED
  BY <1>6, <1>7, <1>8, <1>9, <1>10, <1>11, <1>12 DEF RequestNext

\* All of what one page holds changes; the other pages stay as they are.
LEMMA HeldOfPage ==
  ASSUME HeldInv, [Next]_vars, NEW p \in Pages,
         NEW t \in [Entries -> Takes \cup {NoTake}], NEW u \in [Entries -> Uploads],
         take' = [take EXCEPT ![p] = t], upload' = [upload EXCEPT ![p] = u],
         \A q \in Pages \ {p}, f \in Entries : IsPassed(q, f)' => IsPassed(q, f),
         \A e \in Entries : t[e] # NoTake => t[e].from = e,
         \A e \in Entries : u[e].state = "uploaded" => IsVerified(e),
         \A e \in Entries : IsPassed(p, e)' => t[e] # NoTake \/ IsVerified(e)
  PROVE  HeldRight
<1>0. /\ take \in [Pages -> [Entries -> Takes \cup {NoTake}]]
      /\ upload \in [Pages -> [Entries -> Uploads]]
      /\ \A q \in Pages, f \in Entries : take[q][f] # NoTake => take[q][f].from = f
      /\ \A q \in Pages, f \in Entries :
           /\ IsPassed(q, f) => take[q][f] # NoTake \/ IsVerified(f)
           /\ upload[q][f].state = "uploaded" => IsVerified(f)
  BY DEF HeldInv, TypeOK, TakesOK, TakeIsNeverLost, IsPassed
<1>1. /\ upload' \in [Pages -> [Entries -> Uploads]] /\ upload'[p] = u
      /\ \A q \in Pages \ {p} : upload'[q] = upload[q]
  BY <1>0
<1>2. /\ take' \in [Pages -> [Entries -> Takes \cup {NoTake}]] /\ take'[p] = t
      /\ \A q \in Pages \ {p} : take'[q] = take[q]
  BY <1>0
<1>3. \A f \in Entries : IsVerified(f) => IsVerified(f)'
  BY VerifiedStays DEF HeldInv, IsVerified
<1>4. TakesOK'
  BY <1>0, <1>2 DEF TakesOK
<1>5. ASSUME NEW q \in Pages, NEW f \in Entries
      PROVE  /\ IsPassed(q, f)' => take'[q][f] # NoTake \/ IsVerified(f)'
             /\ upload'[q][f].state = "uploaded" => IsVerified(f)'
  <2>1. CASE q = p
    BY <1>1, <1>2, <1>3, <2>1
  <2>2. CASE q # p
    BY <1>0, <1>1, <1>2, <1>3, <2>2
  <2> QED
    BY <2>1, <2>2
<1>6. TakeIsNeverLost'
  BY <1>5 DEF TakeIsNeverLost, IsPassed
<1> QED
  BY <1>1, <1>2, <1>4, <1>6 DEF HeldRight

LEMMA PageHeld ==
  ASSUME HeldInv, FlowOK, NEW p \in Pages, PageNext(p)
  PROVE  HeldRight
<1>0. /\ [Next]_vars /\ TypeOK
      /\ phase \in [Pages -> Phases] /\ slot \in [Pages -> Entries]
      /\ take \in [Pages -> [Entries -> Takes \cup {NoTake}]]
      /\ upload \in [Pages -> [Entries -> Uploads]]
      /\ 0 \in 0..MaxKeys
      /\ take[p] \in [Entries -> Takes \cup {NoTake}]
      /\ upload[p] \in [Entries -> Uploads]
      /\ take = [take EXCEPT ![p] = take[p]]
      /\ \A e \in Entries : take[p][e] # NoTake => take[p][e].from = e
  BY MaxKeysAssumption DEF Next, HeldInv, TypeOK, TakesOK
<1>a. ASSUME \A q \in Pages \ {p} : phase'[q] = phase[q] /\ slot'[q] = slot[q]
      PROVE  \A q \in Pages \ {p}, f \in Entries : IsPassed(q, f)' => IsPassed(q, f)
  BY <1>a DEF IsPassed, IsLive
<1>1. ASSUME OpenPage(p) PROVE HeldRight
  <2> DEFINE open == {e \in Entries : ~IsVerified(e)}
             u == [e \in Entries |->
                    [NoUpload EXCEPT !.state = IF IsVerified(e) THEN "uploaded" ELSE "idle"]]
  <2>1. /\ phase' = [phase EXCEPT ![p] = IF open = {} THEN "completed" ELSE "preparation"]
        /\ slot' = [slot EXCEPT ![p] = IF open = {} THEN 1 ELSE First(open)]
        /\ upload' = [upload EXCEPT ![p] = u] /\ UNCHANGED take
    BY <1>1 DEF OpenPage
  <2>2. /\ u \in [Entries -> Uploads]
        /\ \A e \in Entries : u[e].state = "uploaded" => IsVerified(e)
    <3>1. \A e \in Entries : u[e].state = IF IsVerified(e) THEN "uploaded" ELSE "idle"
      BY DEF NoUpload
    <3>2. \A state \in {"idle", "uploaded"} : [NoUpload EXCEPT !.state = state] \in Uploads
      BY <1>0 DEF NoUpload, Uploads
    <3> QED
      BY <3>1, <3>2
  <2>3. \A q \in Pages \ {p} : phase'[q] = phase[q] /\ slot'[q] = slot[q]
    BY <1>0, <2>1
  <2>4. ASSUME NEW e \in Entries, IsPassed(p, e)' PROVE IsVerified(e)
    <3>1. CASE open = {}
      BY <3>1
    <3>2. CASE open # {}
      <4>1. phase'[p] = "preparation" /\ slot'[p] = First(open)
        BY <1>0, <2>1, <3>2
      <4>2. First(open) \in Entries /\ \A f \in open : First(open) <= f
        <5>1. open \in SUBSET Entries
          OBVIOUS
        <5> HIDE DEF open
        <5> QED
          BY <3>2, <5>1, FirstIsMember
      <4>3. e < First(open)
        BY <2>4, <4>1 DEF IsPassed
      <4> QED
        BY <4>2, <4>3, NAssumption DEF Entries
    <3> QED
      BY <3>1, <3>2
  <2>5. PICK t : t = take[p]
    OBVIOUS
  <2>6. t \in [Entries -> Takes \cup {NoTake}] /\ take' = [take EXCEPT ![p] = t]
    BY <1>0, <2>1, <2>5
  <2>7. \A e \in Entries : t[e] # NoTake => t[e].from = e
    BY <1>0, <2>5
  <2>8. \A q \in Pages \ {p}, f \in Entries : IsPassed(q, f)' => IsPassed(q, f)
    BY <1>a, <2>3
  <2>9. upload' = [upload EXCEPT ![p] = u]
    BY <2>1
  <2> HIDE DEF u, open
  <2> QED
    BY <1>0, <2>2, <2>4, <2>6, <2>7, <2>8, <2>9, HeldOfPage
<1>2. ASSUME ClosePage(p) PROVE HeldRight
  <2> DEFINE t == [e \in Entries |-> NoTake]
             u == [e \in Entries |-> NoUpload]
  <2>1. /\ phase' = [phase EXCEPT ![p] = "closed"] /\ slot' = [slot EXCEPT ![p] = 1]
        /\ take' = [take EXCEPT ![p] = t] /\ upload' = [upload EXCEPT ![p] = u]
    BY <1>2 DEF ClosePage
  <2>2. /\ t \in [Entries -> Takes \cup {NoTake}] /\ u \in [Entries -> Uploads]
        /\ \A e \in Entries : t[e] = NoTake /\ u[e].state # "uploaded"
    BY <1>0 DEF NoUpload, Uploads
  <2>3. \A q \in Pages \ {p} : phase'[q] = phase[q] /\ slot'[q] = slot[q]
    BY <1>0, <2>1
  <2>4. \A e \in Entries : ~IsPassed(p, e)'
    BY <1>0, <2>1 DEF IsPassed, IsLive
  <2>5. \A q \in Pages \ {p}, f \in Entries : IsPassed(q, f)' => IsPassed(q, f)
    BY <1>a, <2>3
  <2>6. take' = [take EXCEPT ![p] = t] /\ upload' = [upload EXCEPT ![p] = u]
    BY <2>1
  <2> HIDE DEF t, u
  <2> QED
    <3>1. /\ \A e \in Entries : t[e] # NoTake => t[e].from = e
          /\ \A e \in Entries : u[e].state = "uploaded" => IsVerified(e)
          /\ \A e \in Entries : IsPassed(p, e)' => t[e] # NoTake \/ IsVerified(e)
      BY <2>2, <2>4
    <3>2. t \in [Entries -> Takes \cup {NoTake}] /\ u \in [Entries -> Uploads]
      BY <2>2
    <3> QED
      BY <1>0, <2>5, <2>6, <3>1, <3>2, HeldOfPage
<1>3. ASSUME UNCHANGED <<slot, take, upload>>,
             \/ UNCHANGED phase
             \/ /\ phase[p] \in {"preparation", "recording"}
                /\ phase' = [phase EXCEPT ![p] = "recording"]
             \/ phase[p] = "recording" /\ phase' = [phase EXCEPT ![p] = "finalizing"]
             \/ phase[p] = "completed" /\ phase' = [phase EXCEPT ![p] = "done"]
      PROVE  HeldRight
  <2>1. ASSUME NEW q \in Pages
        PROVE  IsLive(q)' => IsLive(q)
               /\ (phase'[q] \in {"completed", "done"} => phase[q] \in {"completed", "done"})
    BY <1>0, <1>3 DEF IsLive
  <2>2. \A q \in Pages, f \in Entries : IsPassed(q, f)' => IsPassed(q, f)
    BY <1>3, <2>1 DEF IsPassed
  <2> QED
    BY <1>0, <1>3, <2>2, HeldUnchanged
<1>4. ASSUME QueueTake(p) PROVE HeldRight
  <2>1. PICK e : e = slot[p]
    OBVIOUS
  <2> DEFINE blob == recorder[p].blob
             kept == IF recorder[p].failed /\ blob.kind = "good"
                       THEN [blob EXCEPT !.kind = "cut"] ELSE blob
             t == [take[p] EXCEPT ![e] = kept]
             u == [upload[p] EXCEPT ![e] = [state |-> "ready", key |-> 0]]
  <2>2. e \in Entries
    BY <1>0, <2>1
  <2>3. blob \in Takes /\ blob.from = e
    <3>1. recorder[p] \in Recorders /\ RecorderOK(recorder[p], e)
      BY <1>0, <2>1 DEF TypeOK, FlowOK
    <3> QED
      BY <1>4, <3>1 DEF QueueTake, RecorderOK, Recorders
  <2>4. kept \in Takes /\ kept.from = e
    BY <2>3 DEF Takes, Kinds
  <2>5. \A x \in Takes : x # NoTake
    BY PagesAssumption DEF Takes, NoTake
  <2> HIDE DEF kept
  <2>6. take' = [take EXCEPT ![p] = t] /\ upload' = [upload EXCEPT ![p] = u]
    BY <1>0, <1>4, <2>1 DEF QueueTake, kept
  <2>7. [state |-> "ready", key |-> 0] \in Uploads
    BY <1>0, UploadRight
  <2>8. /\ t \in [Entries -> Takes \cup {NoTake}]
        /\ t[e] = kept /\ \A f \in Entries \ {e} : t[f] = take[p][f]
    BY <1>0, <2>2, <2>4
  <2>9. /\ u \in [Entries -> Uploads]
        /\ u[e].state # "uploaded" /\ \A f \in Entries \ {e} : u[f] = upload[p][f]
    BY <1>0, <2>2, <2>7
  <2>10. \A f \in Entries : u[f].state = "uploaded" => IsVerified(f)
    BY <2>2, <2>9 DEF HeldInv, TakeIsNeverLost
  <2>11. \A f \in Entries : t[f] # NoTake => t[f].from = f
    BY <1>0, <2>2, <2>4, <2>8
  <2>12. /\ \A q \in Pages \ {p} : phase'[q] = phase[q] /\ slot'[q] = slot[q]
         /\ e < N => phase'[p] = "preparation" /\ slot'[p] = e + 1
         /\ ~(e < N) => slot'[p] = e /\ e = N
    BY <1>0, <1>4, <2>1, <2>2, NAssumption DEF QueueTake, Entries
  <2>13. IsLive(p)
    BY <1>4 DEF QueueTake, IsLive
  <2>14. ASSUME NEW f \in Entries, IsPassed(p, f)'
         PROVE  t[f] # NoTake \/ IsVerified(f)
    <3>1. CASE f = e
      BY <2>4, <2>5, <2>8, <3>1
    <3>2. CASE f # e
      <4>1. f < e
        BY <2>2, <2>12, <2>14, <3>2, NAssumption DEF IsPassed, Entries
      <4>2. IsPassed(p, f)
        BY <2>1, <2>13, <4>1 DEF IsPassed
      <4> QED
        BY <2>8, <3>2, <4>2 DEF HeldInv, TakeIsNeverLost, IsPassed
    <3> QED
      BY <3>1, <3>2
  <2> HIDE DEF t, u
  <2> QED
    <3>1. \A q \in Pages \ {p}, f \in Entries : IsPassed(q, f)' => IsPassed(q, f)
      BY <1>a, <2>12
    <3>2. t \in [Entries -> Takes \cup {NoTake}] /\ u \in [Entries -> Uploads]
      BY <2>8, <2>9
    <3>3. [Next]_vars
      BY <1>0
    <3> QED
      BY <2>6, <2>10, <2>11, <2>14, <3>1, <3>2, <3>3, HeldOfPage
<1>5. ASSUME NEW e \in Entries, NEW state \in {"failed", "signing", "verifying"},
             upload' = [upload EXCEPT ![p][e] = [state |-> state, key |-> 0]],
             UNCHANGED <<phase, slot, take>>
      PROVE  HeldRight
  <2> DEFINE u == [state |-> state, key |-> 0]
  <2>1. u \in Uploads /\ u.state # "uploaded"
    BY <1>0, UploadRight
  <2>2. \A q \in Pages, f \in Entries : IsPassed(q, f)' => IsPassed(q, f)
    BY <1>5, PagesStay
  <2>3. upload' = [upload EXCEPT ![p][e] = u] /\ UNCHANGED take
    BY <1>5
  <2> HIDE DEF u
  <2> QED
    BY <1>0, <2>1, <2>2, <2>3, HeldStep
<1>6. CASE \/ \E starts \in BOOLEAN : StartRecording(p, starts)
           \/ StopRecording(p) \/ FailTake(p)
           \/ \E kind \in Ends : RecorderError(p, kind)
           \/ \E e \in Entries, kind \in Ends : StopEvent(p, e, kind)
           \/ \E answered \in BOOLEAN : CompleteSubmission(p, answered)
  BY <1>3, <1>6 DEF StartRecording, StopRecording, FailTake, RecorderError, StopEvent,
                    CompleteSubmission
<1>7. CASE \/ \E e \in Entries, r \in Requests :
                StartUpload(p, e, r) \/ RequestConfirmation(p, e, r)
           \/ \E e \in Entries : PutFails(p, e)
  BY <1>5, <1>7 DEF StartUpload, RequestConfirmation, PutFails, pageVars
<1> QED
  BY <1>1, <1>2, <1>4, <1>6, <1>7 DEF PageNext

LEMMA HeldNext ==
  ASSUME HeldInv, FlowOK, [Next]_vars
  PROVE  HeldRight
<1>1. CASE (\E k \in Keys : PutLands(k)) \/ AbandonSubmission \/ UNCHANGED vars
  BY <1>1, OthersLeave, PagesStay, HeldUnchanged
<1> QED
  BY <1>1, PageHeld, RequestHeld DEF Next

-----------------------------------------------------------------------------
(* Whose footage a take contains. *)

IsOver(ph) == ph \in {"completed", "done"}

\* An earlier entry whose take, as long as it is held, is a failure.
Broken(f, s, t) == f < s /\ (t[f] # NoTake => IsFailure(t[f]))

\* The entries before s whose recorders may still send data to the page: all that
\* the recorder, its take or a coming event may bring in.
MixOK(ph, s, rec, t) ==
  /\ rec.live => rec.listening = s /\ s \notin rec.events
  /\ ph = "preparation" => rec.listening = 0 /\ rec.blob = NoTake
  /\ rec.blob # NoTake => rec.listening = 0
  /\ \A f \in rec.mixed \cup rec.blob.mixed : Broken(f, s, t)
  /\ \A f \in rec.events :
       \/ Broken(f, s, t)
       \/ f = s /\ (rec.listening = s \/ (rec.blob # NoTake /\ IsFailure(rec.blob)) \/ IsOver(ph))
  /\ \A e \in Entries : t[e] # NoTake =>
       (e < s \/ IsOver(ph)) /\ \A f \in t[e].mixed : Broken(f, e, t)
  /\ ph = "new" => \A e \in Entries : t[e] = NoTake

MixInv == \A p \in Pages : MixOK(phase[p], slot[p], recorder[p], take[p])

LEMMA MixStep ==
  ASSUME TypeOK, MixInv, NEW p \in Pages, NEW ph, NEW s, NEW rec, NEW t,
         phase' = [phase EXCEPT ![p] = ph], slot' = [slot EXCEPT ![p] = s],
         recorder' = [recorder EXCEPT ![p] = rec], take' = [take EXCEPT ![p] = t],
         MixOK(ph, s, rec, t)
  PROVE  MixInv'
<1>1. /\ phase'[p] = ph /\ slot'[p] = s /\ recorder'[p] = rec /\ take'[p] = t
      /\ \A q \in Pages \ {p} : /\ phase'[q] = phase[q] /\ slot'[q] = slot[q]
                                /\ recorder'[q] = recorder[q] /\ take'[q] = take[q]
  BY DEF TypeOK
<1>2. ASSUME NEW q \in Pages
      PROVE  MixOK(phase'[q], slot'[q], recorder'[q], take'[q])
  <2>1. CASE q = p
    BY <1>1, <2>1
  <2>2. CASE q # p
    <3>1. MixOK(phase[q], slot[q], recorder[q], take[q])
      BY DEF MixInv
    <3> QED
      BY <1>1, <2>2, <3>1
  <2> QED
    BY <2>1, <2>2
<1>3. \A q \in Pages : MixOK(phase'[q], slot'[q], recorder'[q], take'[q])
  BY <1>2
<1> QED
  BY <1>3 DEF MixInv

LEMMA MixUnchanged ==
  ASSUME MixInv, UNCHANGED <<phase, slot, recorder, take>>
  PROVE  MixInv'
<1>1. \A p \in Pages : MixOK(phase'[p], slot'[p], recorder'[p], take'[p])
  BY DEF MixInv
<1> QED
  BY <1>1 DEF MixInv

\* A take that is forgotten leaves everything as it is.
LEMMA MixForgets ==
  ASSUME TypeOK, MixInv, NEW p \in Pages, NEW e \in Entries,
         UNCHANGED <<phase, slot, recorder>>, take' = [take EXCEPT ![p][e] = NoTake]
  PROVE  MixInv'
<1>1. PICK ph, s, rec, t : ph = phase[p] /\ s = slot[p] /\ rec = recorder[p] /\ t = take[p]
  OBVIOUS
<1>2. MixOK(ph, s, rec, t) /\ t \in [Entries -> Takes \cup {NoTake}]
  BY <1>1 DEF MixInv, TypeOK
<1>3. PICK u : u = [t EXCEPT ![e] = NoTake]
  OBVIOUS
<1>4. u[e] = NoTake /\ \A f \in Entries \ {e} : u[f] = t[f]
  BY <1>2, <1>3
<1>5. rec.mixed \cup rec.blob.mixed \cup rec.events \subseteq Entries
  BY <1>1 DEF TypeOK, Recorders, Takes, NoTake
<1>6. \A f \in Entries : t[f].mixed \subseteq Entries
  BY <1>2 DEF Takes, NoTake
<1>7. \A f \in Entries : \A x : Broken(f, x, t) => Broken(f, x, u)
  BY <1>4 DEF Broken
<1>8. MixOK(ph, s, rec, u)
  <2>1. \A f \in rec.mixed \cup rec.blob.mixed : Broken(f, s, u)
    BY <1>2, <1>5, <1>7 DEF MixOK
  <2>2. \A f \in rec.events :
          \/ Broken(f, s, u)
          \/ f = s /\ (rec.listening = s \/ (rec.blob # NoTake /\ IsFailure(rec.blob)) \/ IsOver(ph))
    BY <1>2, <1>5, <1>7 DEF MixOK
  <2>3. \A g \in Entries : u[g] # NoTake =>
          (g < s \/ IsOver(ph)) /\ \A f \in u[g].mixed : Broken(f, g, u)
    BY <1>2, <1>4, <1>6, <1>7 DEF MixOK
  <2>4. ph = "new" => \A g \in Entries : u[g] = NoTake
    BY <1>2, <1>4 DEF MixOK
  <2> QED
    BY <1>2, <2>1, <2>2, <2>3, <2>4 DEF MixOK
<1>9. /\ phase' = [phase EXCEPT ![p] = ph] /\ slot' = [slot EXCEPT ![p] = s]
      /\ recorder' = [recorder EXCEPT ![p] = rec] /\ take' = [take EXCEPT ![p] = u]
  BY <1>1, <1>3 DEF TypeOK
<1> QED
  BY <1>8, <1>9, MixStep

LEMMA RequestMix ==
  ASSUME TypeOK, MixInv, NEW r \in Requests, RequestNext(r)
  PROVE  MixInv'
<1>p. PICK p, e : p = request[r].page /\ e = request[r].entry
  OBVIOUS
<1>0. UNCHANGED <<phase, slot, recorder>>
  BY RequestsLeavePages
<1>1. UNCHANGED take \/ (take' = [take EXCEPT ![p][e] = NoTake]
                          /\ request[r].op \in {"presign", "confirm"})
  <2>1. CASE CreatePresignedUpload(r) \/ RefusePresign(r)
    BY <1>p, <2>1 DEF CreatePresignedUpload, RefusePresign, LearnsVerified, LearnsFailure
  <2>2. CASE InspectUpload(r) \/ AnswerConfirmEarly(r)
    BY <1>p, <2>2 DEF InspectUpload, AnswerConfirmEarly, LearnsVerified, LearnsFailure
  <2>3. CASE ConfirmUpload(r) \/ RefuseConfirm(r)
    BY <1>p, <2>3 DEF ConfirmUpload, RefuseConfirm, LearnsVerified, LearnsFailure
  <2>4. CASE \E lost \in BOOLEAN : GiveUp(r, lost)
    BY <2>4 DEF GiveUp, LearnsFailure
  <2> QED
    BY <2>1, <2>2, <2>3, <2>4 DEF RequestNext
<1>2. CASE UNCHANGED take
  BY <1>0, <1>2, MixUnchanged
<1>3. CASE take' = [take EXCEPT ![p][e] = NoTake] /\ request[r].op \in {"presign", "confirm"}
  <2>1. p \in Pages /\ e \in Entries
    BY <1>p, <1>3, RequestIsTyped DEF Requested
  <2> QED
    BY <1>0, <1>3, <2>1, MixForgets
<1> QED
  BY <1>1, <1>2, <1>3

LEMMA PageMix ==
  ASSUME TypeOK, FlowOK, MixInv, NEW p \in Pages, PageNext(p)
  PROVE  MixInv'
<1>0. PICK ph, s, rec, t : ph = phase[p] /\ s = slot[p] /\ rec = recorder[p] /\ t = take[p]
  OBVIOUS
<1>1. /\ MixOK(ph, s, rec, t) /\ RecorderOK(rec, s) /\ (ph = "new" => rec = NoRecorder)
      /\ s \in Entries /\ s # 0 /\ rec \in Recorders /\ t \in [Entries -> Takes \cup {NoTake}]
      /\ phase = [phase EXCEPT ![p] = ph] /\ slot = [slot EXCEPT ![p] = s]
      /\ recorder = [recorder EXCEPT ![p] = rec] /\ take = [take EXCEPT ![p] = t]
  BY <1>0, NAssumption DEF MixInv, FlowOK, TypeOK, Entries
<1>2. ASSUME NEW stopped, stopped = Stopped(p, rec)
      PROVE  /\ MixOK(ph, s, stopped, t) /\ ~stopped.live /\ stopped \in Recorders
             /\ stopped.listening = rec.listening /\ stopped.blob = rec.blob
             /\ stopped.mixed = rec.mixed
             /\ stopped.events = IF rec.live THEN rec.events \cup {s} ELSE rec.events
  <2>1. /\ stopped \in Recorders
        /\ stopped.listening = rec.listening /\ stopped.blob = rec.blob
        /\ stopped.mixed = rec.mixed /\ ~stopped.live
        /\ stopped.events = IF rec.live THEN rec.events \cup {s} ELSE rec.events
    <3>1. /\ Stopped(p, rec) \in Recorders
          /\ Stopped(p, rec).listening = rec.listening /\ Stopped(p, rec).blob = rec.blob
          /\ Stopped(p, rec).mixed = rec.mixed /\ Stopped(p, rec).live = FALSE
          /\ Stopped(p, rec).events = IF rec.live THEN rec.events \cup {slot[p]} ELSE rec.events
      BY <1>1, StoppedRight
    <3> QED
      BY <1>0, <1>2, <3>1
  <2>2. MixOK(ph, s, stopped, t)
    BY <1>1, <2>1 DEF MixOK
  <2> QED
    BY <2>1, <2>2
<1>3. ASSUME OpenPage(p) PROVE MixInv'
  <2>0. PICK ph1, s1 :
          LET open == {e \in Entries : ~IsVerified(e)} IN
          /\ ph1 = IF open = {} THEN "completed" ELSE "preparation"
          /\ s1 = IF open = {} THEN 1 ELSE First(open)
    OBVIOUS
  <2>1. /\ phase' = [phase EXCEPT ![p] = ph1] /\ slot' = [slot EXCEPT ![p] = s1]
        /\ ph1 # "new" /\ UNCHANGED <<recorder, take>> /\ ph = "new"
    BY <1>0, <1>3, <2>0 DEF OpenPage
  <2>2. MixOK(ph1, s1, rec, t)
    <3>1. /\ rec.mixed = {} /\ rec.blob = NoTake /\ rec.events = {} /\ ~rec.live
          /\ rec.listening = 0
          /\ NoTake.mixed = {} /\ \A e \in Entries : t[e] = NoTake
      BY <1>1, <2>1 DEF NoRecorder, NoTake, MixOK
    <3> QED
      BY <2>1, <3>1 DEF MixOK
  <2> QED
    BY <1>1, <2>1, <2>2, MixStep
<1>4. ASSUME ClosePage(p) PROVE MixInv'
  <2> DEFINE none == [e \in Entries |-> NoTake]
  <2>1. MixOK("closed", 1, NoRecorder, none)
    BY DEF MixOK, NoRecorder, NoTake
  <2> HIDE DEF none
  <2>2. /\ phase' = [phase EXCEPT ![p] = "closed"] /\ slot' = [slot EXCEPT ![p] = 1]
        /\ recorder' = [recorder EXCEPT ![p] = NoRecorder]
        /\ take' = [take EXCEPT ![p] = none]
    BY <1>4 DEF ClosePage, none
  <2> QED
    BY <2>1, <2>2, MixStep
<1>5. ASSUME NEW starts \in BOOLEAN, StartRecording(p, starts) PROVE MixInv'
  <2>1. PICK blob : blob = TakeOf(p, s, {}, "empty")
    OBVIOUS
  <2>2. PICK new : new = [listening |-> IF starts THEN s ELSE 0, live |-> starts,
                          events |-> rec.events, mixed |-> {},
                          blob |-> IF starts THEN NoTake ELSE blob, failed |-> ~starts]
    OBVIOUS
  <2>3. /\ recorder' = [recorder EXCEPT ![p] = new] /\ UNCHANGED <<slot, take>>
        /\ phase' = [phase EXCEPT ![p] = "recording"] /\ ph = "preparation"
    BY <1>0, <1>1, <1>5, <2>1, <2>2 DEF StartRecording
  <2>4. blob.mixed = {} /\ NoTake.mixed = {} /\ IsFailure(blob)
    BY <2>1 DEF TakeOf, NoTake, IsFailure
  <2>5. /\ new.listening = IF starts THEN s ELSE 0
        /\ new.live = starts /\ new.events = rec.events /\ new.mixed = {}
        /\ new.blob = IF starts THEN NoTake ELSE blob
    BY <2>2
  <2>6. blob # NoTake
    BY <1>1, <2>1, NAssumption DEF TakeOf, NoTake, Entries
  <2>7. (\A f \in rec.events : Broken(f, s, t)) /\ s \notin rec.events
    BY <1>1, <2>3 DEF MixOK, IsOver, Broken, Entries
  <2>8. \A e \in Entries : t[e] # NoTake =>
          e < s /\ \A f \in t[e].mixed : Broken(f, e, t)
    BY <1>1, <2>3 DEF MixOK, IsOver
  <2>9. MixOK("recording", s, new, t)
    BY <2>4, <2>5, <2>6, <2>7, <2>8 DEF MixOK
  <2> QED
    BY <1>1, <2>3, <2>9, MixStep
<1>6. ASSUME StopRecording(p) PROVE MixInv'
  <2>1. PICK stopped : stopped = Stopped(p, rec)
    OBVIOUS
  <2>2. recorder' = [recorder EXCEPT ![p] = stopped] /\ UNCHANGED <<phase, slot, take>>
    BY <1>0, <1>1, <1>6, <2>1 DEF StopRecording, pageVars
  <2> QED
    BY <1>1, <1>2, <2>1, <2>2, MixStep
<1>7. ASSUME FailTake(p) PROVE MixInv'
  <2>1. PICK stopped : stopped = Stopped(p, rec)
    OBVIOUS
  <2>2. PICK new : new = [stopped EXCEPT !.failed = TRUE]
    OBVIOUS
  <2>3. /\ recorder' = [recorder EXCEPT ![p] = new] /\ UNCHANGED <<slot, take>>
        /\ phase' = [phase EXCEPT ![p] = "finalizing"] /\ ph = "recording"
    BY <1>0, <1>1, <1>7, <2>1, <2>2 DEF FailTake
  <2>4. MixOK(ph, s, stopped, t) /\ stopped \in Recorders
    BY <1>2, <2>1
  <2>5. /\ new.live = stopped.live /\ new.listening = stopped.listening
        /\ new.mixed = stopped.mixed /\ new.blob = stopped.blob /\ new.events = stopped.events
    BY <2>2, <2>4 DEF Recorders
  <2>6. MixOK("finalizing", s, new, t)
    BY <2>3, <2>4, <2>5 DEF MixOK, IsOver
  <2> QED
    BY <1>1, <2>3, <2>6, MixStep
<1>8. ASSUME NEW kind \in Ends, RecorderError(p, kind) PROVE MixInv'
  <2>1. PICK stopped : stopped = Stopped(p, rec)
    OBVIOUS
  <2>2. PICK blob : blob = TakeOf(p, s, rec.mixed, kind)
    OBVIOUS
  <2>3. PICK new : new = [stopped EXCEPT !.listening = 0, !.blob = blob]
    OBVIOUS
  <2>4. /\ recorder' = [recorder EXCEPT ![p] = new] /\ UNCHANGED <<phase, slot, take>>
        /\ rec.live /\ kind # "good"
    BY <1>0, <1>1, <1>8, <2>1, <2>2, <2>3 DEF RecorderError
  <2>5. /\ MixOK(ph, s, stopped, t) /\ stopped \in Recorders /\ ~stopped.live
        /\ stopped.listening = rec.listening /\ stopped.mixed = rec.mixed
        /\ stopped.events = rec.events \cup {s}
    BY <1>2, <2>1, <2>4
  <2>6. /\ new.live = stopped.live /\ new.listening = 0
        /\ new.mixed = stopped.mixed /\ new.blob = blob /\ new.events = stopped.events
    BY <2>3, <2>5 DEF Recorders
  <2>7. blob.mixed = rec.mixed /\ IsFailure(blob)
    BY <2>2, <2>4 DEF TakeOf, IsFailure
  <2>8. blob # NoTake
    BY <1>1, <2>2, NAssumption DEF TakeOf, NoTake, Entries
  <2>9. \A f \in rec.mixed : Broken(f, s, t)
    BY <1>1 DEF MixOK
  <2>10. \A f \in rec.events : Broken(f, s, t) \/ f = s
    BY <1>1 DEF MixOK
  <2>11. MixOK(ph, s, new, t)
    BY <1>1, <2>4, <2>5, <2>6, <2>7, <2>8, <2>9, <2>10 DEF MixOK
  <2> QED
    BY <1>1, <2>4, <2>11, MixStep
<1>9. ASSUME NEW e \in Entries, NEW kind \in Ends, StopEvent(p, e, kind) PROVE MixInv'
  <2>0. UNCHANGED <<phase, slot, take>>
    BY <1>9 DEF StopEvent
  <2>1. CASE rec.listening = e
    <3>1. PICK blob : blob = TakeOf(p, e, rec.mixed, kind)
      OBVIOUS
    <3>2. PICK new : new = [rec EXCEPT !.events = @ \ {e}, !.listening = 0, !.blob = blob]
      OBVIOUS
    <3>3. recorder' = [recorder EXCEPT ![p] = new]
      <4>1. recorder' = [recorder EXCEPT ![p].events = @ \ {e}, ![p].listening = 0,
                           ![p].blob = blob]
        BY <1>0, <1>9, <2>1, <3>1 DEF StopEvent
      <4> QED
        BY <1>0, <1>1, <3>2, <4>1
    <3>4. e = s
      BY <1>1, <2>1, NAssumption DEF RecorderOK, Entries
    <3>5. /\ new.live = rec.live /\ new.listening = 0 /\ new.mixed = rec.mixed
          /\ new.blob = blob /\ new.events = rec.events \ {s} /\ blob.mixed = rec.mixed
      BY <1>1, <3>1, <3>2, <3>4 DEF Recorders, TakeOf
    <3>6. ~rec.live /\ ph # "preparation"
      <4>1. e \in rec.events
        BY <1>0, <1>9 DEF StopEvent
      <4> QED
        BY <1>1, <2>1, <3>4, <4>1 DEF MixOK
    <3>7. MixOK(ph, s, new, t)
      BY <1>1, <3>5, <3>6 DEF MixOK
    <3> QED
      BY <1>1, <2>0, <3>3, <3>7, MixStep
  <2>2. CASE rec.listening # e
    <3>1. PICK data \in {{}, {e}} :
            /\ rec.listening = 0 => data = {}
            /\ recorder' = [recorder EXCEPT ![p].events = @ \ {e}, ![p].mixed = @ \cup data]
      BY <1>0, <1>9, <2>2 DEF StopEvent
    <3>2. PICK new : new = [rec EXCEPT !.events = @ \ {e}, !.mixed = @ \cup data]
      OBVIOUS
    <3>3. recorder' = [recorder EXCEPT ![p] = new]
      BY <1>0, <1>1, <3>1, <3>2
    <3>4. /\ new.live = rec.live /\ new.listening = rec.listening
          /\ new.mixed = rec.mixed \cup data
          /\ new.blob = rec.blob /\ new.events = rec.events \ {e}
      BY <1>1, <3>2 DEF Recorders
    <3>5. rec.listening # 0 => Broken(e, s, t)
      <4>1. e \in rec.events
        BY <1>0, <1>9 DEF StopEvent
      <4> QED
        BY <1>1, <2>2, <4>1 DEF MixOK, RecorderOK
    <3>6. \A f \in data : Broken(f, s, t)
      BY <3>1, <3>5
    <3>7. MixOK(ph, s, new, t)
      BY <1>1, <3>4, <3>6 DEF MixOK
    <3> QED
      BY <1>1, <2>0, <3>3, <3>7, MixStep
  <2> QED
    BY <2>1, <2>2
<1>10. ASSUME QueueTake(p) PROVE MixInv'
  <2>1. PICK kept : kept = IF rec.failed /\ rec.blob.kind = "good"
                             THEN [rec.blob EXCEPT !.kind = "cut"] ELSE rec.blob
    OBVIOUS
  <2>2. PICK u : u = [t EXCEPT ![s] = kept]
    OBVIOUS
  <2>3. PICK new : new = [NoRecorder EXCEPT !.events = Stopped(p, rec).events]
    OBVIOUS
  <2>4. PICK s1, ph1 :
          /\ s1 = IF s < N THEN s + 1 ELSE s
          /\ ph1 = IF s < N THEN "preparation" ELSE "completed"
    OBVIOUS
  <2>5. /\ take' = [take EXCEPT ![p] = u] /\ recorder' = [recorder EXCEPT ![p] = new]
        /\ phase' = [phase EXCEPT ![p] = ph1] /\ slot' = [slot EXCEPT ![p] = s1]
        /\ rec.blob # NoTake /\ ph \in {"recording", "finalizing"}
    <3>1. take' = [take EXCEPT ![p] = u]
      BY <1>0, <1>1, <1>10, <2>1, <2>2 DEF QueueTake
    <3>2. recorder' = [recorder EXCEPT ![p] = new]
      BY <1>0, <1>10, <2>3 DEF QueueTake
    <3>3. phase' = [phase EXCEPT ![p] = ph1] /\ slot' = [slot EXCEPT ![p] = s1]
      BY <1>0, <1>1, <1>10, <2>4 DEF QueueTake
    <3> QED
      BY <1>0, <1>10, <3>1, <3>2, <3>3 DEF QueueTake
  <2>6. /\ rec.listening = 0 /\ ~rec.live
        /\ \A f \in rec.blob.mixed : Broken(f, s, t)
        /\ \A f \in rec.events : Broken(f, s, t) \/ (f = s /\ IsFailure(rec.blob))
        /\ \A e \in Entries : t[e] # NoTake =>
             e < s /\ \A f \in t[e].mixed : Broken(f, e, t)
    BY <1>1, <2>5 DEF MixOK, IsOver
  <2>7. /\ new.live = FALSE /\ new.listening = 0 /\ new.mixed = {} /\ new.blob = NoTake
        /\ new.events = rec.events /\ NoTake.mixed = {}
    BY <1>2, <2>3, <2>6 DEF NoRecorder, NoTake
  <2>8. rec.blob \in Takes
    BY <1>1, <2>5 DEF Recorders
  <2>9. kept.mixed = rec.blob.mixed /\ (IsFailure(rec.blob) => IsFailure(kept))
    BY <2>1, <2>8 DEF Takes, IsFailure
  <2>10. u[s] = kept /\ \A f \in Entries \ {s} : u[f] = t[f]
    BY <1>1, <2>2
  <2>11. s \in Nat /\ s <= N /\ s1 \in Nat /\ (s < s1 \/ (s1 = s /\ IsOver(ph1))) /\ s <= s1
         /\ ph1 # "new"
    BY <1>1, <2>4, NAssumption DEF Entries, IsOver
  <2>12. ASSUME NEW f \in Entries, NEW x \in Entries, x = s \/ x < s, Broken(f, x, t)
         PROVE  Broken(f, x, u)
    <3>1. f < x /\ f # s
      BY <1>1, <2>12, NAssumption DEF Broken, Entries
    <3> QED
      BY <2>10, <2>12, <3>1 DEF Broken
  <2>13. \A f \in Entries : Broken(f, s, u) => Broken(f, s1, u)
    BY <2>11, NAssumption DEF Broken, Entries
  <2>14. rec.blob.mixed \subseteq Entries /\ rec.events \subseteq Entries
         /\ \A e \in Entries : t[e].mixed \subseteq Entries
    BY <1>1, <2>8 DEF Recorders, Takes, NoTake
  <2>15. \A f \in rec.events : Broken(f, s1, u) \/ (f = s1 /\ IsOver(ph1))
    <3> SUFFICES ASSUME NEW f \in rec.events PROVE Broken(f, s1, u) \/ (f = s1 /\ IsOver(ph1))
      OBVIOUS
    <3>1. CASE Broken(f, s, t)
      <4>1. f \in Entries
        BY <2>14
      <4>2. Broken(f, s, u)
        BY <1>1, <2>12, <3>1, <4>1
      <4> QED
        BY <2>13, <4>1, <4>2
    <3>2. CASE f = s /\ IsFailure(rec.blob)
      BY <2>9, <2>10, <2>11, <3>2 DEF Broken
    <3> QED
      BY <2>6, <3>1, <3>2
  <2>16. ASSUME NEW e \in Entries, u[e] # NoTake
         PROVE  (e < s1 \/ IsOver(ph1)) /\ \A f \in u[e].mixed : Broken(f, e, u)
    <3>1. CASE e = s
      <4>1. u[e].mixed = rec.blob.mixed /\ (e < s1 \/ IsOver(ph1))
        BY <2>9, <2>10, <2>11, <3>1
      <4>2. \A f \in rec.blob.mixed : f \in Entries /\ Broken(f, s, t)
        BY <2>6, <2>14
      <4> QED
        BY <2>12, <3>1, <4>1, <4>2
    <3>2. CASE e # s
      <4>1. t[e] # NoTake /\ u[e] = t[e]
        BY <2>10, <2>16, <3>2
      <4>2. e < s /\ \A f \in t[e].mixed : Broken(f, e, t)
        BY <2>6, <4>1
      <4>3. e < s1
        BY <2>11, <4>2, NAssumption DEF Entries
      <4> QED
        BY <2>12, <2>14, <4>1, <4>2, <4>3
    <3> QED
      BY <3>1, <3>2
  <2>17. MixOK(ph1, s1, new, u)
    BY <2>7, <2>11, <2>15, <2>16 DEF MixOK
  <2> QED
    BY <2>5, <2>17, MixStep
<1>11. ASSUME NEW answered \in BOOLEAN, CompleteSubmission(p, answered) PROVE MixInv'
  <2>1. PICK ph1 : ph1 = IF answered THEN "done" ELSE ph
    OBVIOUS
  <2>2. /\ phase' = [phase EXCEPT ![p] = ph1] /\ UNCHANGED <<slot, recorder, take>>
        /\ ph = "completed" /\ IsOver(ph1) /\ ph1 \notin {"new", "preparation"}
    BY <1>0, <1>1, <1>11, <2>1 DEF CompleteSubmission, IsOver
  <2>3. MixOK(ph1, s, rec, t)
    BY <1>1, <2>2 DEF MixOK
  <2> QED
    BY <1>1, <2>2, <2>3, MixStep
<1>12. CASE \/ \E e \in Entries, r \in Requests :
                 StartUpload(p, e, r) \/ RequestConfirmation(p, e, r)
            \/ \E e \in Entries : PutFails(p, e)
  BY <1>12, MixUnchanged DEF StartUpload, RequestConfirmation, PutFails, pageVars
<1> QED
  BY <1>3, <1>4, <1>5, <1>6, <1>7, <1>8, <1>9, <1>10, <1>11, <1>12 DEF PageNext

LEMMA MixNext ==
  ASSUME TypeOK, FlowOK, MixInv, [Next]_vars
  PROVE  MixInv'
<1>1. CASE (\E k \in Keys : PutLands(k)) \/ AbandonSubmission \/ UNCHANGED vars
  BY <1>1, OthersLeave, MixUnchanged
<1> QED
  BY <1>1, PageMix, RequestMix DEF Next

-----------------------------------------------------------------------------
(* The theorems. *)

\* A take under a key was recorded for the entry of the key.
ObjectsOK ==
  \A k \in Keys : object[k].take # NoTake => object[k].take.from = object[k].entry

SessionInv == RowInv /\ FlowOK /\ TakesOK /\ MixInv /\ TakeIsNeverLost /\ ObjectsOK

LEMMA InitTyped == Init => TypeOK
<1> SUFFICES ASSUME Init PROVE TypeOK
  OBVIOUS
<1>1. NoAnswer \in Answers /\ NoObject \in Objects /\ NoRecorder \in Recorders
      /\ NoUpload \in Uploads /\ Idle \in RequestRows
  BY MaxKeysAssumption
     DEF NoAnswer, Answers, NoObject, Objects, NoRecorder, Recorders, NoUpload, Uploads,
         Idle, RequestRows
<1>2. 1 \in Entries /\ 0 \in 0..MaxKeys
  BY NAssumption, MaxKeysAssumption DEF Entries
<1> QED
  BY <1>1, <1>2 DEF Init, TypeOK, Phases

LEMMA InitHolds == Init => SessionInv
<1> SUFFICES ASSUME Init PROVE SessionInv
  OBVIOUS
<1>1. \A e \in Entries : ~IsVerified(e) /\ flags[e] = 0
  BY DEF Init, IsVerified, NoAnswer
<1>2. /\ \A k \in Keys : object[k] = NoObject
      /\ \A r \in Requests : request[r] = Idle
      /\ \A p \in Pages : phase[p] = "new" /\ slot[p] \in Entries /\ recorder[p] = NoRecorder
      /\ \A p \in Pages, e \in Entries : take[p][e] = NoTake /\ upload[p][e] = NoUpload
  BY NAssumption DEF Init, Entries
<1>3. RowInv
  BY <1>1, <1>2, InitTyped DEF RowInv, KeysInOrder, Idle, VerifiedHasKey, VerifiedIsStored, OneFlagPerFailure
<1>4. FlowOK
  BY <1>2, NoRecorderRight DEF FlowOK
<1>5. TakesOK /\ TakeIsNeverLost /\ ObjectsOK
  BY <1>2 DEF TakesOK, TakeIsNeverLost, IsLive, NoUpload, ObjectsOK, NoObject
<1>6. MixInv
  BY <1>2 DEF MixInv, MixOK, NoRecorder, NoTake
<1> QED
  BY <1>3, <1>4, <1>5, <1>6 DEF SessionInv

LEMMA FlagsNext ==
  ASSUME TypeOK, OneFlagPerFailure, [Next]_vars
  PROVE  OneFlagPerFailure'
<1>0. answer \in [Entries -> Answers] /\ flags \in [Entries -> Nat]
  BY DEF TypeOK
<1>1. ASSUME UNCHANGED <<answer, flags>> PROVE OneFlagPerFailure'
  BY <1>1 DEF OneFlagPerFailure, IsVerified
<1>2. ASSUME NEW r \in Requests, CreatePresignedUpload(r) PROVE OneFlagPerFailure'
  <2>1. UNCHANGED flags
    BY <1>2 DEF CreatePresignedUpload
  <2> QED
    BY <1>2, <2>1, PresignRows DEF OneFlagPerFailure, IsVerified
<1>3. ASSUME NEW r \in Requests, ConfirmUpload(r) PROVE OneFlagPerFailure'
  <2>1. PICK e, failed : e = request[r].entry /\ failed = request[r].failed
    OBVIOUS
  <2>2. /\ e \in Entries /\ ~answer[e].verified
        /\ answer'[e] = [answer[e] EXCEPT !.verified = TRUE, !.failed = failed]
        /\ \A f \in Entries \ {e} : answer'[f] = answer[f] /\ flags'[f] = flags[f]
        /\ flags'[e] = IF failed THEN flags[e] + 1 ELSE flags[e]
    BY <1>3, <2>1, ConfirmRows DEF IsVerified
  <2>3. flags[e] = 0 /\ answer'[e].verified /\ answer'[e].failed = failed
    BY <1>0, <2>2 DEF OneFlagPerFailure, IsVerified, Answers
  <2>4. flags'[e] = IF failed THEN 1 ELSE 0
    BY <2>2, <2>3
  <2> QED
    BY <2>2, <2>3, <2>4 DEF OneFlagPerFailure, IsVerified
<1> QED
  BY <1>1, <1>2, <1>3, PagesLeaveRows, RequestsLeavePages, OthersLeave DEF Next

LEMMA StoredNext ==
  ASSUME TypeOK, KeysInOrder, VerifiedHasKey, VerifiedIsStored, [Next]_vars
  PROVE  VerifiedHasKey' /\ VerifiedIsStored'
<1>0. /\ answer \in [Entries -> Answers]
      /\ \A k \in Keys : object[k].state = "stored" => object'[k].state = "stored"
      /\ \A e \in Entries :
           answer[e].verified => answer[e].key \in Keys /\ object[answer[e].key].state = "stored"
  BY StoredStays DEF TypeOK, VerifiedIsStored, VerifiedHasKey, IsVerified
<1>1. ASSUME UNCHANGED answer
      PROVE  VerifiedHasKey' /\ VerifiedIsStored'
  BY <1>0, <1>1 DEF VerifiedIsStored, VerifiedHasKey, IsVerified
<1>2. ASSUME NEW r \in Requests, CreatePresignedUpload(r)
      PROVE  VerifiedHasKey' /\ VerifiedIsStored'
  <2>1. PICK e : e = request[r].entry
    OBVIOUS
  <2>2. ~answer'[e].verified /\ \A f \in Entries \ {e} : answer'[f] = answer[f]
    BY <1>2, <2>1, PresignRows
  <2> QED
    BY <1>0, <2>2 DEF VerifiedIsStored, VerifiedHasKey, IsVerified
<1>3. ASSUME NEW r \in Requests, ConfirmUpload(r)
      PROVE  VerifiedHasKey' /\ VerifiedIsStored'
  <2>1. PICK e, failed : e = request[r].entry /\ failed = request[r].failed
    OBVIOUS
  <2>2. /\ e \in Entries /\ answer[e].key = request[r].seen
        /\ request[r].op = "confirm" /\ request[r].seen # 0
        /\ answer'[e] = [answer[e] EXCEPT !.verified = TRUE, !.failed = failed]
        /\ \A f \in Entries \ {e} : answer'[f] = answer[f]
    BY <1>3, <2>1, ConfirmRows
  <2>3. answer'[e].key = answer[e].key
    BY <1>0, <2>2 DEF Answers
  <2>4. answer[e].key \in Keys /\ object[answer[e].key].state = "stored"
    BY <2>2 DEF KeysInOrder
  <2>5. ASSUME NEW f \in Entries, answer'[f].verified
        PROVE  answer'[f].key \in Keys /\ object'[answer'[f].key].state = "stored"
    <3>1. CASE f = e
      BY <1>0, <2>3, <2>4, <3>1
    <3>2. CASE f # e
      <4>1. answer'[f] = answer[f]
        BY <2>2, <3>2
      <4> QED
        BY <1>0, <2>5, <4>1
    <3> QED
      BY <3>1, <3>2
  <2> QED
    BY <2>5 DEF VerifiedIsStored, VerifiedHasKey, IsVerified
<1> QED
  BY <1>1, <1>2, <1>3, PagesLeaveRows, RequestsLeavePages, OthersLeave DEF Next

LEMMA ObjectsNext ==
  ASSUME TypeOK, TakesOK, ObjectsOK, [Next]_vars
  PROVE  ObjectsOK'
<1>0. object \in [Keys -> Objects]
  BY DEF TypeOK
<1>1. ASSUME UNCHANGED object PROVE ObjectsOK'
  BY <1>1 DEF ObjectsOK
<1>2. ASSUME NEW r \in Requests, CreatePresignedUpload(r) PROVE ObjectsOK'
  <2>1. PICK p, e, t : p = request[r].page /\ e = request[r].entry /\ t = take[p][e]
    OBVIOUS
  <2>2. p \in Pages /\ e \in Entries
    BY <1>2, <2>1, RequestIsTyped DEF CreatePresignedUpload, Requested
  <2>3. t # NoTake => t.from = e
    BY <2>1, <2>2 DEF TakesOK
  <2>4. PICK held \in {t, NoTake}, state \in {"sent", "issued"} :
          object' = [object EXCEPT ![issued + 1] =
            [entry |-> e, page |-> p, take |-> held, state |-> state]]
    BY <1>2, <2>1 DEF CreatePresignedUpload
  <2>5. issued + 1 \in Keys
    BY <1>2, PresignRows
  <2>6. /\ object'[issued + 1].take = held /\ object'[issued + 1].entry = e
        /\ \A k \in Keys \ {issued + 1} : object'[k] = object[k]
    BY <1>0, <2>4, <2>5
  <2> QED
    BY <2>3, <2>6 DEF ObjectsOK
<1>3. ASSUME NEW l \in Keys, PutLands(l) PROVE ObjectsOK'
  <2>1. /\ \A k \in Keys \ {l} : object'[k] = object[k]
        /\ object'[l].take = object[l].take /\ object'[l].entry = object[l].entry
    BY <1>0, <1>3, PutRows DEF Objects
  <2> QED
    BY <2>1 DEF ObjectsOK
<1> QED
  BY <1>1, <1>2, <1>3, PagesLeaveRows, RequestsLeavePages, OthersLeave DEF Next

LEMMA SessionInductive ==
  /\ Init => SessionInv
  /\ SessionInv /\ [Next]_vars => SessionInv'
<1>1. ASSUME SessionInv, [Next]_vars PROVE SessionInv'
  <2>0. TypeOK /\ HeldInv /\ RowInv /\ FlowOK /\ ObjectsOK
    BY <1>1 DEF SessionInv, RowInv, HeldInv
  <2>1. RowTypes'
    BY <1>1, <2>0, RowTypesNext
  <2>2. request' \in [Requests -> RequestRows] /\ KeysInOrder'
    BY <1>1, <2>0, RequestsNext DEF RowInv
  <2>3. FlowRight
    BY <1>1, <2>0, FlowNext
  <2>4. HeldRight
    BY <1>1, <2>0, HeldNext
  <2>5. TypeOK'
    BY <2>1, <2>2, <2>3, <2>4 DEF TypeOK, RowTypes, FlowRight, HeldRight
  <2>6. OneFlagPerFailure' /\ VerifiedHasKey' /\ VerifiedIsStored'
    BY <1>1, <2>0, FlagsNext, StoredNext DEF RowInv
  <2>7. ObjectsOK'
    BY <1>1, <2>0, ObjectsNext DEF HeldInv
  <2>8. MixInv'
    BY <1>1, <2>0, MixNext DEF SessionInv
  <2> QED
    BY <2>2, <2>3, <2>4, <2>5, <2>6, <2>7, <2>8 DEF SessionInv, RowInv, FlowRight, HeldRight
<1> QED
  BY <1>1, InitHolds

\* The tables, the requests and the pages keep their types.
THEOREM SessionTypeSafety == Spec => []TypeOK
<1>1. SessionInv => TypeOK
  BY DEF SessionInv, RowInv
<1> QED
  BY <1>1, SessionInductive, PTL DEF Spec

\* The Answer names an object that is in storage, however the presigns and
\* confirmations of any number of pages cross.
THEOREM VerifiedNamesAnObject == Spec => []VerifiedIsStored
<1>1. SessionInv => VerifiedIsStored
  BY DEF SessionInv, RowInv
<1> QED
  BY <1>1, SessionInductive, PTL DEF Spec

\* A failed Answer has one device flag, however often a confirmation is executed.
THEOREM FailureHasOneFlag == Spec => []OneFlagPerFailure
<1>1. SessionInv => OneFlagPerFailure
  BY DEF SessionInv, RowInv
<1> QED
  BY <1>1, SessionInductive, PTL DEF Spec

\* No late event of a recorder ends or replaces the take of another entry, and the
\* late data that does get into it is of an earlier entry whose take is a failure.
THEOREM TakesKeepTheirEntry == Spec => []TakeIsOfItsEntry
<1>1. ASSUME SessionInv PROVE TakeIsOfItsEntry
  <2>1. ASSUME NEW p \in Pages, NEW e \in Entries, take[p][e] # NoTake
        PROVE  /\ take[p][e].from = e
               /\ \A f \in take[p][e].mixed :
                    f < e /\ (take[p][f] # NoTake => IsFailure(take[p][f]))
    BY <1>1, <2>1 DEF SessionInv, TakesOK, MixInv, MixOK, Broken
  <2> QED
    BY <1>1, <2>1 DEF SessionInv, ObjectsOK, TakeIsOfItsEntry
<1> QED
  BY <1>1, SessionInductive, PTL DEF Spec

\* A page forgets a take only for a verified Answer.
THEOREM TakesAreKept == Spec => []TakeIsNeverLost
<1>1. SessionInv => TakeIsNeverLost
  BY DEF SessionInv
<1> QED
  BY <1>1, SessionInductive, PTL DEF Spec

\* No request that is still on its way changes a verified Answer, or anything
\* after the end of the recording.
THEOREM EvidenceStays == Spec => EvidenceIsFinal
<1> DEFINE Stays == /\ \A e \in Entries : IsVerified(e) => answer'[e] = answer[e]
                    /\ status # "IN_PROGRESS" => UNCHANGED <<answer, flags>>
<1>1. SessionInv /\ [Next]_vars => [Stays]_vars
  BY VerifiedStays DEF SessionInv, RowInv
<1> QED
  BY <1>1, SessionInductive, PTL DEF Spec, EvidenceIsFinal

-----------------------------------------------------------------------------
(* The report of a failure.  A page has one take per entry: it passes a slot *)
(* once.  So whatever it PUTs for the entry, however often it retries, is     *)
(* that take, and what it reports with a confirmation is about that take.    *)

Passed(p, e) == phase[p] = "closed" \/ IsPassed(p, e)

\* An upload that is not over has its take, and at most one request that the page
\* still waits for; an upload key is for the page and the entry it is used by.
UploadsOK ==
  /\ \A p \in Pages, e \in Entries :
       /\ take[p][e] # NoTake => Passed(p, e)
       /\ upload[p][e].state \notin {"idle", "uploaded"} => take[p][e] # NoTake
       /\ upload[p][e].state = "uploading" =>
            /\ upload[p][e].key \in 1..issued
            /\ object[upload[p][e].key].page = p /\ object[upload[p][e].key].entry = e
  /\ \A r \in Requests : request[r] # Idle => Passed(request[r].page, request[r].entry)
  /\ \A r \in Requests : request[r] # Idle /\ request[r].awaited =>
       upload[request[r].page][request[r].entry].state =
         IF request[r].op = "presign" THEN "signing" ELSE "verifying"
  /\ \A q, r \in Requests :
       /\ request[q] # Idle /\ request[q].awaited
       /\ request[r] # Idle /\ request[r].awaited
       /\ request[q].page = request[r].page /\ request[q].entry = request[r].entry
       => q = r

\* Everything a page PUT for an entry is one take, the one it still holds if any.
KeysOK ==
  /\ \A k \in 1..issued :
       /\ object[k].page \in Pages /\ object[k].entry \in Entries
       /\ Passed(object[k].page, object[k].entry)
       /\ object[k].state \in {"sent", "stored"} => object[k].take # NoTake
       /\ object[k].take # NoTake /\ take[object[k].page][object[k].entry] # NoTake =>
            object[k].take = take[object[k].page][object[k].entry]
  /\ \A k, l \in 1..issued :
       /\ object[k].page = object[l].page /\ object[k].entry = object[l].entry
       /\ object[k].take # NoTake /\ object[l].take # NoTake
       => object[k].take = object[l].take

\* A confirmation reports the take of its page, and what the inspection found of
\* the object it inspected, whosever that is.
ConfirmOK(row) ==
  row.op = "confirm" =>
    \E k \in 1..issued :
      /\ object[k].page = row.page /\ object[k].entry = row.entry
      /\ object[k].state = "stored"
      /\ row.seen = 0 => (row.failed <=> IsFailure(object[k].take))
      /\ row.seen # 0 =>
           /\ row.seen \in 1..issued /\ object[row.seen].entry = row.entry
           /\ object[row.seen].state = "stored"
           /\ row.failed <=> \/ IsFailure(object[k].take)
                             \/ object[row.seen].take.kind \in {"short", "empty"}

\* An Answer has a key of its own entry.
AnswersOK ==
  \A e \in Entries : answer[e].key # 0 =>
    answer[e].key \in 1..issued /\ object[answer[e].key].entry = e

ReportInv ==
  /\ UploadsOK /\ KeysOK
  /\ \A r \in Requests : ConfirmOK(request[r])
  /\ AnswersOK /\ FailureIsReported

LEMMA KeyRange ==
  ASSUME TypeOK
  PROVE  /\ issued \in Nat /\ 1..issued \subseteq Keys
         /\ \A k \in Keys : k \in Nat /\ (k \notin 1..issued => k > issued)
  BY MaxKeysAssumption DEF TypeOK, Keys

\* A key stays what it was handed out for; only its PUT may land.
LEMMA KeysKept ==
  ASSUME TypeOK, KeysInOrder, [Next]_vars
  PROVE  /\ 1..issued \subseteq 1..issued'
         /\ \A k \in 1..issued :
              /\ object'[k].page = object[k].page /\ object'[k].entry = object[k].entry
              /\ object'[k].take = object[k].take
              /\ object[k].state = "stored" => object'[k].state = "stored"
              /\ object'[k].state \in {"sent", "stored"} => object[k].state \in {"sent", "stored"}
<1>0. issued \in Nat /\ 1..issued \subseteq Keys /\ object \in [Keys -> Objects]
  BY KeyRange DEF TypeOK
<1>1. CASE UNCHANGED <<issued, object>>
  BY <1>1
<1>2. ASSUME NEW r \in Requests, CreatePresignedUpload(r)
      PROVE  issued' = issued + 1 /\ \A k \in 1..issued : object'[k] = object[k]
  <2>1. /\ issued + 1 \in Keys /\ issued' = issued + 1
        /\ \A k \in Keys \ {issued + 1} : object'[k] = object[k]
    BY <1>2, PresignRows
  <2> QED
    BY <1>0, <2>1
<1>3. ASSUME NEW l \in Keys, PutLands(l)
      PROVE  /\ issued' = issued /\ object[l].state = "sent"
             /\ \A k \in Keys \ {l} : object'[k] = object[k]
             /\ object'[l].page = object[l].page /\ object'[l].entry = object[l].entry
             /\ object'[l].take = object[l].take /\ object'[l].state = "stored"
  BY <1>0, <1>3, PutRows DEF PutLands, Objects
<1>4. CASE \E r \in Requests : CreatePresignedUpload(r)
  BY <1>0, <1>2, <1>4
<1>5. CASE \E l \in Keys : PutLands(l)
  <2>1. PICK l \in Keys : PutLands(l)
    BY <1>5
  <2> QED
    BY <1>0, <1>3, <2>1
<1> QED
  BY <1>1, <1>4, <1>5, PagesLeaveRows, RequestsLeavePages, OthersLeave DEF Next

\* What is handed out in a step was asked for, with the take the page still holds.
LEMMA NewKeys ==
  ASSUME TypeOK, KeysInOrder, [Next]_vars, NEW k \in 1..issued', k \notin 1..issued
  PROVE  \E r \in Requests :
           /\ request[r] \in Requested /\ request[r].op = "presign"
           /\ object'[k].page = request[r].page /\ object'[k].entry = request[r].entry
           /\ object'[k].take =
                IF request[r].awaited THEN take[request[r].page][request[r].entry] ELSE NoTake
           /\ object'[k].state = IF request[r].awaited THEN "sent" ELSE "issued"
           /\ UNCHANGED take
<1>0. issued \in Nat /\ object \in [Keys -> Objects]
  BY KeyRange DEF TypeOK
<1>1. issued' # issued
  BY <1>0
<1>2. PICK r \in Requests : CreatePresignedUpload(r)
  BY <1>1, PagesLeaveRows, RequestsLeavePages, OthersLeave DEF Next, PutLands
<1>3. issued + 1 \in Keys /\ issued' = issued + 1
  BY <1>2, PresignRows
<1>4. k = issued + 1
  BY <1>0, <1>3
<1>5. request[r] \in Requested /\ request[r].op = "presign" /\ UNCHANGED take
  BY <1>2, RequestIsTyped DEF CreatePresignedUpload
<1>6. object' = [object EXCEPT ![issued + 1] =
        [entry |-> request[r].entry, page |-> request[r].page,
         take |-> IF request[r].awaited THEN take[request[r].page][request[r].entry] ELSE NoTake,
         state |-> IF request[r].awaited THEN "sent" ELSE "issued"]]
  BY <1>2 DEF CreatePresignedUpload
<1> QED
  BY <1>0, <1>3, <1>4, <1>5, <1>6

\* What a page is done with, it stays done with.
LEMMA PassedStays ==
  ASSUME TypeOK, [Next]_vars, NEW q \in Pages, NEW f \in Entries, Passed(q, f)
  PROVE  Passed(q, f)'
<1>0. /\ phase \in [Pages -> Phases] /\ slot \in [Pages -> Entries] /\ f \in Nat /\ N \in Nat
      /\ \A p \in Pages : slot[p] \in Nat
  BY NAssumption DEF TypeOK, Entries
<1>k. ASSUME phase'[q] = phase[q], slot'[q] = slot[q] PROVE Passed(q, f)'
  BY <1>k DEF Passed, IsPassed, IsLive
<1>1. ASSUME NEW p \in Pages, OpenPage(p) PROVE Passed(q, f)'
  <2>1. phase[p] = "new" /\ (q # p => phase'[q] = phase[q] /\ slot'[q] = slot[q])
    BY <1>0, <1>1 DEF OpenPage
  <2> QED
    BY <1>k, <2>1 DEF Passed, IsPassed, IsLive
<1>2. ASSUME NEW p \in Pages, ClosePage(p) PROVE Passed(q, f)'
  <2>1. phase'[p] = "closed" /\ (q # p => phase'[q] = phase[q] /\ slot'[q] = slot[q])
    BY <1>0, <1>2 DEF ClosePage
  <2> QED
    BY <1>k, <2>1 DEF Passed
<1>3. ASSUME NEW p \in Pages, (\E starts \in BOOLEAN : StartRecording(p, starts)) \/ FailTake(p)
      PROVE  Passed(q, f)'
  <2>1. /\ phase[p] \in {"preparation", "recording"} /\ phase'[p] \in {"recording", "finalizing"}
        /\ slot' = slot /\ (q # p => phase'[q] = phase[q])
    BY <1>0, <1>3 DEF StartRecording, FailTake
  <2> QED
    BY <1>k, <2>1 DEF Passed, IsPassed, IsLive
<1>4. ASSUME NEW p \in Pages, QueueTake(p) PROVE Passed(q, f)'
  <2>1. /\ phase[p] \in {"recording", "finalizing"}
        /\ (q # p => phase'[q] = phase[q] /\ slot'[q] = slot[q])
        /\ \/ phase'[p] = "preparation" /\ slot'[p] = slot[p] + 1
           \/ phase'[p] = "completed"
    BY <1>0, <1>4 DEF QueueTake
  <2>2. CASE q = p
    BY <1>0, <2>1, <2>2 DEF Passed, IsPassed, IsLive
  <2> QED
    BY <1>k, <2>1, <2>2
<1>5. ASSUME NEW p \in Pages, \E answered \in BOOLEAN : CompleteSubmission(p, answered)
      PROVE  Passed(q, f)'
  <2>1. /\ phase[p] = "completed" /\ phase'[p] \in {"completed", "done"}
        /\ slot' = slot /\ (q # p => phase'[q] = phase[q])
    BY <1>0, <1>5 DEF CompleteSubmission
  <2> QED
    BY <1>k, <2>1 DEF Passed, IsPassed, IsLive
<1>6. ASSUME NEW p \in Pages,
             \/ StopRecording(p)
             \/ \E kind \in Ends : RecorderError(p, kind)
             \/ \E e \in Entries, kind \in Ends : StopEvent(p, e, kind)
             \/ \E e \in Entries, r \in Requests :
                  StartUpload(p, e, r) \/ RequestConfirmation(p, e, r)
             \/ \E e \in Entries : PutFails(p, e)
      PROVE  Passed(q, f)'
  <2>1. UNCHANGED <<phase, slot>>
    BY <1>6 DEF StopRecording, RecorderError, StopEvent, StartUpload, RequestConfirmation,
                PutFails, pageVars
  <2> QED
    BY <1>k, <2>1
<1>7. ASSUME NEW p \in Pages, PageNext(p) PROVE Passed(q, f)'
  BY <1>1, <1>2, <1>3, <1>4, <1>5, <1>6, <1>7 DEF PageNext
<1> QED
  BY <1>7, <1>k, RequestsLeavePages, OthersLeave DEF Next

\* What a step does to the upload of one take: it is left alone or over, it begins
\* with the take, or it goes on with the take it has.
UploadMove(p, e) ==
  \/ take'[p][e] = take[p][e] /\ upload'[p][e] = upload[p][e]
  \/ take'[p][e] \in {take[p][e], NoTake} /\ upload'[p][e].state \in {"idle", "uploaded"}
  \/ /\ ~Passed(p, e) /\ Passed(p, e)'
     /\ take'[p][e] # NoTake /\ upload'[p][e].state = "ready"
  \/ /\ upload[p][e].state \notin {"idle", "uploaded"}
     /\ take'[p][e] = take[p][e]
     /\ \/ upload'[p][e].state \in {"failed", "signing", "verifying"}
        \/ /\ upload'[p][e].state = "uploading"
           /\ upload'[p][e].key \in 1..issued'
           /\ object'[upload'[p][e].key].page = p /\ object'[upload'[p][e].key].entry = e

\* What a page learns ends its upload or lets it go on.
LEMMA LearnMoves ==
  ASSUME TypeOK, UploadsOK, NEW r \in Requests, request[r] # Idle,
         NEW p \in Pages, NEW e \in Entries, NEW u,
         upload' = IF request[r].awaited
                     THEN [upload EXCEPT ![request[r].page][request[r].entry] = u] ELSE upload,
         \/ UNCHANGED take /\ u.state = "failed"
         \/ u.state = "uploaded"
            /\ take' = IF request[r].awaited
                         THEN [take EXCEPT ![request[r].page][request[r].entry] = NoTake] ELSE take
  PROVE  UploadMove(p, e)
<1>0. /\ take \in [Pages -> [Entries -> Takes \cup {NoTake}]]
      /\ upload \in [Pages -> [Entries -> Uploads]]
      /\ request[r] \in Requested
  BY RequestIsTyped DEF TypeOK
<1>1. PICK q \in Pages, f \in Entries : q = request[r].page /\ f = request[r].entry
  BY <1>0 DEF Requested
<1>2. CASE ~request[r].awaited \/ p # q \/ e # f
  <2>1. upload'[p][e] = upload[p][e]
    BY <1>0, <1>1, <1>2
  <2>2. take'[p][e] = take[p][e]
    BY <1>0, <1>1, <1>2
  <2> QED
    BY <2>1, <2>2 DEF UploadMove
<1>3. CASE request[r].awaited /\ p = q /\ e = f
  <2>1. upload[p][e].state \notin {"idle", "uploaded"}
    BY <1>1, <1>3 DEF UploadsOK
  <2>2. upload'[p][e] = u
    BY <1>0, <1>1, <1>3
  <2>3. UNCHANGED take => take'[p][e] = take[p][e]
    OBVIOUS
  <2>4. take' = [take EXCEPT ![q][f] = NoTake] => take'[p][e] = NoTake
    BY <1>0, <1>3
  <2> QED
    BY <1>1, <1>3, <2>1, <2>2, <2>3, <2>4 DEF UploadMove
<1> QED
  BY <1>2, <1>3

LEMMA PageUploads ==
  ASSUME TypeOK, FlowOK, UploadsOK, NEW q \in Pages, PageNext(q), NEW p \in Pages, NEW e \in Entries
  PROVE  UploadMove(p, e)
<1>0. /\ take \in [Pages -> [Entries -> Takes \cup {NoTake}]]
      /\ upload \in [Pages -> [Entries -> Uploads]]
      /\ phase \in [Pages -> Phases] /\ slot \in [Pages -> Entries] /\ N \in Nat
      /\ \A f \in Entries : f \in Nat
  BY NAssumption DEF TypeOK, Entries
<1>k. ASSUME take'[p] = take[p], upload'[p] = upload[p] PROVE UploadMove(p, e)
  BY <1>k DEF UploadMove
<1>1. CASE OpenPage(q)
  <2>1. /\ UNCHANGED take
        /\ upload' = [upload EXCEPT ![q] =
             [f \in Entries |->
               [NoUpload EXCEPT !.state = IF IsVerified(f) THEN "uploaded" ELSE "idle"]]]
    BY <1>1 DEF OpenPage
  <2>2. CASE p = q
    <3>1. upload'[p][e].state \in {"idle", "uploaded"}
      BY <1>0, <2>1, <2>2 DEF NoUpload
    <3> QED
      BY <2>1, <3>1 DEF UploadMove
  <2>3. CASE p # q
    BY <1>0, <1>k, <2>1, <2>3
  <2> QED
    BY <2>2, <2>3
<1>2. CASE ClosePage(q)
  <2>1. /\ take' = [take EXCEPT ![q] = [f \in Entries |-> NoTake]]
        /\ upload' = [upload EXCEPT ![q] = [f \in Entries |-> NoUpload]]
    BY <1>2 DEF ClosePage
  <2>2. CASE p = q
    BY <1>0, <2>1, <2>2 DEF UploadMove, NoUpload
  <2>3. CASE p # q
    BY <1>0, <1>k, <2>1, <2>3
  <2> QED
    BY <2>2, <2>3
<1>3. CASE QueueTake(q)
  <2>a. PICK s \in Entries : s = slot[q]
    BY <1>0
  <2>b. PICK t : t = IF recorder[q].failed /\ recorder[q].blob.kind = "good"
                       THEN [recorder[q].blob EXCEPT !.kind = "cut"] ELSE recorder[q].blob
    OBVIOUS
  <2>1. recorder[q].blob # NoTake /\ take' = [take EXCEPT ![q][s] = t]
    BY <1>3, <2>a, <2>b DEF QueueTake
  <2>2. /\ phase[q] \in {"recording", "finalizing"}
        /\ upload' = [upload EXCEPT ![q][slot[q]] = [state |-> "ready", key |-> 0]]
        /\ \/ phase'[q] = "preparation" /\ slot'[q] = slot[q] + 1
           \/ phase'[q] = "completed"
    BY <1>0, <1>3 DEF QueueTake
  <2>3. CASE p = q /\ e = s
    <3>1. recorder[q].blob \in Takes
      BY <2>1 DEF TypeOK, Recorders
    <3>2. t # NoTake
      BY <2>b, <3>1, PagesAssumption DEF Takes, NoTake
    <3>3. take'[p][e] = t /\ upload'[p][e].state = "ready"
      BY <1>0, <2>a, <2>1, <2>2, <2>3
    <3>4. ~Passed(p, e) /\ Passed(p, e)'
      BY <1>0, <2>a, <2>2, <2>3 DEF Passed, IsPassed, IsLive
    <3> QED
      BY <3>2, <3>3, <3>4 DEF UploadMove
  <2>4. CASE ~(p = q /\ e = s)
    BY <1>0, <2>a, <2>1, <2>2, <2>4 DEF UploadMove
  <2> QED
    BY <2>3, <2>4
<1>4. ASSUME NEW f \in Entries,
             \/ \E r \in Requests : StartUpload(q, f, r) \/ RequestConfirmation(q, f, r)
             \/ PutFails(q, f)
      PROVE  UploadMove(p, e)
  <2>1. PICK st \in {"failed", "signing", "verifying"} :
          /\ upload' = [upload EXCEPT ![q][f] = [state |-> st, key |-> 0]]
          /\ upload[q][f].state \in {"ready", "failed", "uploading"}
          /\ UNCHANGED take
    BY <1>4 DEF StartUpload, RequestConfirmation, PutFails
  <2>2. CASE p = q /\ e = f
    BY <1>0, <2>1, <2>2 DEF UploadMove
  <2>3. CASE ~(p = q /\ e = f)
    BY <1>0, <2>1, <2>3 DEF UploadMove
  <2> QED
    BY <2>2, <2>3
<1>5. CASE \/ \E starts \in BOOLEAN : StartRecording(q, starts)
           \/ StopRecording(q) \/ FailTake(q)
           \/ \E kind \in Ends : RecorderError(q, kind)
           \/ \E f \in Entries, kind \in Ends : StopEvent(q, f, kind)
           \/ \E answered \in BOOLEAN : CompleteSubmission(q, answered)
  <2>1. UNCHANGED <<take, upload>>
    BY <1>5 DEF StartRecording, StopRecording, FailTake, RecorderError, StopEvent,
                CompleteSubmission
  <2> QED
    BY <1>k, <2>1
<1> QED
  BY <1>1, <1>2, <1>3, <1>4, <1>5 DEF PageNext

LEMMA UploadMoves ==
  ASSUME TypeOK, KeysInOrder, FlowOK, UploadsOK, [Next]_vars, NEW p \in Pages, NEW e \in Entries
  PROVE  UploadMove(p, e)
<1>k. ASSUME UNCHANGED <<take, upload>> PROVE UploadMove(p, e)
  BY <1>k DEF UploadMove
<1>1. ASSUME NEW r \in Requests, CreatePresignedUpload(r) PROVE UploadMove(p, e)
  <2>0. /\ upload \in [Pages -> [Entries -> Uploads]] /\ object \in [Keys -> Objects]
        /\ request[r] \in Requested /\ request[r] # Idle
        /\ issued + 1 \in Keys /\ issued' = issued + 1
        /\ issued \in Nat
    BY <1>1, PresignRows, RequestIsTyped, KeyRange DEF TypeOK, CreatePresignedUpload, Idle
  <2>1. PICK q \in Pages, f \in Entries : q = request[r].page /\ f = request[r].entry
    BY <2>0 DEF Requested
  <2>2. /\ UNCHANGED take
        /\ upload' = IF request[r].awaited
             THEN [upload EXCEPT ![q][f] = [state |-> "uploading", key |-> issued + 1]] ELSE upload
    BY <1>1, <2>1 DEF CreatePresignedUpload, Learns
  <2>3. object'[issued + 1].page = q /\ object'[issued + 1].entry = f
    <3>1. object' = [object EXCEPT ![issued + 1] =
            [entry |-> f, page |-> q,
             take |-> IF request[r].awaited THEN take[q][f] ELSE NoTake,
             state |-> IF request[r].awaited THEN "sent" ELSE "issued"]]
      BY <1>1, <2>1 DEF CreatePresignedUpload
    <3> QED
      BY <2>0, <3>1
  <2>4. CASE ~request[r].awaited \/ p # q \/ e # f
    BY <2>0, <2>2, <2>4 DEF UploadMove
  <2>5. CASE request[r].awaited /\ p = q /\ e = f
    <3>1. upload[p][e].state \notin {"idle", "uploaded"}
      BY <2>0, <2>1, <2>5 DEF UploadsOK
    <3>2. upload'[p][e] = [state |-> "uploading", key |-> issued + 1]
      BY <2>0, <2>2, <2>5
    <3>3. issued + 1 \in 1..issued'
      BY <2>0
    <3> QED
      BY <2>2, <2>3, <2>5, <3>1, <3>2, <3>3 DEF UploadMove
  <2> QED
    BY <2>4, <2>5
<1>2. ASSUME NEW r \in Requests, request[r] # Idle,
             LearnsFailure(r, request[r].entry) \/ LearnsVerified(r, request[r].entry)
      PROVE  UploadMove(p, e)
  BY <1>2, LearnMoves DEF LearnsFailure, LearnsVerified, Learns
<1>3. ASSUME NEW r \in Requests,
             \/ RefusePresign(r) \/ AnswerConfirmEarly(r) \/ ConfirmUpload(r) \/ RefuseConfirm(r)
             \/ \E lost \in BOOLEAN : GiveUp(r, lost)
      PROVE  UploadMove(p, e)
  <2>1. /\ request[r] # Idle
        /\ LearnsFailure(r, request[r].entry) \/ LearnsVerified(r, request[r].entry)
    <3>1. CASE RefusePresign(r)
      BY <3>1 DEF RefusePresign, Idle
    <3>2. CASE AnswerConfirmEarly(r)
      BY <3>2 DEF AnswerConfirmEarly, Idle
    <3>3. CASE ConfirmUpload(r)
      BY <3>3 DEF ConfirmUpload, Idle
    <3>4. CASE RefuseConfirm(r)
      BY <3>4 DEF RefuseConfirm, Idle
    <3>5. CASE \E lost \in BOOLEAN : GiveUp(r, lost)
      BY <3>5 DEF GiveUp
    <3> QED
      BY <1>3, <3>1, <3>2, <3>3, <3>4, <3>5
  <2> QED
    BY <1>2, <2>1
<1>4. ASSUME NEW r \in Requests, InspectUpload(r) PROVE UploadMove(p, e)
  BY <1>k, <1>4 DEF InspectUpload
<1>5. ASSUME NEW r \in Requests, RequestNext(r) PROVE UploadMove(p, e)
  BY <1>1, <1>3, <1>4, <1>5 DEF RequestNext
<1> QED
  BY <1>5, <1>k, PageUploads, OthersLeave DEF Next

\* What a step does to a request: it ends, it goes on while the page's upload waits
\* for it, or it begins and nothing else did.
Carried(q) ==
  /\ request[q] # Idle /\ request'[q] # Idle
  /\ request'[q].op = request[q].op
  /\ request'[q].page = request[q].page /\ request'[q].entry = request[q].entry
  /\ request'[q].awaited =>
       /\ request[q].awaited
       /\ upload'[request[q].page][request[q].entry] = upload[request[q].page][request[q].entry]
  /\ \/ request'[q].seen = request[q].seen /\ (request'[q].failed <=> request[q].failed)
     \/ /\ request[q].op = "confirm" /\ request[q].seen = 0
        /\ request'[q].seen = answer[request[q].entry].key /\ request'[q].seen # 0
        /\ object[request'[q].seen].state = "stored"
        /\ request'[q].failed <=> \/ request[q].failed
                                  \/ object[request'[q].seen].take.kind \in {"short", "empty"}

Begun(q) ==
  \E p \in Pages, e \in Entries :
    /\ request'[q] # Idle /\ request'[q].page = p /\ request'[q].entry = e
    /\ \/ /\ request'[q].op = "presign" /\ upload'[p][e].state = "signing"
          /\ upload[p][e].state \in {"ready", "failed"}
       \/ /\ request'[q].op = "confirm" /\ upload'[p][e].state = "verifying"
          /\ upload[p][e].state = "uploading" /\ object[upload[p][e].key].state = "stored"
          /\ request'[q].seen = 0 /\ request'[q].failed = IsFailure(take[p][e])
    /\ \A r \in Requests \ {q} : request'[r] = request[r]

RequestMove(q) == request'[q] = Idle \/ Carried(q) \/ Begun(q)

LEMMA NotIdle ==
  ASSUME NEW row \in Requested
  PROVE  row # Idle
<1>1. row.op \in {"presign", "confirm"} /\ Idle.op = "idle"
  BY DEF Requested, Idle
<1> QED
  BY <1>1

\* A request that the step leaves alone, with the upload that waits for it.
LEMMA RequestLeft ==
  ASSUME NEW q \in Requests, request'[q] = request[q],
         request[q] # Idle /\ request[q].awaited =>
           upload'[request[q].page][request[q].entry] = upload[request[q].page][request[q].entry]
  PROVE  RequestMove(q)
  BY DEF RequestMove, Carried

LEMMA PageMovesRequests ==
  ASSUME TypeOK, FlowOK, UploadsOK, NEW p \in Pages, PageNext(p), NEW q \in Requests
  PROVE  RequestMove(q)
<1>0. /\ request \in [Requests -> RequestRows]
      /\ upload \in [Pages -> [Entries -> Uploads]]
      /\ phase \in [Pages -> Phases] /\ slot \in [Pages -> Entries]
      /\ \A f \in Entries : f \in Nat
  BY NAssumption DEF TypeOK, Entries
<1>t. request[q] # Idle =>
        request[q] \in Requested /\ request[q].page \in Pages /\ request[q].entry \in Entries
  BY RequestIsTyped DEF Requested
<1>1. CASE OpenPage(p)
  <2>1. /\ UNCHANGED request /\ phase[p] = "new"
        /\ \A s \in Pages \ {p} : upload'[s] = upload[s]
    BY <1>0, <1>1 DEF OpenPage
  <2>2. request[q] # Idle => request[q].page # p
    BY <2>1 DEF UploadsOK, Passed, IsPassed, IsLive
  <2> QED
    BY <1>t, <2>1, <2>2, RequestLeft
<1>2. CASE ClosePage(p)
  <2>1. /\ request'[q] = IF request[q] # Idle /\ request[q].page = p
                           THEN [request[q] EXCEPT !.awaited = FALSE] ELSE request[q]
        /\ \A s \in Pages \ {p} : upload'[s] = upload[s]
    BY <1>0, <1>2 DEF ClosePage
  <2>2. CASE request[q] # Idle /\ request[q].page = p
    <3>1. request'[q] = [request[q] EXCEPT !.awaited = FALSE]
      BY <2>1, <2>2
    <3>2. /\ request'[q] \in Requested /\ ~request'[q].awaited
          /\ request'[q].op = request[q].op /\ request'[q].page = request[q].page
          /\ request'[q].entry = request[q].entry
          /\ request'[q].seen = request[q].seen /\ request'[q].failed = request[q].failed
      BY <1>t, <2>2, <3>1 DEF Requested
    <3>3. request'[q] # Idle
      BY <3>2, NotIdle
    <3> QED
      BY <2>2, <3>2, <3>3 DEF RequestMove, Carried
  <2>3. CASE ~(request[q] # Idle /\ request[q].page = p)
    BY <1>t, <2>1, <2>3, RequestLeft
  <2> QED
    BY <2>2, <2>3
<1>3. CASE QueueTake(p)
  <2>1. /\ UNCHANGED request /\ phase[p] \in {"recording", "finalizing"}
        /\ upload' = [upload EXCEPT ![p][slot[p]] = [state |-> "ready", key |-> 0]]
    BY <1>3 DEF QueueTake
  <2>2. ~Passed(p, slot[p])
    BY <1>0, <2>1 DEF Passed, IsPassed
  <2>3. request[q] # Idle => ~(request[q].page = p /\ request[q].entry = slot[p])
    BY <2>2 DEF UploadsOK
  <2> QED
    BY <1>0, <1>t, <2>1, <2>3, RequestLeft
<1>4. ASSUME NEW e \in Entries, PutFails(p, e) PROVE RequestMove(q)
  <2>1. /\ UNCHANGED request /\ upload[p][e].state = "uploading"
        /\ upload' = [upload EXCEPT ![p][e] = [state |-> "failed", key |-> 0]]
    BY <1>4 DEF PutFails
  <2>2. request[q] # Idle /\ request[q].awaited => ~(request[q].page = p /\ request[q].entry = e)
    BY <2>1 DEF UploadsOK
  <2> QED
    BY <1>0, <1>t, <2>1, <2>2, RequestLeft
<1>5. ASSUME NEW e \in Entries, NEW r \in Requests, StartUpload(p, e, r) PROVE RequestMove(q)
  <2>1. /\ upload[p][e].state \in {"ready", "failed"}
        /\ upload' = [upload EXCEPT ![p][e] = [state |-> "signing", key |-> 0]]
        /\ request' = [request EXCEPT ![r] =
             [op |-> "presign", page |-> p, entry |-> e, awaited |-> TRUE, failed |-> FALSE,
              seen |-> 0]]
    BY <1>5 DEF StartUpload
  <2>2. CASE q = r
    <3>1. /\ request'[q].op = "presign" /\ request'[q].page = p /\ request'[q].entry = e
          /\ request'[q] # Idle
          /\ \A x \in Requests \ {q} : request'[x] = request[x]
      BY <1>0, <2>1, <2>2 DEF Idle
    <3>2. upload'[p][e].state = "signing"
      BY <1>0, <2>1
    <3> QED
      BY <2>1, <3>1, <3>2 DEF RequestMove, Begun
  <2>3. CASE q # r
    <3>1. request'[q] = request[q]
      BY <1>0, <2>1, <2>3
    <3>2. request[q] # Idle /\ request[q].awaited => ~(request[q].page = p /\ request[q].entry = e)
      BY <2>1 DEF UploadsOK
    <3> QED
      BY <1>0, <1>t, <2>1, <3>1, <3>2, RequestLeft
  <2> QED
    BY <2>2, <2>3
<1>6. ASSUME NEW e \in Entries, NEW r \in Requests, RequestConfirmation(p, e, r)
      PROVE  RequestMove(q)
  <2>1. /\ upload[p][e].state = "uploading" /\ object[upload[p][e].key].state = "stored"
        /\ upload' = [upload EXCEPT ![p][e] = [state |-> "verifying", key |-> 0]]
        /\ request' = [request EXCEPT ![r] =
             [op |-> "confirm", page |-> p, entry |-> e, awaited |-> TRUE,
              failed |-> IsFailure(take[p][e]), seen |-> 0]]
    BY <1>6 DEF RequestConfirmation, ReportsFailure
  <2>2. CASE q = r
    <3>1. /\ request'[q].op = "confirm" /\ request'[q].page = p /\ request'[q].entry = e
          /\ request'[q].seen = 0 /\ request'[q].failed = IsFailure(take[p][e])
          /\ request'[q] # Idle
          /\ \A x \in Requests \ {q} : request'[x] = request[x]
      BY <1>0, <2>1, <2>2 DEF Idle
    <3>2. upload'[p][e].state = "verifying"
      BY <1>0, <2>1
    <3> QED
      BY <2>1, <3>1, <3>2 DEF RequestMove, Begun
  <2>3. CASE q # r
    <3>1. request'[q] = request[q]
      BY <1>0, <2>1, <2>3
    <3>2. request[q] # Idle /\ request[q].awaited => ~(request[q].page = p /\ request[q].entry = e)
      BY <2>1 DEF UploadsOK
    <3> QED
      BY <1>0, <1>t, <2>1, <3>1, <3>2, RequestLeft
  <2> QED
    BY <2>2, <2>3
<1>7. CASE \/ \E starts \in BOOLEAN : StartRecording(p, starts)
           \/ StopRecording(p) \/ FailTake(p)
           \/ \E kind \in Ends : RecorderError(p, kind)
           \/ \E f \in Entries, kind \in Ends : StopEvent(p, f, kind)
           \/ \E answered \in BOOLEAN : CompleteSubmission(p, answered)
  <2>1. UNCHANGED <<request, upload>>
    BY <1>7 DEF StartRecording, StopRecording, FailTake, RecorderError, StopEvent,
                CompleteSubmission
  <2> QED
    BY <2>1, RequestLeft
<1> QED
  BY <1>1, <1>2, <1>3, <1>4, <1>5, <1>6, <1>7 DEF PageNext

LEMMA RequestMoves ==
  ASSUME TypeOK, FlowOK, UploadsOK, [Next]_vars, NEW q \in Requests
  PROVE  RequestMove(q)
<1>0. /\ request \in [Requests -> RequestRows]
      /\ upload \in [Pages -> [Entries -> Uploads]]
  BY DEF TypeOK
<1>t. \A r \in Requests : request[r] # Idle =>
        request[r] \in Requested /\ request[r].page \in Pages /\ request[r].entry \in Entries
  BY RequestIsTyped DEF Requested
<1>k. ASSUME NEW r \in Requests, q # r, request[r] # Idle, request'[q] = request[q], NEW u,
             upload' = IF request[r].awaited
               THEN [upload EXCEPT ![request[r].page][request[r].entry] = u] ELSE upload
      PROVE  RequestMove(q)
  <2>1. request[q] # Idle /\ request[q].awaited /\ request[r].awaited =>
          ~(request[q].page = request[r].page /\ request[q].entry = request[r].entry)
    BY <1>k DEF UploadsOK
  <2> QED
    BY <1>0, <1>t, <1>k, <2>1, RequestLeft
<1>1. ASSUME NEW r \in Requests,
             \/ CreatePresignedUpload(r) \/ RefusePresign(r) \/ AnswerConfirmEarly(r)
             \/ ConfirmUpload(r) \/ RefuseConfirm(r)
      PROVE  RequestMove(q)
  <2>1. request[r] # Idle /\ request' = [request EXCEPT ![r] = Idle]
    BY <1>1 DEF CreatePresignedUpload, RefusePresign, AnswerConfirmEarly, ConfirmUpload,
                RefuseConfirm, Finished, Idle
  <2>2. PICK u : upload' = IF request[r].awaited
               THEN [upload EXCEPT ![request[r].page][request[r].entry] = u] ELSE upload
    BY <1>1 DEF CreatePresignedUpload, RefusePresign, AnswerConfirmEarly, ConfirmUpload,
                RefuseConfirm, LearnsVerified, LearnsFailure, Learns
  <2>3. CASE q = r
    BY <1>0, <2>1, <2>3 DEF RequestMove
  <2>4. CASE q # r
    BY <1>0, <1>k, <2>1, <2>2, <2>4
  <2> QED
    BY <2>3, <2>4
<1>2. ASSUME NEW r \in Requests, InspectUpload(r) PROVE RequestMove(q)
  <2> DEFINE k == answer[request[r].entry].key
  <2>1. /\ request[r].op = "confirm" /\ request[r].seen = 0 /\ k # 0
        /\ object[k].state = "stored" /\ UNCHANGED upload
        /\ request' = [request EXCEPT ![r].seen = k,
             ![r].failed = @ \/ object[k].take.kind \in {"short", "empty"}]
    BY <1>2 DEF InspectUpload, IsAcceptable
  <2>2. request[r] \in Requested /\ request[r] # Idle
    BY <2>1, RequestIsTyped, NotIdle
  <2> HIDE DEF k
  <2>3. CASE q = r
    <3>1. /\ request'[q].seen = k
          /\ request'[q].failed = (request[q].failed \/ object[k].take.kind \in {"short", "empty"})
          /\ request'[q].op = request[q].op /\ request'[q].page = request[q].page
          /\ request'[q].entry = request[q].entry /\ request'[q].awaited = request[q].awaited
      BY <1>0, <2>1, <2>2, <2>3 DEF Requested
    <3>2. request'[q] # Idle
      <4>1. request'[q].op = "confirm"
        BY <2>1, <2>3, <3>1
      <4>2. Idle.op = "idle"
        BY DEF Idle
      <4> QED
        BY <4>1, <4>2
    <3> QED
      BY <2>1, <2>2, <2>3, <3>1, <3>2 DEF RequestMove, Carried, k
  <2>4. CASE q # r
    <3>1. request'[q] = request[q]
      BY <1>0, <2>1, <2>4
    <3> QED
      BY <2>1, <3>1, RequestLeft
  <2> QED
    BY <2>3, <2>4
<1>3. ASSUME NEW r \in Requests, NEW lost \in BOOLEAN, GiveUp(r, lost) PROVE RequestMove(q)
  <2>1. request[r] # Idle
    BY <1>3 DEF GiveUp
  <2>2. PICK u : upload' = IF request[r].awaited
               THEN [upload EXCEPT ![request[r].page][request[r].entry] = u] ELSE upload
    BY <1>3 DEF GiveUp, LearnsFailure, Learns
  <2>3. PICK row : /\ row = IF lost THEN Idle ELSE [request[r] EXCEPT !.awaited = FALSE]
                   /\ request' = [request EXCEPT ![r] = row]
    BY <1>3 DEF GiveUp
  <2>4. CASE q = r /\ lost
    BY <1>0, <2>3, <2>4 DEF RequestMove
  <2>5. CASE q = r /\ ~lost
    <3>1. request'[q] = [request[q] EXCEPT !.awaited = FALSE] /\ request[q] \in Requested
      BY <1>0, <1>t, <2>1, <2>3, <2>5
    <3>2. /\ request'[q] \in Requested /\ ~request'[q].awaited
          /\ request'[q].op = request[q].op /\ request'[q].page = request[q].page
          /\ request'[q].entry = request[q].entry
          /\ request'[q].seen = request[q].seen /\ request'[q].failed = request[q].failed
      BY <3>1 DEF Requested
    <3>3. request'[q] # Idle
      BY <3>2, NotIdle
    <3> QED
      BY <2>1, <2>5, <3>2, <3>3 DEF RequestMove, Carried
  <2>6. CASE q # r
    <3>1. request'[q] = request[q]
      BY <1>0, <2>3, <2>6
    <3> QED
      BY <1>k, <2>1, <2>2, <2>6, <3>1
  <2> QED
    BY <2>4, <2>5, <2>6
<1>4. ASSUME NEW r \in Requests, RequestNext(r) PROVE RequestMove(q)
  BY <1>1, <1>2, <1>3, <1>4 DEF RequestNext
<1>5. CASE (\E k \in Keys : PutLands(k)) \/ AbandonSubmission \/ UNCHANGED vars
  BY <1>5, OthersLeave, RequestLeft
<1> QED
  BY <1>4, <1>5, PageMovesRequests DEF Next

LEMMA UploadsNext ==
  ASSUME TypeOK, KeysInOrder, FlowOK, UploadsOK, [Next]_vars
  PROVE  UploadsOK'
<1>0. /\ \A k \in 1..issued : k \in 1..issued' /\ object'[k].page = object[k].page
                              /\ object'[k].entry = object[k].entry
      /\ \A p \in Pages, e \in Entries : Passed(p, e) => Passed(p, e)'
  BY KeysKept, PassedStays
<1>t. \A r \in Requests : request[r] # Idle => request[r].page \in Pages /\ request[r].entry \in Entries
  BY RequestIsTyped DEF Requested
<1>w. /\ \A r \in Requests : request[r] # Idle /\ request[r].awaited =>
           upload[request[r].page][request[r].entry].state =
             IF request[r].op = "presign" THEN "signing" ELSE "verifying"
      /\ \A q, r \in Requests :
           /\ request[q] # Idle /\ request[q].awaited
           /\ request[r] # Idle /\ request[r].awaited
           /\ request[q].page = request[r].page /\ request[q].entry = request[r].entry
           => q = r
  BY DEF UploadsOK
<1>1. ASSUME NEW p \in Pages, NEW e \in Entries
      PROVE  /\ take'[p][e] # NoTake => Passed(p, e)'
             /\ upload'[p][e].state \notin {"idle", "uploaded"} => take'[p][e] # NoTake
             /\ upload'[p][e].state = "uploading" =>
                  /\ upload'[p][e].key \in 1..issued'
                  /\ object'[upload'[p][e].key].page = p /\ object'[upload'[p][e].key].entry = e
  <2>1. UploadMove(p, e)
    BY UploadMoves
  <2>2. /\ take[p][e] # NoTake => Passed(p, e)'
        /\ upload[p][e].state \notin {"idle", "uploaded"} => take[p][e] # NoTake
        /\ upload[p][e].state = "uploading" =>
             /\ upload[p][e].key \in 1..issued'
             /\ object'[upload[p][e].key].page = p /\ object'[upload[p][e].key].entry = e
    BY <1>0 DEF UploadsOK
  <2> QED
    BY <2>1, <2>2 DEF UploadMove
<1>2. ASSUME NEW q \in Requests, request'[q] # Idle,
             NEW x, NEW y, x = request'[q].page, y = request'[q].entry
      PROVE  Passed(x, y)'
  <2>1. CASE Carried(q)
    <3>1. PICK p \in Pages, e \in Entries : p = request[q].page /\ e = request[q].entry
      BY <1>t, <2>1 DEF Carried
    <3>2. Passed(p, e) /\ x = p /\ y = e
      BY <1>2, <2>1, <3>1 DEF UploadsOK, Carried
    <3> QED
      BY <1>0, <3>2
  <2>2. CASE Begun(q)
    <3>1. PICK p \in Pages, e \in Entries :
            /\ request'[q].page = p /\ request'[q].entry = e
            /\ upload[p][e].state \in {"ready", "failed", "uploading"}
      BY <2>2 DEF Begun
    <3>2. Passed(p, e)
      BY <3>1 DEF UploadsOK
    <3> QED
      BY <1>0, <1>2, <3>1, <3>2
  <2> QED
    BY <1>2, <2>1, <2>2, RequestMoves DEF RequestMove
<1>3. ASSUME NEW q \in Requests, request'[q] # Idle, request'[q].awaited
      PROVE  upload'[request'[q].page][request'[q].entry].state =
               IF request'[q].op = "presign" THEN "signing" ELSE "verifying"
  <2>1. CASE Carried(q)
    BY <1>3, <1>w, <2>1 DEF Carried
  <2>2. CASE Begun(q)
    BY <2>2 DEF Begun
  <2> QED
    BY <1>3, <2>1, <2>2, RequestMoves DEF RequestMove
<1>4. ASSUME NEW q \in Requests, NEW r \in Requests,
             request'[q] # Idle, request'[q].awaited, request'[r] # Idle, request'[r].awaited,
             request'[q].page = request'[r].page, request'[q].entry = request'[r].entry,
             Begun(q), q # r
      PROVE  FALSE
  <2>1. PICK p \in Pages, e \in Entries :
          /\ request'[q].page = p /\ request'[q].entry = e
          /\ upload[p][e].state \in {"ready", "failed", "uploading"}
          /\ \A x \in Requests \ {q} : request'[x] = request[x]
    BY <1>4 DEF Begun
  <2>2. request'[r] = request[r]
    BY <1>4, <2>1
  <2>3. upload[p][e].state \in {"signing", "verifying"}
    BY <1>4, <1>w, <2>1, <2>2
  <2> QED
    BY <2>1, <2>3
<1>5. ASSUME NEW q \in Requests, NEW r \in Requests,
             request'[q] # Idle, request'[q].awaited, request'[r] # Idle, request'[r].awaited,
             request'[q].page = request'[r].page, request'[q].entry = request'[r].entry
      PROVE  q = r
  <2>1. (Carried(q) \/ Begun(q)) /\ (Carried(r) \/ Begun(r))
    BY <1>5, RequestMoves DEF RequestMove
  <2>2. CASE Carried(q) /\ Carried(r)
    BY <1>5, <1>w, <2>2 DEF Carried
  <2> QED
    BY <1>4, <1>5, <2>1, <2>2
<1> QED
  BY <1>1, <1>2, <1>3, <1>5 DEF UploadsOK, Passed, IsPassed, IsLive

LEMMA KeysNext ==
  ASSUME TypeOK, KeysInOrder, FlowOK, UploadsOK, KeysOK, [Next]_vars
  PROVE  KeysOK'
<1>0. /\ 1..issued \subseteq 1..issued'
      /\ \A k \in 1..issued :
           /\ object'[k].page = object[k].page /\ object'[k].entry = object[k].entry
           /\ object'[k].take = object[k].take
           /\ object'[k].state \in {"sent", "stored"} => object[k].state \in {"sent", "stored"}
      /\ \A p \in Pages, e \in Entries : Passed(p, e) => Passed(p, e)'
  BY KeysKept, PassedStays
\* Keys that were there before.
<1>1. ASSUME NEW k \in 1..issued, NEW p, NEW e, p = object[k].page, e = object[k].entry
      PROVE  /\ p \in Pages /\ e \in Entries /\ Passed(p, e)'
             /\ object'[k].state \in {"sent", "stored"} => object'[k].take # NoTake
             /\ object'[k].take # NoTake /\ take'[p][e] # NoTake =>
                  object'[k].take = take'[p][e]
  <2>1. p \in Pages /\ e \in Entries /\ Passed(p, e)
    BY <1>1 DEF KeysOK
  <2>2. take'[p][e] \in {take[p][e], NoTake}
    BY <2>1, UploadMoves DEF UploadMove
  <2>3. object[k].take # NoTake /\ take[p][e] # NoTake => object[k].take = take[p][e]
    BY <1>1 DEF KeysOK
  <2>4. object[k].state \in {"sent", "stored"} => object[k].take # NoTake
    BY DEF KeysOK
  <2> QED
    BY <1>0, <2>1, <2>2, <2>3, <2>4
\* The key handed out in this step.
<1>2. ASSUME NEW k \in 1..issued', k \notin 1..issued
      PROVE  \E p \in Pages, e \in Entries :
               /\ object'[k].page = p /\ object'[k].entry = e /\ Passed(p, e)
               /\ object'[k].take \in {take[p][e], NoTake}
               /\ object'[k].state \in {"sent", "stored"} => object'[k].take # NoTake
               /\ UNCHANGED take
  <2>1. PICK r \in Requests :
           /\ request[r] \in Requested /\ request[r].op = "presign"
           /\ object'[k].page = request[r].page /\ object'[k].entry = request[r].entry
           /\ object'[k].take =
                IF request[r].awaited THEN take[request[r].page][request[r].entry] ELSE NoTake
           /\ object'[k].state = IF request[r].awaited THEN "sent" ELSE "issued"
           /\ UNCHANGED take
    BY <1>2, NewKeys
  <2>2. request[r] # Idle /\ request[r].page \in Pages /\ request[r].entry \in Entries
    BY <2>1, NotIdle DEF Requested
  <2>3. /\ Passed(request[r].page, request[r].entry)
        /\ request[r].awaited => take[request[r].page][request[r].entry] # NoTake
    BY <2>1, <2>2 DEF UploadsOK
  <2> QED
    BY <2>1, <2>2, <2>3
<1>3. ASSUME NEW k \in 1..issued', NEW p, NEW e, p = object'[k].page, e = object'[k].entry
      PROVE  /\ p \in Pages /\ e \in Entries /\ Passed(p, e)'
             /\ object'[k].state \in {"sent", "stored"} => object'[k].take # NoTake
             /\ object'[k].take # NoTake /\ take'[p][e] # NoTake => object'[k].take = take'[p][e]
  <2>1. CASE k \in 1..issued
    BY <1>0, <1>1, <1>3, <2>1
  <2>2. CASE k \notin 1..issued
    BY <1>0, <1>2, <1>3, <2>2
  <2> QED
    BY <2>1, <2>2
<1>4. ASSUME NEW k \in 1..issued', NEW l \in 1..issued,
             object'[k].page = object'[l].page, object'[k].entry = object'[l].entry,
             object'[k].take # NoTake, object'[l].take # NoTake
      PROVE  object'[k].take = object'[l].take
  <2>1. CASE k \in 1..issued
    BY <1>0, <1>4, <2>1 DEF KeysOK
  <2>2. CASE k \notin 1..issued
    <3>1. PICK p \in Pages, e \in Entries :
            /\ object'[k].page = p /\ object'[k].entry = e
            /\ object'[k].take \in {take[p][e], NoTake}
      BY <1>2, <2>2
    <3>2. /\ object[l].page = p /\ object[l].entry = e
          /\ object[l].take # NoTake /\ take[p][e] # NoTake
          /\ object'[l].take = object[l].take /\ object'[k].take = take[p][e]
      BY <1>0, <1>4, <3>1
    <3>3. object[l].take # NoTake /\ take[object[l].page][object[l].entry] # NoTake =>
            object[l].take = take[object[l].page][object[l].entry]
      BY DEF KeysOK
    <3> QED
      BY <3>2, <3>3
  <2> QED
    BY <2>1, <2>2
<1>5. ASSUME NEW k \in 1..issued', NEW l \in 1..issued', k \notin 1..issued, l \notin 1..issued
      PROVE  k = l
  <2>1. issued \in Nat /\ (issued' = issued \/ issued' = issued + 1)
    BY KeyRange, PresignRows, PagesLeaveRows, RequestsLeavePages, OthersLeave DEF Next, PutLands
  <2> QED
    BY <1>5, <2>1
<1>6. ASSUME NEW k \in 1..issued', NEW l \in 1..issued',
             object'[k].page = object'[l].page, object'[k].entry = object'[l].entry,
             object'[k].take # NoTake, object'[l].take # NoTake
      PROVE  object'[k].take = object'[l].take
  BY <1>4, <1>5, <1>6
<1> QED
  BY <1>3, <1>6 DEF KeysOK, Passed, IsPassed, IsLive

\* A confirmation that goes on keeps what it knows; one that begins has the take of
\* its page, and one that inspects finds the key of its entry.
LEMMA ConfirmsNext ==
  ASSUME TypeOK, KeysInOrder, FlowOK, UploadsOK, KeysOK, AnswersOK, [Next]_vars,
         NEW q \in Requests, ConfirmOK(request[q]), NEW row, row = request'[q]
  PROVE  ConfirmOK(row)'
<1>0. /\ 1..issued \subseteq 1..issued'
      /\ \A k \in 1..issued :
           /\ object'[k].page = object[k].page /\ object'[k].entry = object[k].entry
           /\ object'[k].take = object[k].take
           /\ object[k].state = "stored" => object'[k].state = "stored"
  BY KeysKept
<1> SUFFICES ASSUME request'[q] # Idle, request'[q].op = "confirm"
             PROVE \E k \in 1..issued :
               /\ object[k].page = request'[q].page /\ object[k].entry = request'[q].entry
               /\ object[k].state = "stored"
               /\ request'[q].seen = 0 => (request'[q].failed <=> IsFailure(object[k].take))
               /\ request'[q].seen # 0 =>
                    /\ request'[q].seen \in 1..issued
                    /\ object[request'[q].seen].entry = request'[q].entry
                    /\ object[request'[q].seen].state = "stored"
                    /\ request'[q].failed <=>
                         \/ IsFailure(object[k].take)
                         \/ object[request'[q].seen].take.kind \in {"short", "empty"}
  <2>1. CASE row.op = "confirm"
    <3>1. Idle.op = "idle"
      BY DEF Idle
    <3>2. row # Idle
      BY <2>1, <3>1
    <3> QED
      BY <1>0, <2>1, <3>2 DEF ConfirmOK, IsFailure
  <2>2. CASE row.op # "confirm"
    BY <2>2 DEF ConfirmOK
  <2> QED
    BY <2>1, <2>2
<1>1. CASE Carried(q)
  <2>1. PICK k \in 1..issued :
          /\ object[k].page = request[q].page /\ object[k].entry = request[q].entry
          /\ object[k].state = "stored"
          /\ request[q].seen = 0 => (request[q].failed <=> IsFailure(object[k].take))
          /\ request[q].seen # 0 =>
               /\ request[q].seen \in 1..issued /\ object[request[q].seen].entry = request[q].entry
               /\ object[request[q].seen].state = "stored"
               /\ request[q].failed <=> \/ IsFailure(object[k].take)
                                        \/ object[request[q].seen].take.kind \in {"short", "empty"}
    BY <1>1 DEF Carried, ConfirmOK
  <2>2. CASE request'[q].seen = request[q].seen /\ (request'[q].failed <=> request[q].failed)
    BY <1>1, <2>1, <2>2 DEF Carried
  <2>3. CASE /\ request[q].seen = 0
             /\ request'[q].seen = answer[request[q].entry].key /\ request'[q].seen # 0
             /\ object[request'[q].seen].state = "stored"
             /\ request'[q].failed <=> \/ request[q].failed
                                       \/ object[request'[q].seen].take.kind \in {"short", "empty"}
    <3>1. request[q].entry \in Entries
      BY <1>1, RequestIsTyped DEF Carried, Requested
    <3>2. /\ request'[q].seen \in 1..issued
          /\ object[request'[q].seen].entry = request[q].entry
      BY <2>3, <3>1 DEF AnswersOK
    <3> QED
      BY <1>1, <2>1, <2>3, <3>2 DEF Carried
  <2> QED
    BY <1>1, <2>2, <2>3 DEF Carried
<1>2. CASE Begun(q)
  <2>1. PICK p \in Pages, e \in Entries :
          /\ request'[q].page = p /\ request'[q].entry = e
          /\ upload[p][e].state = "uploading" /\ object[upload[p][e].key].state = "stored"
          /\ request'[q].seen = 0 /\ request'[q].failed = IsFailure(take[p][e])
    BY <1>2 DEF Begun
  <2>2. PICK k : k = upload[p][e].key
    OBVIOUS
  <2>3. /\ k \in 1..issued /\ object[k].page = p /\ object[k].entry = e
        /\ take[p][e] # NoTake
    BY <2>1, <2>2 DEF UploadsOK
  <2>4. object[k].take = take[p][e]
    BY <2>1, <2>2, <2>3 DEF KeysOK
  <2> QED
    BY <2>1, <2>2, <2>3, <2>4
<1> QED
  BY <1>1, <1>2, RequestMoves DEF RequestMove

LEMMA AnswersNext ==
  ASSUME TypeOK, KeysInOrder, AnswersOK, [Next]_vars
  PROVE  AnswersOK'
<1>0. /\ answer \in [Entries -> Answers] /\ 1..issued \subseteq 1..issued'
      /\ \A k \in 1..issued : object'[k].entry = object[k].entry
  BY KeysKept DEF TypeOK
<1>1. ASSUME UNCHANGED answer PROVE AnswersOK'
  BY <1>0, <1>1 DEF AnswersOK
<1>2. ASSUME NEW r \in Requests, CreatePresignedUpload(r) PROVE AnswersOK'
  <2>1. /\ request[r].entry \in Entries /\ issued + 1 \in Keys /\ issued' = issued + 1
        /\ \A e \in Entries \ {request[r].entry} : answer'[e] = answer[e]
    BY <1>2, PresignRows
  <2>2. answer'[request[r].entry].key = issued + 1
    BY <1>0, <1>2, <2>1 DEF CreatePresignedUpload, PendingAnswer
  <2>3. object'[issued + 1].entry = request[r].entry
    BY <1>2, <2>1 DEF CreatePresignedUpload, TypeOK
  <2>4. issued + 1 \in 1..issued'
    BY <2>1, KeyRange
  <2>5. ASSUME NEW e \in Entries, answer'[e].key # 0
        PROVE  answer'[e].key \in 1..issued' /\ object'[answer'[e].key].entry = e
    <3>1. CASE e = request[r].entry
      BY <2>2, <2>3, <2>4, <3>1
    <3>2. CASE e # request[r].entry
      BY <1>0, <2>1, <2>5, <3>2 DEF AnswersOK
    <3> QED
      BY <3>1, <3>2
  <2> QED
    BY <2>5 DEF AnswersOK
<1>3. ASSUME NEW r \in Requests, ConfirmUpload(r) PROVE AnswersOK'
  <2>1. PICK e, failed : e = request[r].entry /\ failed = request[r].failed
    OBVIOUS
  <2>2. /\ e \in Entries
        /\ answer'[e] = [answer[e] EXCEPT !.verified = TRUE, !.failed = failed]
        /\ \A f \in Entries \ {e} : answer'[f] = answer[f]
    BY <1>3, <2>1, ConfirmRows
  <2>3. answer'[e].key = answer[e].key
    <3>1. answer[e] \in Answers
      BY <1>0, <2>2
    <3>2. answer'[e] = [answer[e] EXCEPT !.verified = TRUE, !.failed = failed]
      BY <2>2
    <3> QED
      BY <3>1, <3>2 DEF Answers
  <2>4. \A f \in Entries : answer'[f].key = answer[f].key
    BY <2>2, <2>3
  <2> QED
    BY <1>0, <2>4 DEF AnswersOK
<1> QED
  BY <1>1, <1>2, <1>3, PagesLeaveRows, RequestsLeavePages, OthersLeave DEF Next

\* The hypothesis, that one page alone uploads the entry, only gets stronger; and
\* then what the confirmation reported is about the object it inspected.
LEMMA ReportsNext ==
  ASSUME TypeOK, KeysInOrder, VerifiedHasKey, VerifiedIsStored, KeysOK, AnswersOK,
         \A r \in Requests : ConfirmOK(request[r]), FailureIsReported, [Next]_vars
  PROVE  FailureIsReported'
<1>0. /\ answer \in [Entries -> Answers] /\ 1..issued \subseteq 1..issued'
      /\ \A k \in 1..issued :
           /\ object'[k].page = object[k].page /\ object'[k].entry = object[k].entry
           /\ object'[k].take = object[k].take
  BY KeysKept DEF TypeOK
<1> SUFFICES ASSUME NEW e \in Entries, IsVerified(e)',
                    \A k, l \in 1..issued' :
                      object'[k].entry = e /\ object'[l].entry = e => object'[k].page = object'[l].page
             PROVE  answer'[e].failed <=> IsFailure(object'[answer'[e].key].take)
  BY DEF FailureIsReported, IsFailure
<1>1. \A k, l \in 1..issued :
        object[k].entry = e /\ object[l].entry = e => object[k].page = object[l].page
  BY <1>0
<1>2. CASE IsVerified(e)
  <2>1. answer'[e] = answer[e]
    BY <1>2, VerifiedStays
  <2>2. answer[e].key \in Keys
    BY <1>2 DEF VerifiedHasKey
  <2>3. answer[e].key # 0
    BY <2>2, MaxKeysAssumption DEF Keys
  <2>4. answer[e].key \in 1..issued
    BY <2>3 DEF AnswersOK
  <2>5. answer[e].failed <=> IsFailure(object[answer[e].key].take)
    BY <1>1, <1>2 DEF FailureIsReported
  <2> QED
    BY <1>0, <2>1, <2>4, <2>5
<1>3. CASE ~IsVerified(e)
  <2>1. answer'[e] # answer[e]
    BY <1>3 DEF IsVerified
  <2>2. PICK r \in Requests : ConfirmUpload(r)
    <3>1. ASSUME NEW r \in Requests, CreatePresignedUpload(r) PROVE FALSE
      BY <3>1, <2>1, PresignRows DEF IsVerified
    <3> QED
      BY <2>1, <3>1, PagesLeaveRows, RequestsLeavePages, OthersLeave DEF Next
  <2>3. PICK f, failed, seen :
          f = request[r].entry /\ failed = request[r].failed /\ seen = request[r].seen
    OBVIOUS
  <2>4. /\ f \in Entries
        /\ answer[f].key = seen /\ request[r].op = "confirm" /\ seen # 0
        /\ answer'[f] = [answer[f] EXCEPT !.verified = TRUE, !.failed = failed]
        /\ \A g \in Entries \ {f} : answer'[g] = answer[g]
        /\ UNCHANGED object
    BY <2>2, <2>3, ConfirmRows
  <2>5. e = f
    BY <2>1, <2>4
  <2>6. answer'[e].key = seen /\ answer'[e].failed = failed
    <3>1. answer[e] \in Answers
      BY <1>0
    <3>2. answer'[e] = [answer[e] EXCEPT !.verified = TRUE, !.failed = failed]
      BY <2>4, <2>5
    <3>3. answer'[e].key = answer[e].key /\ answer'[e].failed = failed
      BY <3>1, <3>2 DEF Answers
    <3> QED
      BY <2>4, <2>5, <3>3
  <2>7. PICK k \in 1..issued :
          /\ object[k].page = request[r].page /\ object[k].entry = e
          /\ object[k].state = "stored"
          /\ seen \in 1..issued /\ object[seen].entry = e
          /\ object[seen].state = "stored"
          /\ failed <=> \/ IsFailure(object[k].take)
                        \/ object[seen].take.kind \in {"short", "empty"}
    BY <2>3, <2>4, <2>5 DEF ConfirmOK
  <2>8. object[k].page = object[seen].page
    BY <1>1, <2>7
  <2>9. object[k].take # NoTake /\ object[seen].take # NoTake
    BY <2>7 DEF KeysOK
  <2>10. object[k].take = object[seen].take
    BY <2>7, <2>8, <2>9 DEF KeysOK
  <2>11. failed <=> IsFailure(object[seen].take)
    BY <2>7, <2>10 DEF IsFailure
  <2> QED
    BY <2>4, <2>6, <2>11
<1> QED
  BY <1>2, <1>3

LEMMA InitReports == Init => ReportInv
<1> SUFFICES ASSUME Init PROVE ReportInv
  OBVIOUS
<1>1. /\ issued = 0 /\ 1..issued = {}
      /\ \A e \in Entries : answer[e].key = 0 /\ ~IsVerified(e)
      /\ \A r \in Requests : request[r] = Idle
      /\ \A p \in Pages, e \in Entries : take[p][e] = NoTake /\ upload[p][e] = NoUpload
  BY DEF Init, IsVerified, NoAnswer
<1>2. UploadsOK
  BY <1>1 DEF UploadsOK, NoUpload
<1>3. \A r \in Requests : ConfirmOK(request[r])
  BY <1>1 DEF ConfirmOK, Idle
<1> QED
  BY <1>1, <1>2, <1>3 DEF ReportInv, KeysOK, AnswersOK, FailureIsReported

LEMMA ReportsInductive == SessionInv /\ ReportInv /\ [Next]_vars => ReportInv'
<1> SUFFICES ASSUME SessionInv, ReportInv, [Next]_vars PROVE ReportInv'
  OBVIOUS
<1>0. TypeOK /\ KeysInOrder /\ FlowOK /\ VerifiedHasKey /\ VerifiedIsStored
  BY DEF SessionInv, RowInv
<1>1. UploadsOK' /\ KeysOK'
  BY <1>0, UploadsNext, KeysNext DEF ReportInv
<1>2. ASSUME NEW r \in Requests, NEW row, row = request'[r] PROVE ConfirmOK(row)'
  BY <1>0, <1>2, ConfirmsNext DEF ReportInv
<1>3. AnswersOK' /\ FailureIsReported'
  BY <1>0, AnswersNext, ReportsNext DEF ReportInv
<1>4. \A r \in Requests : ConfirmOK(request[r])'
  BY <1>2 DEF ConfirmOK
<1> QED
  BY <1>1, <1>3, <1>4 DEF ReportInv

\* As long as one page alone uploads an entry, its Answer says of the take what the
\* page knew, whatever is retried, lost or executed late.
THEOREM ReportsAreKept == Spec => []FailureIsReported
<1>1. ReportInv => FailureIsReported
  BY DEF ReportInv
<1> QED
  BY <1>1, InitReports, ReportsInductive, SessionInductive, PTL DEF Spec
=============================================================================
