----------------------------- MODULE PurgeProofs -----------------------------
(***************************************************************************)
(* The purge of Submissions, for every value of the constants: any number  *)
(* of Submissions, requests, objects, holds and concurrent finalizations.  *)
(*                                                                         *)
(* A recovered Submission has all its media because an attempt is for      *)
(* ever: once an object is DELETE_PENDING, its request can only go on to   *)
(* COMPLETED, so its Submission is never RETAINED again, and nobody else   *)
(* refers to the object or ever will.  The invariant says so, and that     *)
(* whatever storage was asked to delete has been attempted in this sense.  *)
(*                                                                         *)
(* An ABSENT object stays away because the hour in which its upload was    *)
(* good has passed; a hold waits for the lock a deletion still has.        *)
(***************************************************************************)
EXTENDS SubmissionPurge, TLAPS

Attempted(p, o) == object[p][o] \in {"DELETE_PENDING", "FAILED", "ABSENT"}

\* A finalization works for an approved request whose time has come, on an object
\* it has reserved.
WorkerInv(w) ==
  /\ worker[w].stage # "idle" =>
       worker[w].purge \in Purges /\ purge[worker[w].purge].elapsed
  /\ worker[w].stage \in {"reserved", "looking", "erasing"} =>
       worker[w].object \in Objects /\ Attempted(worker[w].purge, worker[w].object)
  /\ worker[w].held => worker[w].stage \in {"looking", "erasing"}
  /\ worker[w].held => purge[worker[w].purge].status \in {"QUARANTINED", "FAILED"}

WorkersInv == \A w \in Workers : WorkerInv(w)

\* What a request says of its own past.
RequestsInv ==
  \A p \in Purges :
    /\ purge[p].status # "NONE" => purge[p].target \in Submissions /\ purge[p].by \in Admins
    /\ purge[p].status \in {"NONE", "REQUESTED"} <=> purge[p].approver = None
    /\ purge[p].approver # None => purge[p].approver # purge[p].by
    /\ purge[p].elapsed => purge[p].approver # None
    /\ purge[p].approver = None => \A o \in Objects : object[p][o] = "NONE"

\* An attempt was due, is never taken back, and concerns nobody else.
AttemptsInv ==
  \A p \in Purges, o \in Objects : Attempted(p, o) =>
    /\ purge[p].elapsed
    /\ purge[p].status \in {"QUARANTINED", "FAILED", "COMPLETED"}
    /\ \A t \in Submissions : t # purge[p].target => o \notin media[t]

\* A key that a row refers to is in use, and a request captures only such keys.
KeysInv ==
  /\ \A s \in Submissions : \A o \in media[s] : storage[o] # "unused"
  /\ \A p \in Purges, o \in Objects : object[p][o] # "NONE" => storage[o] # "unused"
  /\ \A s \in Submissions : retention[s] = "PURGED" => media[s] = {}

\* Storage is asked to delete what was attempted, and nothing else disappears.
ErasureInv ==
  \A o \in Objects : (storage[o] = "erased" \/ o \in deleting) =>
    \E p \in Purges : Attempted(p, o)

PurgeInv ==
  /\ TypeOK /\ WorkersInv /\ RequestsInv /\ OnePurgeAtATime
  /\ AttemptsInv /\ KeysInv /\ ErasureInv
-----------------------------------------------------------------------------
(* Fields of typed rows, and the parts a step may leave alone. *)

\* A request row.
LEMMA PurgeFields ==
  ASSUME TypeOK, NEW p \in Purges
  PROVE  /\ purge[p] \in PurgeRow
         /\ purge[p].target \in Submissions \cup {None}
         /\ purge[p].by \in Admins \cup {None}
         /\ purge[p].approver \in Admins \cup {None}
         /\ purge[p].status \in
              {"NONE", "REQUESTED", "QUARANTINED", "FAILED", "CANCELLED", "COMPLETED"}
         /\ purge[p].elapsed \in BOOLEAN
  BY DEF TypeOK, PurgeRow

\* A finalization row.
LEMMA WorkerFields ==
  ASSUME TypeOK, NEW w \in Workers
  PROVE  /\ worker[w] \in WorkerRow
         /\ worker[w].stage \in {"idle", "working", "reserved", "looking", "erasing", "noting"}
         /\ worker[w].purge \in Purges \cup {None}
         /\ worker[w].todo \subseteq Objects
         /\ worker[w].object \in Objects \cup {None}
         /\ worker[w].held \in BOOLEAN
         /\ worker[w].failed \in BOOLEAN
  BY DEF TypeOK, WorkerRow

\* A finalization moves on, with one row of worker edited.
LEMMA RowReplaced ==
  ASSUME NEW w \in Workers, worker \in [Workers -> WorkerRow], NEW r \in WorkerRow,
         worker' = [worker EXCEPT ![w] = r]
  PROVE  /\ worker'[w] = r
         /\ \A v \in Workers \ {w} : worker'[v] = worker[v]
         /\ worker' \in [Workers -> WorkerRow]
  OBVIOUS

\* A request changes its status and nothing else.
LEMMA StatusReplaced ==
  ASSUME NEW p \in Purges, purge \in [Purges -> PurgeRow],
         NEW st \in {"NONE", "REQUESTED", "QUARANTINED", "FAILED", "CANCELLED", "COMPLETED"},
         purge' = [purge EXCEPT ![p].status = st]
  PROVE  /\ purge' \in [Purges -> PurgeRow]
         /\ purge'[p] \in PurgeRow
         /\ purge'[p].target = purge[p].target /\ purge'[p].by = purge[p].by
         /\ purge'[p].approver = purge[p].approver /\ purge'[p].elapsed = purge[p].elapsed
         /\ purge'[p].status = st
         /\ \A q \in Purges \ {p} : purge'[q] = purge[q]
<1>1. PICK r : r = [purge[p] EXCEPT !.status = st]
  OBVIOUS
<1>2. purge[p] \in PurgeRow
  OBVIOUS
<1>3. /\ r \in PurgeRow
      /\ r.target = purge[p].target /\ r.by = purge[p].by
      /\ r.approver = purge[p].approver /\ r.elapsed = purge[p].elapsed /\ r.status = st
  BY <1>1, <1>2 DEF PurgeRow
<1>4. purge' = [purge EXCEPT ![p] = r]
  BY <1>1
<1> QED
  BY <1>3, <1>4

\* A finalization under way has an approved request and a Submission.
LEMMA WorkerHasPurge ==
  ASSUME PurgeInv, NEW w \in Workers, worker[w].stage # "idle"
  PROVE  /\ worker[w].purge \in Purges
         /\ purge[worker[w].purge].elapsed
         /\ purge[worker[w].purge].status \notin {"NONE", "REQUESTED"}
         /\ Target(w) \in Submissions
<1>1. worker[w].purge \in Purges /\ purge[worker[w].purge].elapsed
  BY DEF PurgeInv, WorkersInv, WorkerInv
<1> QED
  BY <1>1, PurgeFields DEF PurgeInv, RequestsInv, Target

\* A step that leaves requests, objects and finalizations alone.
LEMMA RequestsKept ==
  ASSUME PurgeInv, UNCHANGED <<rowVars, worker>>
  PROVE  WorkersInv' /\ RequestsInv' /\ OnePurgeAtATime'
<1>1. WorkersInv'
  BY DEF PurgeInv, WorkersInv, WorkerInv, Attempted, rowVars
<1>2. RequestsInv'
  BY DEF PurgeInv, RequestsInv, rowVars
<1>3. OnePurgeAtATime'
  BY DEF PurgeInv, OnePurgeAtATime, OpenPurges, rowVars
<1> QED
  BY <1>1, <1>2, <1>3

\* A step of a finalization that writes no row and asks nothing of the bucket.
LEMMA RowsKept ==
  ASSUME PurgeInv, UNCHANGED <<rowVars, lifeVars, bucketVars>>
  PROVE  /\ RequestsInv' /\ OnePurgeAtATime' /\ AttemptsInv' /\ KeysInv' /\ ErasureInv'
         /\ \A p \in Purges, o \in Objects : Attempted(p, o)' <=> Attempted(p, o)
<1>1. RequestsInv'
  BY DEF PurgeInv, RequestsInv, rowVars
<1>2. OnePurgeAtATime'
  BY DEF PurgeInv, OnePurgeAtATime, OpenPurges, rowVars
<1>3. AttemptsInv' /\ KeysInv' /\ ErasureInv'
  BY DEF PurgeInv, AttemptsInv, KeysInv, ErasureInv, Attempted, rowVars, lifeVars, bucketVars
<1> QED
  BY <1>1, <1>2, <1>3 DEF Attempted, rowVars

-----------------------------------------------------------------------------
(* The rest of the backend. *)

\* Uploads and routing refer only to keys of their own, and never to an attempted one.
LEMMA LifeKeepsInv == PurgeInv /\ LifeNext => PurgeInv'
<1> SUFFICES ASSUME PurgeInv, LifeNext PROVE PurgeInv'
  OBVIOUS
<1>0. TypeOK /\ AttemptsInv /\ KeysInv /\ ErasureInv
  BY DEF PurgeInv
<1>1. ASSUME NEW s \in Submissions, NEW o \in Objects, NEW old \in Objects \cup {None},
             CreatePresignedUpload(s, o, old)
      PROVE  PurgeInv'
  <2>1. /\ UNCHANGED <<rowVars, status, flagged, attempt, collected, deleting, hold, worker>>
        /\ retention[s] = "RETAINED" /\ storage[o] = "unused"
        /\ media' = [media EXCEPT ![s] = (@ \ {old}) \cup {o}]
        /\ storage' = [storage EXCEPT ![o] = "presigned"]
    BY <1>1 DEF CreatePresignedUpload
  <2>2. TypeOK'
    BY <1>0, <2>1 DEF TypeOK, rowVars, StorageState
  <2>3. AttemptsInv'
    <3>1. \A p \in Purges : ~Attempted(p, o)
      BY <1>0, <2>1 DEF KeysInv, Attempted
    <3>2. \A t \in Submissions : media'[t] \subseteq media[t] \cup {o}
      BY <1>0, <2>1 DEF TypeOK
    <3> QED
      BY <1>0, <2>1, <3>1, <3>2 DEF AttemptsInv, Attempted, rowVars
  <2>4. KeysInv'
    <3>1. \A t \in Submissions : media'[t] \subseteq media[t] \cup {o}
      BY <1>0, <2>1 DEF TypeOK
    <3>2. \A t \in Submissions : retention[t] = "PURGED" => media'[t] = media[t]
      BY <1>0, <2>1 DEF TypeOK
    <3>3. \A x \in Objects : storage[x] # "unused" \/ x = o => storage'[x] # "unused"
      BY <1>0, <2>1 DEF TypeOK
    <3>4. /\ \A t \in Submissions : media[t] \subseteq Objects
          /\ UNCHANGED <<retention, object>>
      BY <1>0, <2>1 DEF TypeOK, rowVars
    <3> QED
      BY <1>0, <3>1, <3>2, <3>3, <3>4 DEF KeysInv
  <2>5. ErasureInv'
    BY <1>0, <2>1 DEF TypeOK, ErasureInv, Attempted, rowVars
  <2> QED
    BY <2>1, <2>2, <2>3, <2>4, <2>5, RequestsKept DEF PurgeInv
<1>2. ASSUME NEW o \in Objects, UploadTake(o)
      PROVE  PurgeInv'
  <2>1. /\ UNCHANGED <<rowVars, lifeVars, deleting, hold, worker>>
        /\ storage' = [storage EXCEPT ![o] = "stored"]
    BY <1>2 DEF UploadTake
  <2>2. TypeOK'
    BY <1>0, <2>1 DEF TypeOK, rowVars, lifeVars, StorageState
  <2>3. AttemptsInv'
    BY <1>0, <2>1 DEF AttemptsInv, Attempted, rowVars, lifeVars
  <2>4. KeysInv' /\ ErasureInv'
    BY <1>0, <2>1 DEF TypeOK, KeysInv, ErasureInv, Attempted, rowVars, lifeVars
  <2> QED
    BY <2>1, <2>2, <2>3, <2>4, RequestsKept DEF PurgeInv
<1>3. ASSUME UNCHANGED <<rowVars, media, bucketVars, hold, worker>>, TypeOK'
      PROVE  PurgeInv'
  <2>1. AttemptsInv' /\ KeysInv' /\ ErasureInv'
    BY <1>0, <1>3 DEF AttemptsInv, KeysInv, ErasureInv, Attempted, rowVars, bucketVars
  <2> QED
    BY <1>3, <2>1, RequestsKept DEF PurgeInv
<1>4. ASSUME NEW s \in Submissions,
             \/ RaiseFlag(s)
             \/ \E to \in {"ABANDONED", "AWAITING_PAYMENT", "LATER"} : StatusMoves(s, to)
             \/ CreateIpaymuCheckout(s)
             \/ AttemptFails(s)
             \/ ProviderCollects(s)
             \/ NotifySuccess(s)
      PROVE  PurgeInv'
  <2>1. UNCHANGED <<rowVars, media, bucketVars, hold, worker>>
    BY <1>4 DEF RaiseFlag, StatusMoves, CreateIpaymuCheckout, AttemptFails, ProviderCollects,
                NotifySuccess
  <2>2. /\ status' \in [Submissions -> PurgeableStatus \cup {"LATER"}]
        /\ flagged' \subseteq Submissions
        /\ attempt' \in [Submissions -> AttemptStatus]
        /\ collected' \subseteq Submissions
    BY <1>0, <1>4 DEF TypeOK, RaiseFlag, StatusMoves, CreateIpaymuCheckout, AttemptFails,
                      ProviderCollects, NotifySuccess, PurgeableStatus, AttemptStatus
  <2>3. TypeOK'
    BY <1>0, <2>1, <2>2 DEF TypeOK, rowVars, bucketVars
  <2> QED
    BY <1>3, <2>1, <2>3
<1> QED
  BY <1>1, <1>2, <1>4 DEF LifeNext

\* Holds are no part of the invariant.
LEMMA HoldsKeepInv == PurgeInv /\ HoldNext => PurgeInv'
<1> SUFFICES ASSUME PurgeInv, HoldNext PROVE PurgeInv'
  OBVIOUS
<1>1. /\ UNCHANGED <<rowVars, lifeVars, bucketVars, worker>>
      /\ hold' \in [Holds -> Submissions \cup {None}]
  BY DEF HoldNext, CreateRetentionHold, ReleaseRetentionHold, PurgeInv, TypeOK
<1>2. TypeOK'
  BY <1>1 DEF PurgeInv, TypeOK, rowVars, lifeVars, bucketVars
<1> QED
  BY <1>1, <1>2, RequestsKept, RowsKept DEF PurgeInv

-----------------------------------------------------------------------------
(* Request, approval, recovery. *)

\* A request, its approval, its time and its recovery take back no attempt.
LEMMA RequestKeepsInv == ASSUME PurgeInv, RequestNext PROVE PurgeInv'
<1>0. /\ TypeOK /\ WorkersInv /\ RequestsInv /\ OnePurgeAtATime
      /\ AttemptsInv /\ KeysInv /\ ErasureInv
  BY DEF PurgeInv
<1> USE PurgeNoneAssumption
<1>1. ASSUME NEW p \in Purges, NEW s \in Submissions, NEW u \in Admins,
             RequestSubmissionPurge(p, s, u)
      PROVE  PurgeInv'
  <2>0. /\ purge[p].status = "NONE"
        /\ OpenPurges(s) = {}
        /\ retention[s] = "RETAINED"
        /\ UNCHANGED <<lifeVars, bucketVars, retention, object, hold, worker>>
    BY <1>1 DEF RequestSubmissionPurge, IsPurgeable
  <2>1. purge' = [purge EXCEPT ![p].target = s, ![p].by = u, ![p].status = "REQUESTED"]
    BY <1>1 DEF RequestSubmissionPurge
  <2>2. /\ purge'[p].target = s /\ purge'[p].by = u /\ purge'[p].status = "REQUESTED"
        /\ purge'[p].approver = None /\ purge'[p].elapsed = FALSE
        /\ purge'[p] \in PurgeRow
        /\ \A q \in Purges \ {p} : purge'[q] = purge[q]
        /\ ~purge[p].elapsed /\ purge[p].approver = None
        /\ \A o \in Objects : object[p][o] = "NONE"
    BY <1>0, <2>0, <2>1, PurgeFields DEF TypeOK, PurgeRow, RequestsInv
  <2>3. TypeOK'
    BY <1>0, <2>0, <2>1, <2>2 DEF TypeOK, lifeVars, bucketVars
  <2>4. WorkersInv'
    BY <1>0, <2>0, <2>2 DEF WorkersInv, WorkerInv, Attempted
  <2>5. RequestsInv'
    BY <1>0, <2>0, <2>2 DEF RequestsInv
  <2>6. OnePurgeAtATime'
    BY <1>0, <2>0, <2>2 DEF OnePurgeAtATime, OpenPurges
  <2>7. AttemptsInv' /\ KeysInv' /\ ErasureInv'
    BY <1>0, <2>0, <2>2 DEF AttemptsInv, KeysInv, ErasureInv, Attempted, lifeVars, bucketVars
  <2> QED
    BY <2>3, <2>4, <2>5, <2>6, <2>7 DEF PurgeInv
<1>2. ASSUME NEW p \in Purges, NEW u \in Admins, ApproveSubmissionPurge(p, u)
      PROVE  PurgeInv'
  <2> DEFINE s == purge[p].target
  <2>0. /\ purge[p].status = "REQUESTED"
        /\ u # purge[p].by
        /\ IsPurgeable(s)
        /\ UNCHANGED <<lifeVars, bucketVars, hold, worker>>
    BY <1>2 DEF ApproveSubmissionPurge
  <2>1. /\ retention' = [retention EXCEPT ![s] = "QUARANTINED"]
        /\ purge' = [purge EXCEPT ![p].status = "QUARANTINED", ![p].approver = u]
        /\ object' = [object EXCEPT ![p] =
             [o \in Objects |-> IF o \in media[s] THEN "QUARANTINED" ELSE "NONE"]]
    BY <1>2 DEF ApproveSubmissionPurge
  <2>2. /\ s \in Submissions
        /\ retention[s] = "RETAINED"
        /\ purge'[p].target = s /\ purge'[p].by = purge[p].by /\ purge'[p].approver = u
        /\ purge'[p].status = "QUARANTINED" /\ purge'[p].elapsed = purge[p].elapsed
        /\ purge'[p] \in PurgeRow
        /\ \A q \in Purges \ {p} : purge'[q] = purge[q] /\ object'[q] = object[q]
        /\ u # None
        /\ ~purge[p].elapsed
    BY <1>0, <2>0, <2>1, PurgeFields DEF TypeOK, PurgeRow, RequestsInv, IsPurgeable
  <2>3. /\ \A o \in Objects : object[p][o] = "NONE"
        /\ \A o \in Objects : object'[p][o] = IF o \in media[s] THEN "QUARANTINED" ELSE "NONE"
        /\ \A t \in Submissions \ {s} : retention'[t] = retention[t]
        /\ retention'[s] = "QUARANTINED"
    BY <1>0, <2>0, <2>1, <2>2 DEF TypeOK, RequestsInv
  <2>4. TypeOK'
    <3>1. object' \in [Purges -> [Objects -> ObjectStatus]]
      BY <1>0, <2>0, <2>1 DEF TypeOK, ObjectStatus
    <3> QED
      BY <1>0, <2>0, <2>1, <2>2, <3>1 DEF TypeOK, lifeVars, bucketVars
  <2>5. WorkersInv'
    <3>1. \A w \in Workers : worker[w].stage # "idle" => worker[w].purge # p
      BY <1>0, <2>0, WorkerHasPurge
    <3>2. \A w \in Workers : worker[w].held => worker[w].stage # "idle"
      BY <1>0 DEF WorkersInv, WorkerInv
    <3> QED
      BY <1>0, <2>0, <2>2, <3>1, <3>2 DEF WorkersInv, WorkerInv, Attempted
  <2>6. RequestsInv'
    BY <1>0, <2>0, <2>2 DEF RequestsInv
  <2>7. OnePurgeAtATime'
    BY <1>0, <2>0, <2>2, <2>3 DEF OnePurgeAtATime, OpenPurges
  <2>8. AttemptsInv' /\ ErasureInv'
    <3>1. \A q \in Purges, o \in Objects : Attempted(q, o)' <=> Attempted(q, o)
      BY <2>2, <2>3 DEF Attempted
    <3>2. \A q \in Purges, o \in Objects : Attempted(q, o) => q # p
      BY <2>3 DEF Attempted
    <3> QED
      BY <1>0, <2>0, <2>2, <3>1, <3>2 DEF AttemptsInv, ErasureInv, lifeVars, bucketVars
  <2>9. KeysInv'
    BY <1>0, <2>0, <2>2, <2>3 DEF KeysInv, lifeVars, bucketVars
  <2> QED
    BY <2>4, <2>5, <2>6, <2>7, <2>8, <2>9 DEF PurgeInv
<1>3. ASSUME NEW p \in Purges, QuarantineElapses(p)
      PROVE  PurgeInv'
  <2>0. /\ purge[p].approver # None
        /\ UNCHANGED <<lifeVars, bucketVars, retention, object, hold, worker>>
    BY <1>3 DEF QuarantineElapses
  <2>1. purge' = [purge EXCEPT ![p].elapsed = TRUE]
    BY <1>3 DEF QuarantineElapses
  <2>2. /\ purge'[p].target = purge[p].target /\ purge'[p].by = purge[p].by
        /\ purge'[p].approver = purge[p].approver /\ purge'[p].status = purge[p].status
        /\ purge'[p].elapsed
        /\ purge'[p] \in PurgeRow
        /\ \A q \in Purges \ {p} : purge'[q] = purge[q]
    <3>1. PICK r : r = [purge[p] EXCEPT !.elapsed = TRUE]
      OBVIOUS
    <3>2. purge[p] \in PurgeRow /\ purge \in [Purges -> PurgeRow]
      BY <1>0 DEF TypeOK
    <3>3. /\ r \in PurgeRow
          /\ r.target = purge[p].target /\ r.by = purge[p].by
          /\ r.approver = purge[p].approver /\ r.status = purge[p].status /\ r.elapsed
      BY <3>1, <3>2 DEF PurgeRow
    <3>4. purge' = [purge EXCEPT ![p] = r]
      BY <2>1, <3>1
    <3> QED
      BY <3>2, <3>3, <3>4
  <2>3. TypeOK'
    BY <1>0, <2>0, <2>1, <2>2 DEF TypeOK, lifeVars, bucketVars
  <2>4. WorkersInv'
    BY <1>0, <2>0, <2>2 DEF WorkersInv, WorkerInv, Attempted
  <2>5. RequestsInv'
    BY <1>0, <2>0, <2>2 DEF RequestsInv
  <2>6. OnePurgeAtATime'
    BY <1>0, <2>0, <2>2 DEF OnePurgeAtATime, OpenPurges
  <2>7. AttemptsInv' /\ KeysInv' /\ ErasureInv'
    BY <1>0, <2>0, <2>2 DEF AttemptsInv, KeysInv, ErasureInv, Attempted, lifeVars, bucketVars
  <2> QED
    BY <2>3, <2>4, <2>5, <2>6, <2>7 DEF PurgeInv
<1>4. ASSUME NEW p \in Purges, CancelSubmissionPurge(p)
      PROVE  PurgeInv'
  <2> DEFINE s == purge[p].target
  <2>0. /\ purge[p].status = "QUARANTINED"
        /\ \A o \in Objects : object[p][o] \in {"NONE", "QUARANTINED"}
        /\ ~IsLocked(s)
        /\ UNCHANGED <<lifeVars, bucketVars, hold, worker>>
    BY <1>4 DEF CancelSubmissionPurge
  <2>1. /\ retention' = [retention EXCEPT ![s] = "RETAINED"]
        /\ object' = [object EXCEPT ![p] =
             [o \in Objects |-> IF @[o] = "QUARANTINED" THEN "CANCELLED" ELSE @[o]]]
        /\ purge' = [purge EXCEPT ![p].status = "CANCELLED"]
    BY <1>4 DEF CancelSubmissionPurge
  <2>2. /\ s \in Submissions
        /\ purge'[p].target = s /\ purge'[p].by = purge[p].by
        /\ purge'[p].approver = purge[p].approver /\ purge'[p].status = "CANCELLED"
        /\ purge'[p].elapsed = purge[p].elapsed
        /\ purge'[p] \in PurgeRow
        /\ \A q \in Purges \ {p} : purge'[q] = purge[q] /\ object'[q] = object[q]
    <3>1. s \in Submissions
      BY <1>0, <2>0 DEF RequestsInv
    <3>2. purge[p] \in PurgeRow /\ purge \in [Purges -> PurgeRow]
      BY <1>0 DEF TypeOK
    <3>3. purge' = [purge EXCEPT ![p].status = "CANCELLED"]
      BY <2>1
    <3>4. /\ purge'[p].target = s /\ purge'[p].by = purge[p].by
          /\ purge'[p].approver = purge[p].approver /\ purge'[p].status = "CANCELLED"
          /\ purge'[p].elapsed = purge[p].elapsed
          /\ purge'[p] \in PurgeRow
          /\ \A q \in Purges \ {p} : purge'[q] = purge[q]
      BY <3>2, <3>3, StatusReplaced
    <3>5. \A q \in Purges \ {p} : object'[q] = object[q]
      BY <1>0, <2>1 DEF TypeOK
    <3> QED
      BY <3>1, <3>4, <3>5
  <2>3. /\ \A o \in Objects : object'[p][o] =
             IF object[p][o] = "QUARANTINED" THEN "CANCELLED" ELSE object[p][o]
        /\ \A t \in Submissions \ {s} : retention'[t] = retention[t]
        /\ retention'[s] = "RETAINED"
    BY <1>0, <2>0, <2>1, <2>2 DEF TypeOK
  <2>4. TypeOK'
    <3>1. object' \in [Purges -> [Objects -> ObjectStatus]]
      BY <1>0, <2>0, <2>1 DEF TypeOK, ObjectStatus
    <3> QED
      BY <1>0, <2>0, <2>1, <2>2, <3>1 DEF TypeOK, lifeVars, bucketVars
  <2>5. \A q \in Purges, o \in Objects : Attempted(q, o)' <=> Attempted(q, o)
    BY <2>0, <2>2, <2>3 DEF Attempted
  <2>6. \A o \in Objects : ~Attempted(p, o)
    BY <2>0 DEF Attempted
  <2>7. WorkersInv'
    <3>1. \A w \in Workers : worker[w].held => worker[w].purge # p
      BY <2>0 DEF IsLocked
    <3>2. \A w \in Workers : worker[w].held => worker[w].stage # "idle"
      BY <1>0 DEF WorkersInv, WorkerInv
    <3>3. \A q \in Purges : purge'[q].elapsed = purge[q].elapsed
      BY <2>2
    <3> QED
      BY <1>0, <2>0, <2>2, <2>5, <3>1, <3>2, <3>3 DEF WorkersInv, WorkerInv
  <2>8. RequestsInv'
    <3>1. \A o \in Objects : object[p][o] = "NONE" => object'[p][o] = "NONE"
      BY <2>3
    <3> QED
      BY <1>0, <2>0, <2>2, <3>1 DEF RequestsInv
  <2>9. OnePurgeAtATime'
    <3>1. \A q \in OpenPurges(s) : q = p
      BY <1>0, <2>0, <2>2 DEF OnePurgeAtATime, OpenPurges
    <3>2. retention[s] = "QUARANTINED"
      BY <1>0, <2>0, <2>2 DEF OnePurgeAtATime, OpenPurges
    <3> QED
      BY <1>0, <2>0, <2>2, <2>3, <3>1, <3>2 DEF OnePurgeAtATime, OpenPurges
  <2>10. AttemptsInv' /\ ErasureInv'
    BY <1>0, <2>0, <2>2, <2>5, <2>6 DEF AttemptsInv, ErasureInv, lifeVars, bucketVars
  <2>11. KeysInv'
    BY <1>0, <2>0, <2>2, <2>3 DEF KeysInv, lifeVars, bucketVars
  <2> QED
    BY <2>4, <2>7, <2>8, <2>9, <2>10, <2>11 DEF PurgeInv
<1> QED
  BY <1>1, <1>2, <1>3, <1>4 DEF RequestNext

-----------------------------------------------------------------------------
(* Finalization: the steps that write nothing but the finalization itself. *)

\* One finalization goes on and stays within what it may do.
LEMMA WorkerMoves ==
  ASSUME PurgeInv, NEW w \in Workers,
         UNCHANGED <<rowVars, lifeVars, bucketVars, hold>>,
         worker' \in [Workers -> WorkerRow],
         \A v \in Workers \ {w} : worker'[v] = worker[v],
         WorkerInv(w)'
  PROVE  PurgeInv'
<1>1. TypeOK'
  BY DEF PurgeInv, TypeOK, rowVars, lifeVars, bucketVars
<1>2. WorkersInv'
  BY DEF PurgeInv, WorkersInv, WorkerInv, Attempted, rowVars
<1> QED
  BY <1>1, <1>2, RowsKept DEF PurgeInv

\* Starting, skipping, locking, expiring, ending and dying write no row.
LEMMA MovesKeepInv ==
  ASSUME PurgeInv, NEW w \in Workers,
         \/ \E p \in Purges : BeginFinalize(w, p)
         \/ \E o \in Objects : SkipPurgeObject(w, o)
         \/ LockForDelete(w)
         \/ TransactionExpires(w)
         \/ FindExpired(w)
         \/ EndWithFailures(w)
         \/ CannotComplete(w)
         \/ Crash(w)
  PROVE  PurgeInv'
<1>0. TypeOK /\ WorkerInv(w) /\ worker \in [Workers -> WorkerRow]
  BY DEF PurgeInv, WorkersInv, TypeOK
<1>1. ASSUME NEW p \in Purges, BeginFinalize(w, p)
      PROVE  PurgeInv'
  <2>1. /\ purge[p].elapsed
        /\ UNCHANGED <<rowVars, lifeVars, bucketVars, hold>>
        /\ worker' = [worker EXCEPT ![w] =
             [stage |-> "working", purge |-> p, object |-> None, held |-> FALSE,
              failed |-> FALSE,
              todo |-> {o \in Objects : object[p][o] \in AttemptableStatus}]]
    BY <1>1 DEF BeginFinalize
  <2>2. /\ worker'[w].stage = "working" /\ worker'[w].purge = p /\ ~worker'[w].held
        /\ \A v \in Workers \ {w} : worker'[v] = worker[v]
        /\ worker' \in [Workers -> WorkerRow]
    BY <1>0, <2>1 DEF WorkerRow
  <2> QED
    BY <2>1, <2>2, WorkerMoves DEF WorkerInv, rowVars
<1>2. ASSUME NEW o \in Objects, SkipPurgeObject(w, o)
      PROVE  PurgeInv'
  <2>1. /\ worker[w].stage = "working"
        /\ UNCHANGED <<rowVars, lifeVars, bucketVars, hold>>
    BY <1>2 DEF SkipPurgeObject
  <2>2. PICK failed \in BOOLEAN :
          worker' = [worker EXCEPT ![w].todo = @ \ {o}, ![w].failed = failed]
    BY <1>0, <1>2, WorkerFields DEF SkipPurgeObject
  <2>3. /\ worker'[w].stage = "working" /\ worker'[w].purge = worker[w].purge
        /\ worker'[w].held = worker[w].held
        /\ \A v \in Workers \ {w} : worker'[v] = worker[v]
        /\ worker' \in [Workers -> WorkerRow]
    <3>1. PICK r : r = [worker[w] EXCEPT !.todo = @ \ {o}, !.failed = failed]
      OBVIOUS
    <3>2. worker[w] \in WorkerRow
      BY <1>0
    <3>3. /\ r \in WorkerRow
          /\ r.stage = worker[w].stage /\ r.purge = worker[w].purge /\ r.held = worker[w].held
      BY <3>1, <3>2 DEF WorkerRow
    <3>4. worker' = [worker EXCEPT ![w] = r]
      BY <2>2, <3>1
    <3> QED
      BY <1>0, <2>1, <3>3, <3>4, RowReplaced
  <2> QED
    BY <1>0, <2>1, <2>3, WorkerMoves DEF WorkerInv, rowVars
<1>3. CASE LockForDelete(w)
  <2>1. /\ worker[w].stage = "reserved"
        /\ purge[worker[w].purge].status \in {"QUARANTINED", "FAILED"}
        /\ UNCHANGED <<rowVars, lifeVars, bucketVars, hold>>
        /\ worker' = [worker EXCEPT ![w].stage = "looking", ![w].held = TRUE]
    BY <1>3 DEF LockForDelete, IsFinalizable
  <2>2. /\ worker'[w].stage = "looking" /\ worker'[w].purge = worker[w].purge
        /\ worker'[w].object = worker[w].object
        /\ \A v \in Workers \ {w} : worker'[v] = worker[v]
        /\ worker' \in [Workers -> WorkerRow]
    <3>1. PICK r : r = [worker[w] EXCEPT !.stage = "looking", !.held = TRUE]
      OBVIOUS
    <3>2. worker[w] \in WorkerRow
      BY <1>0
    <3>3. r \in WorkerRow /\ r.stage = "looking" /\ r.purge = worker[w].purge
          /\ r.object = worker[w].object
      BY <3>1, <3>2 DEF WorkerRow
    <3>4. worker' = [worker EXCEPT ![w] = r]
      BY <2>1, <3>1
    <3> QED
      BY <1>0, <2>1, <3>3, <3>4, RowReplaced
  <2> QED
    BY <1>0, <2>1, <2>2, WorkerMoves DEF WorkerInv, Attempted, rowVars
<1>4. CASE TransactionExpires(w)
  <2>1. /\ UNCHANGED <<rowVars, lifeVars, bucketVars, hold>>
        /\ worker' = [worker EXCEPT ![w].held = FALSE]
    BY <1>4 DEF TransactionExpires
  <2>2. /\ worker'[w].stage = worker[w].stage /\ worker'[w].purge = worker[w].purge
        /\ worker'[w].object = worker[w].object /\ ~worker'[w].held
        /\ \A v \in Workers \ {w} : worker'[v] = worker[v]
        /\ worker' \in [Workers -> WorkerRow]
    <3>1. PICK r : r = [worker[w] EXCEPT !.held = FALSE]
      OBVIOUS
    <3>2. worker[w] \in WorkerRow
      BY <1>0
    <3>3. r \in WorkerRow /\ r.stage = worker[w].stage /\ r.purge = worker[w].purge
          /\ r.object = worker[w].object /\ ~r.held
      BY <3>1, <3>2 DEF WorkerRow
    <3>4. worker' = [worker EXCEPT ![w] = r]
      BY <2>1, <3>1
    <3> QED
      BY <1>0, <2>1, <3>3, <3>4, RowReplaced
  <2> QED
    BY <1>0, <2>1, <2>2, WorkerMoves DEF WorkerInv, Attempted, rowVars
<1>5. CASE FindExpired(w)
  <2>1. /\ worker[w].stage # "idle" /\ ~worker[w].held
        /\ UNCHANGED <<rowVars, lifeVars, bucketVars, hold>>
        /\ worker' = [worker EXCEPT ![w].stage = "noting"]
    BY <1>5 DEF FindExpired
  <2>2. /\ worker'[w].stage = "noting" /\ worker'[w].purge = worker[w].purge
        /\ ~worker'[w].held
        /\ \A v \in Workers \ {w} : worker'[v] = worker[v]
        /\ worker' \in [Workers -> WorkerRow]
    <3>1. PICK r : r = [worker[w] EXCEPT !.stage = "noting"]
      OBVIOUS
    <3>2. worker[w] \in WorkerRow
      BY <1>0
    <3>3. r \in WorkerRow /\ r.stage = "noting" /\ r.purge = worker[w].purge
          /\ r.held = worker[w].held
      BY <3>1, <3>2 DEF WorkerRow
    <3>4. worker' = [worker EXCEPT ![w] = r]
      BY <2>1, <3>1
    <3> QED
      BY <1>0, <2>1, <3>3, <3>4, RowReplaced
  <2> QED
    BY <1>0, <2>1, <2>2, WorkerMoves DEF WorkerInv, rowVars
<1>6. ASSUME worker' = [worker EXCEPT ![w] = IdleWorker],
             UNCHANGED <<rowVars, lifeVars, bucketVars, hold>>
      PROVE  PurgeInv'
  <2>1. IdleWorker \in WorkerRow /\ IdleWorker.stage = "idle" /\ ~IdleWorker.held
    BY DEF IdleWorker, WorkerRow
  <2>2. /\ worker'[w] = IdleWorker
        /\ \A v \in Workers \ {w} : worker'[v] = worker[v]
        /\ worker' \in [Workers -> WorkerRow]
    BY <1>0, <1>6, <2>1
  <2> QED
    BY <1>6, <2>1, <2>2, WorkerMoves DEF WorkerInv
<1>7. CASE CannotComplete(w)
  <2>1. /\ worker[w].stage = "working"
        /\ UNCHANGED <<rowVars, lifeVars, bucketVars, hold>>
        /\ worker' = [worker EXCEPT ![w] =
             IF HasEnded(worker[w].purge) THEN IdleWorker
             ELSE [worker[w] EXCEPT !.stage = "noting", !.object = None]]
    BY <1>0, <1>7 DEF CannotComplete
  <2>2. CASE HasEnded(worker[w].purge)
    BY <1>6, <2>1, <2>2
  <2>3. CASE ~HasEnded(worker[w].purge)
    <3>1. worker' = [worker EXCEPT ![w] = [worker[w] EXCEPT !.stage = "noting", !.object = None]]
      BY <2>1, <2>3
    <3>2. /\ worker'[w].stage = "noting" /\ worker'[w].purge = worker[w].purge
          /\ worker'[w].held = worker[w].held
          /\ \A v \in Workers \ {w} : worker'[v] = worker[v]
          /\ worker' \in [Workers -> WorkerRow]
      <4>1. PICK r : r = [worker[w] EXCEPT !.stage = "noting", !.object = None]
        OBVIOUS
      <4>2. worker[w] \in WorkerRow
        BY <1>0
      <4>3. r \in WorkerRow /\ r.stage = "noting" /\ r.purge = worker[w].purge
            /\ r.held = worker[w].held
        BY <4>1, <4>2 DEF WorkerRow
      <4>4. worker' = [worker EXCEPT ![w] = r]
        BY <3>1, <4>1
      <4> QED
        BY <1>0, <3>1, <4>3, <4>4, RowReplaced
    <3> QED
      BY <1>0, <2>1, <3>2, WorkerMoves DEF WorkerInv, rowVars
  <2> QED
    BY <2>2, <2>3
<1>8. CASE EndWithFailures(w) \/ Crash(w)
  BY <1>6, <1>8 DEF EndWithFailures, Crash
<1> QED
  BY <1>1, <1>2, <1>3, <1>4, <1>5, <1>7, <1>8

-----------------------------------------------------------------------------
(* Finalization: what is asked of the bucket, and what it does. *)

\* Only an attempted object is sent to the bucket.
LEMMA BucketKeepsInv ==
  ASSUME PurgeInv,
         \/ \E w \in Workers : SendDelete(w)
         \/ \E o \in Objects : StorageDeletes(o)
  PROVE  PurgeInv'
<1>0. TypeOK /\ WorkersInv /\ KeysInv /\ AttemptsInv /\ ErasureInv
  BY DEF PurgeInv
<1>1. ASSUME NEW w \in Workers, SendDelete(w)
      PROVE  PurgeInv'
  <2>0. WorkerInv(w) /\ worker \in [Workers -> WorkerRow]
    BY <1>0 DEF WorkersInv, TypeOK
  <2>1. /\ worker[w].stage = "looking"
        /\ UNCHANGED <<rowVars, lifeVars, storage, hold>>
        /\ deleting' = deleting \cup {worker[w].object}
        /\ worker' = [worker EXCEPT ![w].stage = "erasing"]
    BY <1>1 DEF SendDelete
  <2>2. /\ worker'[w].stage = "erasing" /\ worker'[w].purge = worker[w].purge
        /\ worker'[w].object = worker[w].object /\ worker'[w].held = worker[w].held
        /\ \A v \in Workers \ {w} : worker'[v] = worker[v]
        /\ worker' \in [Workers -> WorkerRow]
    BY <1>0, <2>0, <2>1, WorkerFields DEF WorkerRow
  <2>3. /\ worker[w].object \in Objects
        /\ worker[w].purge \in Purges
        /\ Attempted(worker[w].purge, worker[w].object)
    BY <2>0, <2>1 DEF WorkerInv
  <2>4. TypeOK'
    BY <1>0, <2>1, <2>2, <2>3 DEF TypeOK, rowVars, lifeVars
  <2>5. WorkersInv'
    BY <1>0, <2>1, <2>2 DEF WorkersInv, WorkerInv, Attempted, rowVars
  <2>6. RequestsInv'
    BY <2>1 DEF PurgeInv, RequestsInv, rowVars
  <2>7. OnePurgeAtATime'
    BY <2>1 DEF PurgeInv, OnePurgeAtATime, OpenPurges, rowVars
  <2>8. AttemptsInv' /\ KeysInv'
    BY <1>0, <2>1 DEF AttemptsInv, KeysInv, Attempted, rowVars, lifeVars
  <2>9. ErasureInv'
    BY <1>0, <2>1, <2>3 DEF ErasureInv, Attempted, rowVars
  <2> QED
    BY <2>4, <2>5, <2>6, <2>7, <2>8, <2>9 DEF PurgeInv
<1>2. ASSUME NEW o \in Objects, StorageDeletes(o)
      PROVE  PurgeInv'
  <2>1. /\ o \in deleting
        /\ UNCHANGED <<rowVars, lifeVars, hold, worker>>
        /\ deleting' = deleting \ {o}
        /\ storage' = [storage EXCEPT ![o] = IF @ = "stored" THEN "erased" ELSE @]
    BY <1>2 DEF StorageDeletes
  <2>2. /\ \A x \in Objects \ {o} : storage'[x] = storage[x]
        /\ storage[o] # "unused" => storage'[o] # "unused"
        /\ storage' \in [Objects -> StorageState]
    BY <1>0, <2>1 DEF TypeOK, StorageState
  <2>3. TypeOK'
    BY <1>0, <2>1, <2>2 DEF TypeOK, rowVars, lifeVars
  <2>4. AttemptsInv' /\ ErasureInv'
    BY <1>0, <2>1, <2>2 DEF AttemptsInv, ErasureInv, Attempted, rowVars, lifeVars
  <2>5. KeysInv'
    <3>1. \A s \in Submissions : media[s] \subseteq Objects
      BY <1>0 DEF TypeOK
    <3> QED
      BY <1>0, <2>1, <2>2, <3>1 DEF KeysInv, rowVars, lifeVars
  <2> QED
    BY <2>1, <2>3, <2>4, <2>5, RequestsKept DEF PurgeInv
<1> QED
  BY <1>1, <1>2

-----------------------------------------------------------------------------
(* Finalization: the steps that write rows. *)

\* The row after a failure.
LEMMA WorkerGoesOn ==
  ASSUME NEW w \in Workers, worker \in [Workers -> WorkerRow],
         worker' = [worker EXCEPT ![w] =
           [worker[w] EXCEPT !.stage = "working", !.failed = TRUE]]
  PROVE  /\ worker'[w].stage = "working" /\ worker'[w].purge = worker[w].purge
         /\ worker'[w].held = worker[w].held
         /\ \A v \in Workers \ {w} : worker'[v] = worker[v]
         /\ worker' \in [Workers -> WorkerRow]
<1>1. PICK r : r = [worker[w] EXCEPT !.stage = "working", !.failed = TRUE]
  OBVIOUS
<1>2. worker[w] \in WorkerRow
  OBVIOUS
<1>3. /\ r \in WorkerRow
      /\ r.stage = "working" /\ r.purge = worker[w].purge /\ r.held = worker[w].held
  BY <1>1, <1>2 DEF WorkerRow
<1>4. worker' = [worker EXCEPT ![w] = r]
  BY <1>1
<1> QED
  BY <1>3, <1>4, RowReplaced

\* The row after a reservation.
LEMMA WorkerReserves ==
  ASSUME NEW w \in Workers, worker \in [Workers -> WorkerRow], NEW x \in Objects,
         worker' = [worker EXCEPT ![w] =
           [worker[w] EXCEPT !.stage = "reserved", !.object = x, !.todo = @ \ {x}]]
  PROVE  /\ worker'[w].stage = "reserved" /\ worker'[w].purge = worker[w].purge
         /\ worker'[w].object = x /\ worker'[w].held = worker[w].held
         /\ \A v \in Workers \ {w} : worker'[v] = worker[v]
         /\ worker' \in [Workers -> WorkerRow]
<1>1. PICK r : r = [worker[w] EXCEPT !.stage = "reserved", !.object = x, !.todo = @ \ {x}]
  OBVIOUS
<1>2. worker[w] \in WorkerRow
  OBVIOUS
<1>3. /\ r \in WorkerRow
      /\ r.stage = "reserved" /\ r.purge = worker[w].purge
      /\ r.object = x /\ r.held = worker[w].held
  BY <1>1, <1>2 DEF WorkerRow
<1>4. worker' = [worker EXCEPT ![w] = r]
  BY <1>1
<1> QED
  BY <1>3, <1>4, RowReplaced

\* A request under finalization may record attempts and a failure: its own, of
\* objects it captured and nobody else refers to.
LEMMA AttemptMade ==
  ASSUME PurgeInv, NEW w \in Workers, NEW p \in Purges,
         purge[p].elapsed, purge[p].status \in {"QUARANTINED", "FAILED"},
         UNCHANGED <<retention, lifeVars, bucketVars, hold>>,
         purge' \in [Purges -> PurgeRow],
         \A q \in Purges \ {p} : purge'[q] = purge[q],
         purge'[p].target = purge[p].target, purge'[p].by = purge[p].by,
         purge'[p].approver = purge[p].approver, purge'[p].elapsed = purge[p].elapsed,
         purge'[p].status \in {"QUARANTINED", "FAILED"},
         object' \in [Purges -> [Objects -> ObjectStatus]],
         \A q \in Purges, x \in Objects :
           \/ object'[q][x] = object[q][x]
           \/ /\ q = p /\ Attempted(q, x)' /\ object[q][x] # "NONE"
              /\ \A t \in Submissions : t # purge[p].target => x \notin media[t],
         worker' \in [Workers -> WorkerRow],
         \A v \in Workers \ {w} : worker'[v] = worker[v],
         WorkerInv(w)'
  PROVE  PurgeInv'
<1>0. /\ TypeOK /\ WorkersInv /\ RequestsInv /\ OnePurgeAtATime
      /\ AttemptsInv /\ KeysInv /\ ErasureInv
  BY DEF PurgeInv
<1>1. \A q \in Purges, x \in Objects : Attempted(q, x) => Attempted(q, x)'
  BY DEF Attempted
<1>2. TypeOK'
  BY <1>0 DEF TypeOK, lifeVars, bucketVars
<1>3. WorkersInv'
  <2>1. \A q \in Purges : purge'[q].elapsed = purge[q].elapsed
    OBVIOUS
  <2>2. \A q \in Purges : purge[q].status \in {"QUARANTINED", "FAILED"} =>
          purge'[q].status \in {"QUARANTINED", "FAILED"}
    OBVIOUS
  <2>3. \A v \in Workers \ {w} : worker[v].held => worker[v].purge \in Purges
    BY <1>0 DEF WorkersInv, WorkerInv
  <2> QED
    BY <1>0, <1>1, <2>1, <2>2, <2>3 DEF WorkersInv, WorkerInv
<1>4. RequestsInv'
  <2>1. \A q \in Purges : purge'[q].approver = None =>
          \A x \in Objects : object'[q][x] = "NONE"
    BY <1>0 DEF RequestsInv
  <2>2. purge[p].approver # None
    BY <1>0 DEF RequestsInv
  <2> QED
    BY <1>0, <2>1, <2>2 DEF RequestsInv
<1>5. OnePurgeAtATime'
  <2>1. \A s \in Submissions : OpenPurges(s)' = OpenPurges(s)
    BY DEF OpenPurges
  <2>2. \A q \in Purges : purge'[q].target = purge[q].target
    OBVIOUS
  <2>3. \A q \in Purges : /\ purge'[q].status \in {"QUARANTINED", "FAILED"} <=>
                               purge[q].status \in {"QUARANTINED", "FAILED"}
                          /\ purge'[q].status = "COMPLETED" <=> purge[q].status = "COMPLETED"
    OBVIOUS
  <2>4. \A s \in Submissions : \A q \in OpenPurges(s) : q \in Purges
    BY DEF OpenPurges
  <2> QED
    BY <1>0, <2>1, <2>2, <2>3, <2>4 DEF OnePurgeAtATime
<1>6. AttemptsInv'
  <2> SUFFICES ASSUME NEW q \in Purges, NEW x \in Objects, Attempted(q, x)'
               PROVE  /\ purge'[q].elapsed
                      /\ purge'[q].status \in {"QUARANTINED", "FAILED", "COMPLETED"}
                      /\ \A t \in Submissions : t # purge'[q].target => x \notin media[t]
    BY DEF AttemptsInv, lifeVars
  <2>1. CASE object'[q][x] = object[q][x]
    <3>1. Attempted(q, x)
      BY <2>1 DEF Attempted
    <3>2. /\ purge[q].elapsed
          /\ purge[q].status \in {"QUARANTINED", "FAILED", "COMPLETED"}
          /\ \A t \in Submissions : t # purge[q].target => x \notin media[t]
      BY <1>0, <3>1 DEF AttemptsInv
    <3>3. CASE q = p
      BY <3>2, <3>3
    <3>4. CASE q # p
      BY <3>2, <3>4
    <3> QED
      BY <3>3, <3>4
  <2>2. CASE q = p /\ \A t \in Submissions : t # purge[p].target => x \notin media[t]
    BY <2>2
  <2> QED
    BY <2>1, <2>2
<1>7. KeysInv'
  <2>1. \A q \in Purges, x \in Objects : object'[q][x] # "NONE" => object[q][x] # "NONE"
    OBVIOUS
  <2> QED
    BY <1>0, <2>1 DEF KeysInv, lifeVars, bucketVars
<1>8. ErasureInv'
  BY <1>0, <1>1 DEF ErasureInv, bucketVars
<1> QED
  BY <1>2, <1>3, <1>4, <1>5, <1>6, <1>7, <1>8 DEF PurgeInv

\* Reservation, refusal, confirmation and failure.
LEMMA AttemptsKeepInv ==
  ASSUME PurgeInv, NEW w \in Workers,
         \/ \E o \in Objects : PreparePurgeObject(w, o)
         \/ RefuseDelete(w)
         \/ ConfirmDelete(w)
         \/ FailDelete(w)
         \/ \E recorded \in BOOLEAN : NoteFailure(w, recorded)
  PROVE  PurgeInv'
<1>a. worker[w].stage # "idle"
  BY DEF PreparePurgeObject, RefuseDelete, ConfirmDelete, FailDelete, NoteFailure
<1>p. PICK p \in Purges : p = worker[w].purge
  BY <1>a, WorkerHasPurge
<1>o. PICK o : o = worker[w].object
  OBVIOUS
<1>0. /\ p = worker[w].purge /\ o = worker[w].object
      /\ TypeOK /\ WorkerInv(w) /\ AttemptsInv
      /\ worker \in [Workers -> WorkerRow]
      /\ object \in [Purges -> [Objects -> ObjectStatus]]
      /\ purge \in [Purges -> PurgeRow]
  BY <1>p, <1>o DEF PurgeInv, WorkersInv, TypeOK
<1>w. /\ TypeOK /\ p = worker[w].purge /\ o = worker[w].object
      /\ worker \in [Workers -> WorkerRow]
  BY <1>0
<1>1. ASSUME NEW x \in Objects, PreparePurgeObject(w, x)
      PROVE  PurgeInv'
  <2>1. /\ worker[w].stage = "working"
        /\ CanReserve(p, x)
        /\ UNCHANGED <<lifeVars, bucketVars, retention, purge, hold>>
    BY <1>0, <1>1 DEF PreparePurgeObject
  <2>2. /\ object' = [object EXCEPT ![p][x] = "DELETE_PENDING"]
        /\ worker' = [worker EXCEPT ![w].stage = "reserved", ![w].object = x,
                                    ![w].todo = @ \ {x}]
    BY <1>0, <1>1 DEF PreparePurgeObject
  <2>3. p \in Purges /\ purge[p].elapsed
    BY <1>0, <2>1 DEF WorkerInv
  <2>4. /\ worker'[w].stage = "reserved" /\ worker'[w].purge = p
        /\ worker'[w].object = x /\ ~worker'[w].held
        /\ \A v \in Workers \ {w} : worker'[v] = worker[v]
        /\ worker' \in [Workers -> WorkerRow]
    <3>1. ~worker[w].held
      BY <1>0, <2>1 DEF WorkerInv
    <3>2. worker' = [worker EXCEPT ![w] =
            [worker[w] EXCEPT !.stage = "reserved", !.object = x, !.todo = @ \ {x}]]
      BY <1>w, <2>2
    <3> QED
      BY <1>w, <3>1, <3>2, WorkerReserves
  <2>5. /\ object' \in [Purges -> [Objects -> ObjectStatus]]
        /\ object'[p][x] = "DELETE_PENDING"
        /\ \A q \in Purges, y \in Objects : q # p \/ y # x => object'[q][y] = object[q][y]
    BY <1>0, <2>2, <2>3 DEF ObjectStatus
  <2>6. /\ purge[p].status \in {"QUARANTINED", "FAILED"}
        /\ object[p][x] # "NONE"
        /\ \A t \in Submissions : t # purge[p].target => x \notin media[t]
    BY <2>1 DEF PurgeInv, KeysInv, CanReserve, IsFinalizable, AttemptableStatus, IsShared
  <2>7. WorkerInv(w)'
    BY <2>1, <2>3, <2>4, <2>5 DEF WorkerInv, Attempted
  <2> QED
    <3>1. \A q \in Purges, y \in Objects :
            \/ object'[q][y] = object[q][y]
            \/ /\ q = p /\ Attempted(q, y)' /\ object[q][y] # "NONE"
               /\ \A t \in Submissions : t # purge[p].target => y \notin media[t]
      BY <2>5, <2>6 DEF Attempted
    <3>2. UNCHANGED <<retention, lifeVars, bucketVars, hold>> /\ purge' = purge
      BY <2>1
    <3> QED
      BY <1>0, <2>3, <2>4, <2>5, <2>6, <2>7, <3>1, <3>2, AttemptMade
<1>2. ASSUME NEW st \in {"FAILED", "ABSENT"}, worker[w].stage \in {"reserved", "looking", "erasing"},
             purge[p].status \in {"QUARANTINED", "FAILED"},
             UNCHANGED <<retention, lifeVars, bucketVars, hold>>,
             object' = [object EXCEPT ![p][o] = st],
             \/ UNCHANGED purge
             \/ purge' = [purge EXCEPT ![p].status = "FAILED"],
             worker'[w].stage = "working", worker'[w].purge = p, ~worker'[w].held,
             \A v \in Workers \ {w} : worker'[v] = worker[v],
             worker' \in [Workers -> WorkerRow]
      PROVE  PurgeInv'
  <2>1. /\ p \in Purges /\ purge[p].elapsed /\ o \in Objects /\ Attempted(p, o)
    BY <1>0, <1>2 DEF WorkerInv
  <2>2. /\ object' \in [Purges -> [Objects -> ObjectStatus]]
        /\ object'[p][o] = st
        /\ \A q \in Purges, y \in Objects : q # p \/ y # o => object'[q][y] = object[q][y]
    BY <1>0, <1>2, <2>1 DEF ObjectStatus
  <2>3. /\ purge' \in [Purges -> PurgeRow]
        /\ \A q \in Purges \ {p} : purge'[q] = purge[q]
        /\ purge'[p].target = purge[p].target /\ purge'[p].by = purge[p].by
        /\ purge'[p].approver = purge[p].approver /\ purge'[p].elapsed = purge[p].elapsed
        /\ purge'[p].status \in {"QUARANTINED", "FAILED"}
    <3>1. CASE UNCHANGED purge
      BY <1>0, <1>2, <3>1
    <3>2. CASE purge' = [purge EXCEPT ![p].status = "FAILED"]
      BY <1>0, <3>2, StatusReplaced
    <3> QED
      BY <1>2, <3>1, <3>2
  <2>4. \A t \in Submissions : t # purge[p].target => o \notin media[t]
    BY <1>0, <2>1 DEF AttemptsInv
  <2>5. Attempted(p, o)' /\ object[p][o] # "NONE"
    BY <2>1, <2>2 DEF Attempted
  <2>6. WorkerInv(w)'
    BY <1>2, <2>1, <2>3 DEF WorkerInv
  <2> QED
    <3>1. \A q \in Purges, x \in Objects :
            \/ object'[q][x] = object[q][x]
            \/ /\ q = p /\ Attempted(q, x)' /\ object[q][x] # "NONE"
               /\ \A t \in Submissions : t # purge[p].target => x \notin media[t]
      BY <2>2, <2>4, <2>5
    <3>2. /\ purge[p].status \in {"QUARANTINED", "FAILED"}
          /\ UNCHANGED <<retention, lifeVars, bucketVars, hold>>
          /\ worker' \in [Workers -> WorkerRow]
          /\ \A v \in Workers \ {w} : worker'[v] = worker[v]
      BY <1>2
    <3> QED
      BY <2>1, <2>2, <2>3, <2>6, <3>1, <3>2, AttemptMade
<1>3. CASE ConfirmDelete(w)
  <2>1. /\ worker[w].stage = "erasing" /\ worker[w].held
        /\ UNCHANGED <<lifeVars, bucketVars, retention, purge, hold>>
        /\ object' = [object EXCEPT ![p][o] = "ABSENT"]
        /\ worker' = [worker EXCEPT ![w].stage = "working", ![w].held = FALSE]
    BY <1>0, <1>3 DEF ConfirmDelete
  <2>2. /\ worker'[w].stage = "working" /\ worker'[w].purge = p /\ ~worker'[w].held
        /\ \A v \in Workers \ {w} : worker'[v] = worker[v]
        /\ worker' \in [Workers -> WorkerRow]
    BY <1>0, <2>1, WorkerFields DEF WorkerRow
  <2> QED
    BY <1>0, <1>2, <2>1, <2>2 DEF WorkerInv
<1>4. CASE FailDelete(w)
  <2>1. /\ worker[w].stage \in {"looking", "erasing"} /\ worker[w].held
        /\ UNCHANGED <<lifeVars, bucketVars, retention, hold>>
        /\ object' = [object EXCEPT ![p][o] = "FAILED"]
        /\ purge' = [purge EXCEPT ![p].status = "FAILED"]
        /\ worker' = [worker EXCEPT ![w].stage = "working", ![w].held = FALSE,
                                    ![w].failed = TRUE]
    BY <1>0, <1>4 DEF FailDelete, RecordFailure
  <2>2. /\ worker'[w].stage = "working" /\ worker'[w].purge = p /\ ~worker'[w].held
        /\ \A v \in Workers \ {w} : worker'[v] = worker[v]
        /\ worker' \in [Workers -> WorkerRow]
    BY <1>0, <2>1, WorkerFields DEF WorkerRow
  <2> QED
    BY <1>0, <1>2, <2>1, <2>2 DEF WorkerInv
<1>5. ASSUME UNCHANGED <<rowVars, lifeVars, bucketVars, hold>>, worker[w].stage # "idle",
             worker' \in [Workers -> WorkerRow],
             \A v \in Workers \ {w} : worker'[v] = worker[v],
             \/ worker'[w].stage = "idle"
             \/ worker'[w].stage \in {"working", "noting"} /\ worker'[w].purge = p,
             ~worker'[w].held
      PROVE  PurgeInv'
  BY <1>0, <1>5, WorkerMoves DEF WorkerInv, rowVars
<1>6. CASE RefuseDelete(w)
  <2>1. /\ worker[w].stage = "reserved" /\ ~worker[w].held
        /\ UNCHANGED <<lifeVars, bucketVars, hold>>
    BY <1>0, <1>6 DEF RefuseDelete, WorkerInv
  <2>2. \/ /\ worker' = [worker EXCEPT ![w].stage = "noting"]
           /\ UNCHANGED rowVars
        \/ /\ worker' = [worker EXCEPT ![w].stage = "working"]
           /\ UNCHANGED rowVars
        \/ /\ IsFinalizable(p)
           /\ RecordFailure(p, o)
           /\ worker' = [worker EXCEPT ![w].stage = "working", ![w].failed = TRUE]
           /\ UNCHANGED retention
    BY <1>0, <1>6 DEF RefuseDelete
  <2>3. ASSUME NEW stage \in {"noting", "working"},
               worker' = [worker EXCEPT ![w].stage = stage], UNCHANGED rowVars
        PROVE  PurgeInv'
    <3>1. /\ worker'[w].stage = stage /\ worker'[w].purge = p /\ ~worker'[w].held
          /\ \A v \in Workers \ {w} : worker'[v] = worker[v]
          /\ worker' \in [Workers -> WorkerRow]
      <4>1. PICK r : r = [worker[w] EXCEPT !.stage = stage]
        OBVIOUS
      <4>2. worker[w] \in WorkerRow
        BY <1>0
      <4>3. r \in WorkerRow /\ r.stage = stage /\ r.purge = worker[w].purge
            /\ r.held = worker[w].held
        BY <4>1, <4>2 DEF WorkerRow
      <4>4. worker' = [worker EXCEPT ![w] = r]
        BY <2>3, <4>1
      <4> QED
        BY <1>0, <2>1, <4>3, <4>4, RowReplaced
    <3> QED
      BY <1>5, <2>1, <2>3, <3>1
  <2>4. ASSUME IsFinalizable(p), RecordFailure(p, o), UNCHANGED retention,
               worker' = [worker EXCEPT ![w].stage = "working", ![w].failed = TRUE]
        PROVE  PurgeInv'
    <3>1. /\ worker'[w].stage = "working" /\ worker'[w].purge = p /\ ~worker'[w].held
          /\ \A v \in Workers \ {w} : worker'[v] = worker[v]
          /\ worker' \in [Workers -> WorkerRow]
      <4>1. worker' = [worker EXCEPT ![w] =
              [worker[w] EXCEPT !.stage = "working", !.failed = TRUE]]
        BY <1>w, <2>4
      <4> QED
        BY <1>w, <2>1, <4>1, WorkerGoesOn
    <3> QED
      BY <1>2, <2>1, <2>4, <3>1 DEF IsFinalizable, RecordFailure
  <2> QED
    BY <2>2, <2>3, <2>4
<1>7. ASSUME NEW recorded \in BOOLEAN, NoteFailure(w, recorded)
      PROVE  PurgeInv'
  <2>1. /\ worker[w].stage = "noting" /\ ~worker[w].held
        /\ UNCHANGED <<lifeVars, bucketVars, retention, object, hold>>
        /\ worker' = [worker EXCEPT ![w] =
             IF o = None THEN IdleWorker
             ELSE [worker[w] EXCEPT !.stage = "working", !.failed = TRUE]]
    BY <1>0, <1>7 DEF NoteFailure, WorkerInv
  <2>2. \/ UNCHANGED purge
        \/ /\ purge[p].status \in {"QUARANTINED", "FAILED"}
           /\ purge' = [purge EXCEPT ![p].status = "FAILED"]
    BY <1>0, <1>7 DEF NoteFailure
  <2>3. /\ \/ worker'[w].stage = "idle"
           \/ worker'[w].stage = "working" /\ worker'[w].purge = p
        /\ ~worker'[w].held
        /\ \A v \in Workers \ {w} : worker'[v] = worker[v]
        /\ worker' \in [Workers -> WorkerRow]
    <3>1. IdleWorker \in WorkerRow /\ IdleWorker.stage = "idle" /\ ~IdleWorker.held
      BY DEF IdleWorker, WorkerRow
    <3>2. CASE o = None
      <4>1. worker' = [worker EXCEPT ![w] = IdleWorker]
        BY <2>1, <3>2
      <4> QED
        BY <1>0, <3>1, <4>1
    <3>3. CASE o # None
      <4>1. worker' = [worker EXCEPT ![w] =
              [worker[w] EXCEPT !.stage = "working", !.failed = TRUE]]
        BY <2>1, <3>3
      <4> QED
        BY <1>w, <2>1, <4>1, WorkerGoesOn
    <3> QED
      BY <3>2, <3>3
  <2>4. CASE UNCHANGED purge
    BY <1>5, <2>1, <2>3, <2>4 DEF rowVars
  <2>5. ASSUME purge[p].status \in {"QUARANTINED", "FAILED"},
               purge' = [purge EXCEPT ![p].status = "FAILED"]
        PROVE  PurgeInv'
    <3>1. p \in Purges /\ purge[p].elapsed
      BY <1>0, <2>1 DEF WorkerInv
    <3>2. /\ purge' \in [Purges -> PurgeRow]
          /\ \A q \in Purges \ {p} : purge'[q] = purge[q]
          /\ purge'[p].target = purge[p].target /\ purge'[p].by = purge[p].by
          /\ purge'[p].approver = purge[p].approver /\ purge'[p].elapsed = purge[p].elapsed
          /\ purge'[p].status \in {"QUARANTINED", "FAILED"}
      BY <1>0, <2>5, <3>1, StatusReplaced
    <3>3. WorkerInv(w)'
      BY <2>3, <3>1, <3>2 DEF WorkerInv
    <3>4. object' = object
      BY <2>1
    <3> QED
      BY <1>0, <2>1, <2>3, <2>5, <3>1, <3>2, <3>3, <3>4, AttemptMade
  <2> QED
    BY <2>2, <2>4, <2>5
<1> QED
  BY <1>1, <1>3, <1>4, <1>6, <1>7

\* The completed request was the only open one of its Submission.
LEMMA CompletionKeepsInv ==
  ASSUME PurgeInv, NEW w \in Workers, CompletePurge(w)
  PROVE  PurgeInv'
<1>0. /\ TypeOK /\ WorkersInv /\ RequestsInv /\ OnePurgeAtATime
      /\ AttemptsInv /\ KeysInv /\ ErasureInv
  BY DEF PurgeInv
<1>1. worker[w].stage = "working"
  BY DEF CompletePurge
<1>2. PICK p \in Purges : p = worker[w].purge
  BY <1>1, WorkerHasPurge
<1>3. PICK s \in Submissions : s = purge[p].target
  BY <1>1, <1>2, WorkerHasPurge DEF Target
<1>4. /\ ~IsLocked(s) /\ ~HasEnded(p)
      /\ UNCHANGED <<status, flagged, collected, bucketVars, object, hold>>
  BY <1>2, <1>3 DEF CompletePurge
<1>5. /\ purge' = [purge EXCEPT ![p].status = "COMPLETED"]
      /\ retention' = [retention EXCEPT ![s] = "PURGED"]
      /\ media' = [media EXCEPT ![s] = {}]
      /\ attempt' = [attempt EXCEPT ![s] = "NONE"]
      /\ worker' = [worker EXCEPT ![w] = IdleWorker]
  BY <1>2, <1>3 DEF CompletePurge
<1>6. purge[p].elapsed /\ purge[p].status \in {"QUARANTINED", "FAILED"}
  BY <1>0, <1>1, <1>2, <1>4, WorkerHasPurge, PurgeFields DEF HasEnded
<1>7. /\ purge'[p].target = s /\ purge'[p].by = purge[p].by
      /\ purge'[p].approver = purge[p].approver /\ purge'[p].status = "COMPLETED"
      /\ purge'[p].elapsed = purge[p].elapsed
      /\ purge' \in [Purges -> PurgeRow]
      /\ \A q \in Purges \ {p} : purge'[q] = purge[q]
  <2>1. purge \in [Purges -> PurgeRow]
    BY <1>0 DEF TypeOK
  <2> QED
    BY <1>3, <1>5, <2>1, StatusReplaced
<1>8. /\ retention'[s] = "PURGED"
      /\ \A t \in Submissions \ {s} : retention'[t] = retention[t]
      /\ media'[s] = {}
      /\ \A t \in Submissions \ {s} : media'[t] = media[t]
      /\ \A t \in Submissions : media'[t] \subseteq media[t]
  BY <1>0, <1>5 DEF TypeOK
<1>9. IdleWorker \in WorkerRow /\ IdleWorker.stage = "idle" /\ ~IdleWorker.held
  BY DEF IdleWorker, WorkerRow
<1>10. /\ worker'[w] = IdleWorker
       /\ \A v \in Workers \ {w} : worker'[v] = worker[v]
       /\ worker' \in [Workers -> WorkerRow]
  BY <1>0, <1>5, <1>9 DEF TypeOK
<1>11. TypeOK'
  <2>1. /\ retention' \in [Submissions -> {"RETAINED", "QUARANTINED", "PURGED"}]
        /\ media' \in [Submissions -> SUBSET Objects]
        /\ attempt' \in [Submissions -> AttemptStatus]
    BY <1>0, <1>5 DEF TypeOK, AttemptStatus
  <2> QED
    BY <1>0, <1>4, <1>7, <1>10, <2>1 DEF TypeOK, bucketVars
<1>12. WorkersInv'
  <2>1. \A v \in Workers : worker[v].held => worker[v].purge # p
    BY <1>3, <1>4 DEF IsLocked
  <2>2. WorkerInv(w)'
    BY <1>9, <1>10 DEF WorkerInv
  <2>3. \A q \in Purges : purge'[q].elapsed = purge[q].elapsed
    BY <1>7
  <2>4. \A v \in Workers : worker[v].held => worker[v].purge \in Purges
    BY <1>0 DEF WorkersInv, WorkerInv
  <2>5. \A v \in Workers \ {w} : WorkerInv(v)'
    BY <1>0, <1>4, <1>7, <1>10, <2>1, <2>3, <2>4 DEF WorkersInv, WorkerInv, Attempted
  <2> QED
    BY <2>2, <2>5 DEF WorkersInv
<1>13. RequestsInv'
  BY <1>0, <1>3, <1>4, <1>6, <1>7 DEF RequestsInv
<1>14. OnePurgeAtATime'
  <2>1. \A q \in OpenPurges(s) : q = p
    BY <1>0, <1>3, <1>6 DEF OnePurgeAtATime, OpenPurges
  <2>2. retention[s] = "QUARANTINED"
    BY <1>0, <1>3, <1>6 DEF OnePurgeAtATime, OpenPurges
  <2> QED
    BY <1>0, <1>3, <1>6, <1>7, <1>8, <2>1, <2>2 DEF OnePurgeAtATime, OpenPurges
<1>15. AttemptsInv'
  BY <1>0, <1>3, <1>4, <1>7, <1>8 DEF AttemptsInv, Attempted
<1>16. KeysInv' /\ ErasureInv'
  BY <1>0, <1>4, <1>8 DEF KeysInv, ErasureInv, Attempted, bucketVars
<1> QED
  BY <1>11, <1>12, <1>13, <1>14, <1>15, <1>16 DEF PurgeInv

-----------------------------------------------------------------------------
(* The theorems. *)

\* Nothing has been requested yet.
LEMMA InitPurgeInv == Init => PurgeInv
<1> SUFFICES ASSUME Init PROVE PurgeInv
  OBVIOUS
<1>1. TypeOK
  BY PurgeNoneAssumption, LegacyAssumption
     DEF Init, TypeOK, PurgeableStatus, AttemptStatus, StorageState, PurgeRow, ObjectStatus,
         WorkerRow, IdleWorker
<1>2. WorkersInv
  BY DEF Init, WorkersInv, WorkerInv, IdleWorker
<1>3. RequestsInv /\ AttemptsInv
  BY DEF Init, RequestsInv, AttemptsInv, Attempted
<1>4. OnePurgeAtATime
  BY DEF Init, OnePurgeAtATime, OpenPurges
<1>5. KeysInv
  BY LegacyAssumption DEF Init, KeysInv
<1>6. ErasureInv
  BY DEF Init, ErasureInv
<1> QED
  BY <1>1, <1>2, <1>3, <1>4, <1>5, <1>6 DEF PurgeInv

\* Every step of every actor keeps the invariant.
LEMMA PurgeInductive == PurgeInv /\ [Next]_vars => PurgeInv'
<1> SUFFICES ASSUME PurgeInv, [Next]_vars PROVE PurgeInv'
  OBVIOUS
<1>1. CASE LifeNext
  BY <1>1, LifeKeepsInv
<1>2. CASE HoldNext
  BY <1>2, HoldsKeepInv
<1>3. CASE RequestNext
  BY <1>3, RequestKeepsInv
<1>4. CASE FinalizeNext
  BY <1>4, MovesKeepInv, BucketKeepsInv, AttemptsKeepInv, CompletionKeepsInv
     DEF FinalizeNext, WorkerStep
<1>5. CASE UNCHANGED vars
  <2>1. UNCHANGED <<rowVars, lifeVars, bucketVars, hold, worker>>
    BY <1>5 DEF vars, rowVars, lifeVars, bucketVars
  <2>2. TypeOK'
    BY <2>1 DEF PurgeInv, TypeOK, rowVars, lifeVars, bucketVars
  <2> QED
    BY <2>1, <2>2, RequestsKept, RowsKept DEF PurgeInv
<1> QED
  BY <1>1, <1>2, <1>3, <1>4, <1>5 DEF Next

\* Attempts are never taken back, whatever the actors do and in which order.
THEOREM PurgeInvariant == Spec => []PurgeInv
  BY InitPurgeInv, PurgeInductive, PTL DEF Spec

\* The rows of the purge stay well formed, whatever crosses.
THEOREM PurgeTypeSafety == Spec => []TypeOK
  BY PurgeInvariant, PTL DEF PurgeInv

\* At most one open request per Submission, in step with its retention status.
THEOREM PurgesAreOrdered == Spec => []OnePurgeAtATime
  BY PurgeInvariant, PTL DEF PurgeInv

\* Nothing is erased without two Admins and the end of the quarantine.
THEOREM ErasureNeedsApproval == Spec => []ErasureIsAuthorised
<1>1. PurgeInv => ErasureIsAuthorised
  <2> SUFFICES ASSUME PurgeInv, NEW o \in Objects, storage[o] = "erased" \/ o \in deleting
               PROVE  \E p \in Purges :
                        /\ object[p][o] \in {"DELETE_PENDING", "FAILED", "ABSENT"}
                        /\ purge[p].elapsed
                        /\ purge[p].approver # None /\ purge[p].approver # purge[p].by
    BY DEF ErasureIsAuthorised
  <2>1. PICK p \in Purges : Attempted(p, o)
    BY DEF PurgeInv, ErasureInv
  <2>2. purge[p].elapsed /\ purge[p].approver # None /\ purge[p].approver # purge[p].by
    BY <2>1 DEF PurgeInv, AttemptsInv, RequestsInv
  <2> QED
    BY <2>1, <2>2 DEF Attempted
<1> QED
  BY <1>1, PurgeInvariant, PTL

\* A retained Submission has all of its media, and nothing on its way can still
\* erase any of it.
THEOREM RetainedKeepsMedia == Spec => []RetainedIsIntact
<1>1. PurgeInv => RetainedIsIntact
  <2> SUFFICES ASSUME PurgeInv, NEW s \in Submissions, retention[s] = "RETAINED",
                      NEW o \in media[s]
               PROVE  /\ storage[o] # "erased"
                      /\ o \notin deleting
                      /\ \A w \in Workers :
                           worker[w].stage \in {"looking", "erasing"} => worker[w].object # o
    BY DEF RetainedIsIntact
  <2>1. o \in Objects
    BY DEF PurgeInv, TypeOK
  <2>2. \A p \in Purges : ~Attempted(p, o)
    <3> SUFFICES ASSUME NEW p \in Purges, Attempted(p, o) PROVE FALSE
      OBVIOUS
    <3>1. /\ purge[p].status \in {"QUARANTINED", "FAILED", "COMPLETED"}
          /\ purge[p].target = s
      BY <2>1 DEF PurgeInv, AttemptsInv
    <3> QED
      BY <3>1 DEF PurgeInv, OnePurgeAtATime, OpenPurges
  <2>3. storage[o] # "erased" /\ o \notin deleting
    BY <2>1, <2>2 DEF PurgeInv, ErasureInv
  <2>4. \A w \in Workers :
          worker[w].stage \in {"looking", "erasing"} => worker[w].object # o
    BY <2>2 DEF PurgeInv, WorkersInv, WorkerInv
  <2> QED
    BY <2>3, <2>4
<1> QED
  BY <1>1, PurgeInvariant, PTL

-----------------------------------------------------------------------------
(* What one step does to a request, to a key and to a finalization, whoever *)
(* takes it.                                                                *)

\* The request p and its objects.  A confirmed absence was seen in the bucket.
PurgeStep(p) ==
  \/ /\ purge'[p].status = purge[p].status
     /\ purge'[p].target = purge[p].target
     /\ object'[p] = object[p]
  \/ /\ purge[p].status = "NONE"
     /\ purge'[p].status = "REQUESTED"
     /\ \A o \in Objects : object'[p][o] = "NONE"
  \/ /\ purge[p].status = "REQUESTED"
     /\ purge'[p].status = "QUARANTINED"
     /\ purge'[p].target = purge[p].target
     /\ purge[p].target \in Submissions
     /\ UNCHANGED storage
     /\ \A o \in Objects :
          object'[p][o] = IF o \in media[purge[p].target] THEN "QUARANTINED" ELSE "NONE"
  \/ /\ purge[p].status = "QUARANTINED"
     /\ purge'[p].status = "CANCELLED"
     /\ purge'[p].target = purge[p].target
     /\ \A o \in Objects : object[p][o] \in {"NONE", "QUARANTINED"}
     /\ \A o \in Objects :
          object'[p][o] = IF object[p][o] = "QUARANTINED" THEN "CANCELLED" ELSE object[p][o]
  \/ /\ purge[p].status \in {"QUARANTINED", "FAILED"}
     /\ purge'[p].status \in {"QUARANTINED", "FAILED"}
     /\ purge'[p].target = purge[p].target
     /\ UNCHANGED storage
     /\ \A o \in Objects :
          \/ object'[p][o] = object[p][o]
          \/ /\ object[p][o] # "NONE"
             /\ \/ object'[p][o] \in {"DELETE_PENDING", "FAILED"}
                \/ object'[p][o] = "ABSENT" /\ storage[o] # "stored"
  \/ /\ purge[p].status \in {"QUARANTINED", "FAILED"}
     /\ purge'[p].status = "COMPLETED"
     /\ purge'[p].target = purge[p].target
     /\ object'[p] = object[p]
     /\ ObjectsAreAbsent(p)

LEMMA RequestSteps ==
  ASSUME PurgeInv, RequestNext, NEW p \in Purges
  PROVE  PurgeStep(p)
<1>0. TypeOK /\ RequestsInv
  BY DEF PurgeInv
<1>f. /\ purge \in [Purges -> PurgeRow]
      /\ object \in [Purges -> [Objects -> ObjectStatus]]
  BY <1>0 DEF TypeOK
<1>k. ASSUME purge'[p] = purge[p], object'[p] = object[p]
      PROVE  PurgeStep(p)
  BY <1>k DEF PurgeStep
<1>1. ASSUME NEW q \in Purges, NEW s \in Submissions, NEW u \in Admins,
             RequestSubmissionPurge(q, s, u)
      PROVE  PurgeStep(p)
  <2>1. CASE q # p
    BY <1>f, <1>1, <1>k, <2>1 DEF RequestSubmissionPurge
  <2>2. CASE q = p
    <3>1. \A o \in Objects : object[p][o] = "NONE"
      BY <1>0, <1>1, <2>2 DEF RequestSubmissionPurge, RequestsInv
    <3> QED
      BY <1>f, <1>1, <2>2, <3>1 DEF RequestSubmissionPurge, PurgeRow, PurgeStep
  <2> QED
    BY <2>1, <2>2
<1>2. ASSUME NEW q \in Purges, NEW u \in Admins, ApproveSubmissionPurge(q, u)
      PROVE  PurgeStep(p)
  <2>1. CASE q # p
    BY <1>f, <1>2, <1>k, <2>1 DEF ApproveSubmissionPurge
  <2>2. CASE q = p
    <3>1. /\ purge[p].status = "REQUESTED" /\ purge[p].target \in Submissions
          /\ UNCHANGED storage
      BY <1>0, <1>2, <2>2 DEF ApproveSubmissionPurge, RequestsInv, bucketVars
    <3>2. purge'[p].status = "QUARANTINED" /\ purge'[p].target = purge[p].target
      BY <1>f, <1>2, <2>2 DEF ApproveSubmissionPurge, PurgeRow
    <3>3. \A o \in Objects :
            object'[p][o] = IF o \in media[purge[p].target] THEN "QUARANTINED" ELSE "NONE"
      BY <1>f, <1>2, <2>2 DEF ApproveSubmissionPurge
    <3> QED
      BY <3>1, <3>2, <3>3 DEF PurgeStep
  <2> QED
    BY <2>1, <2>2
<1>3. ASSUME NEW q \in Purges, QuarantineElapses(q)
      PROVE  PurgeStep(p)
  <2>1. object' = object
    BY <1>3 DEF QuarantineElapses
  <2>2. purge'[p].status = purge[p].status /\ purge'[p].target = purge[p].target
    BY <1>f, <1>3 DEF QuarantineElapses, PurgeRow
  <2> QED
    BY <2>1, <2>2 DEF PurgeStep
<1>4. ASSUME NEW q \in Purges, CancelSubmissionPurge(q)
      PROVE  PurgeStep(p)
  <2>1. CASE q # p
    BY <1>f, <1>4, <1>k, <2>1 DEF CancelSubmissionPurge
  <2>2. CASE q = p
    <3>1. /\ purge[p].status = "QUARANTINED"
          /\ \A o \in Objects : object[p][o] \in {"NONE", "QUARANTINED"}
      BY <1>4, <2>2 DEF CancelSubmissionPurge
    <3>2. purge'[p].status = "CANCELLED" /\ purge'[p].target = purge[p].target
      BY <1>f, <1>4, <2>2, StatusReplaced DEF CancelSubmissionPurge
    <3>3. \A o \in Objects :
            object'[p][o] = IF object[p][o] = "QUARANTINED" THEN "CANCELLED" ELSE object[p][o]
      BY <1>f, <1>4, <2>2 DEF CancelSubmissionPurge
    <3> QED
      BY <3>1, <3>2, <3>3 DEF PurgeStep
  <2> QED
    BY <2>1, <2>2
<1> QED
  BY <1>1, <1>2, <1>3, <1>4 DEF RequestNext

\* One finalization writes one object of its own request, or fails the request.
LEMMA WorkingSteps ==
  ASSUME PurgeInv, NEW w \in Workers, NEW p \in Purges,
         worker[w].purge \in Purges,
         purge[worker[w].purge].status \in {"QUARANTINED", "FAILED"},
         UNCHANGED storage,
         \/ UNCHANGED purge
         \/ purge' = [purge EXCEPT ![worker[w].purge].status = "FAILED"],
         \/ UNCHANGED object
         \/ \E st \in {"DELETE_PENDING", "FAILED", "ABSENT"}, o \in Objects :
              /\ object[worker[w].purge][o] # "NONE"
              /\ object' = [object EXCEPT ![worker[w].purge][o] = st]
              /\ st = "ABSENT" => storage[o] # "stored"
  PROVE  PurgeStep(p)
<1>0. /\ purge \in [Purges -> PurgeRow]
      /\ object \in [Purges -> [Objects -> ObjectStatus]]
  BY DEF PurgeInv, TypeOK
<1>1. /\ purge'[p].target = purge[p].target
      /\ p # worker[w].purge => purge'[p] = purge[p]
      /\ p = worker[w].purge => purge'[p].status \in {"QUARANTINED", "FAILED"}
  BY <1>0, StatusReplaced
<1>2. CASE p # worker[w].purge
  <2>1. object'[p] = object[p]
    BY <1>0, <1>2
  <2> QED
    BY <1>1, <1>2, <2>1 DEF PurgeStep
<1>3. CASE p = worker[w].purge
  <2>1. CASE UNCHANGED object
    BY <1>1, <1>3, <2>1 DEF PurgeStep
  <2>2. ASSUME NEW st \in {"DELETE_PENDING", "FAILED", "ABSENT"}, NEW o \in Objects,
               object[worker[w].purge][o] # "NONE",
               object' = [object EXCEPT ![worker[w].purge][o] = st],
               st = "ABSENT" => storage[o] # "stored"
        PROVE  PurgeStep(p)
    <3>1. /\ object'[p][o] = st
          /\ \A x \in Objects \ {o} : object'[p][x] = object[p][x]
      BY <1>0, <1>3, <2>2
    <3>2. ASSUME NEW x \in Objects
          PROVE  \/ object'[p][x] = object[p][x]
                 \/ /\ object[p][x] # "NONE"
                    /\ \/ object'[p][x] \in {"DELETE_PENDING", "FAILED"}
                       \/ object'[p][x] = "ABSENT" /\ storage[x] # "stored"
      BY <1>3, <2>2, <3>1
    <3> QED
      BY <1>1, <1>3, <3>2 DEF PurgeStep
  <2> QED
    BY <2>1, <2>2
<1> QED
  BY <1>2, <1>3

\* A finalization works on its own request and writes to it only while the
\* request is approved and has not ended.
LEMMA FinalizeSteps ==
  ASSUME PurgeInv, FinalizeNext, NEW p \in Purges
  PROVE  PurgeStep(p)
<1>0. /\ TypeOK /\ WorkersInv /\ RequestsInv
      /\ purge \in [Purges -> PurgeRow]
      /\ object \in [Purges -> [Objects -> ObjectStatus]]
  BY DEF PurgeInv, TypeOK
<1>k. ASSUME UNCHANGED <<purge, object>> PROVE PurgeStep(p)
  BY <1>k DEF PurgeStep
<1>1. ASSUME NEW w \in Workers, NEW o \in Objects, PreparePurgeObject(w, o)
      PROVE  PurgeStep(p)
  <2>1. /\ worker[w].stage = "working" /\ CanReserve(worker[w].purge, o)
        /\ object' = [object EXCEPT ![worker[w].purge][o] = "DELETE_PENDING"]
        /\ UNCHANGED <<storage, purge>>
    BY <1>1 DEF PreparePurgeObject, bucketVars
  <2>2. worker[w].purge \in Purges
    BY <2>1, WorkerHasPurge
  <2>3. /\ purge[worker[w].purge].status \in {"QUARANTINED", "FAILED"}
        /\ object[worker[w].purge][o] # "NONE"
    BY <2>1 DEF CanReserve, IsFinalizable, AttemptableStatus
  <2> QED
    BY <2>1, <2>2, <2>3, WorkingSteps
<1>2. ASSUME NEW w \in Workers, worker[w].object \in Objects, worker[w].purge \in Purges,
             Attempted(worker[w].purge, worker[w].object),
             purge[worker[w].purge].status \in {"QUARANTINED", "FAILED"},
             RecordFailure(worker[w].purge, worker[w].object), UNCHANGED storage
      PROVE  PurgeStep(p)
  <2>1. /\ object' = [object EXCEPT ![worker[w].purge][worker[w].object] = "FAILED"]
        /\ purge' = [purge EXCEPT ![worker[w].purge].status = "FAILED"]
        /\ object[worker[w].purge][worker[w].object] # "NONE"
    BY <1>2 DEF RecordFailure, Attempted
  <2> QED
    BY <1>2, <2>1, WorkingSteps
<1>3. ASSUME NEW w \in Workers, RefuseDelete(w)
      PROVE  PurgeStep(p)
  <2>1. worker[w].stage = "reserved" /\ UNCHANGED storage
    BY <1>3 DEF RefuseDelete, bucketVars
  <2>2. CASE UNCHANGED rowVars
    BY <1>k, <2>2 DEF rowVars
  <2>3. CASE IsFinalizable(worker[w].purge) /\ RecordFailure(worker[w].purge, worker[w].object)
    <3>1. /\ worker[w].object \in Objects /\ worker[w].purge \in Purges
          /\ Attempted(worker[w].purge, worker[w].object)
      BY <1>0, <2>1 DEF WorkersInv, WorkerInv
    <3> QED
      BY <1>2, <2>1, <2>3, <3>1 DEF IsFinalizable
  <2> QED
    BY <1>3, <2>2, <2>3 DEF RefuseDelete
<1>4. ASSUME NEW w \in Workers, worker[w].held
      PROVE  /\ worker[w].object \in Objects /\ worker[w].purge \in Purges
             /\ Attempted(worker[w].purge, worker[w].object)
             /\ purge[worker[w].purge].status \in {"QUARANTINED", "FAILED"}
  BY <1>0, <1>4 DEF WorkersInv, WorkerInv
<1>5. ASSUME NEW w \in Workers, FailDelete(w)
      PROVE  PurgeStep(p)
  <2>1. /\ worker[w].held /\ RecordFailure(worker[w].purge, worker[w].object)
        /\ UNCHANGED storage
    BY <1>5 DEF FailDelete, bucketVars
  <2> QED
    BY <1>2, <1>4, <2>1
<1>6. ASSUME NEW w \in Workers, ConfirmDelete(w)
      PROVE  PurgeStep(p)
  <2>1. /\ worker[w].held /\ storage[worker[w].object] # "stored"
        /\ object' = [object EXCEPT ![worker[w].purge][worker[w].object] = "ABSENT"]
        /\ UNCHANGED <<storage, purge>>
    BY <1>6 DEF ConfirmDelete, bucketVars
  <2>2. object[worker[w].purge][worker[w].object] # "NONE"
    BY <1>4, <2>1 DEF Attempted
  <2> QED
    BY <1>4, <2>1, <2>2, WorkingSteps
<1>7. ASSUME NEW w \in Workers, NEW recorded \in BOOLEAN, NoteFailure(w, recorded)
      PROVE  PurgeStep(p)
  <2>1. worker[w].stage = "noting" /\ UNCHANGED <<storage, object>>
    BY <1>7 DEF NoteFailure, bucketVars
  <2>2. CASE recorded /\ purge[worker[w].purge].status \in {"QUARANTINED", "FAILED"}
    <3>1. purge' = [purge EXCEPT ![worker[w].purge].status = "FAILED"]
      BY <1>7, <2>2 DEF NoteFailure
    <3>2. worker[w].purge \in Purges
      BY <2>1, WorkerHasPurge
    <3> QED
      BY <2>1, <2>2, <3>1, <3>2, WorkingSteps
  <2>3. CASE ~(recorded /\ purge[worker[w].purge].status \in {"QUARANTINED", "FAILED"})
    <3>1. purge' = purge
      BY <1>7, <2>3 DEF NoteFailure
    <3> QED
      BY <1>k, <2>1, <3>1
  <2> QED
    BY <2>2, <2>3
<1>8. ASSUME NEW w \in Workers, CompletePurge(w)
      PROVE  PurgeStep(p)
  <2>1. /\ worker[w].stage = "working" /\ ~HasEnded(worker[w].purge)
        /\ CanComplete(worker[w].purge)
        /\ purge' = [purge EXCEPT ![worker[w].purge].status = "COMPLETED"]
        /\ object' = object
    BY <1>8 DEF CompletePurge
  <2>2. /\ worker[w].purge \in Purges
        /\ purge[worker[w].purge].status \notin {"NONE", "REQUESTED"}
    BY <2>1, WorkerHasPurge
  <2>3. CASE p = worker[w].purge
    <3>1. purge[p].status \in {"QUARANTINED", "FAILED"}
      BY <1>0, <2>1, <2>2, <2>3, PurgeFields DEF HasEnded
    <3>2. purge'[p].status = "COMPLETED" /\ purge'[p].target = purge[p].target
      BY <1>0, <2>1, <2>3, StatusReplaced
    <3> QED
      BY <2>1, <2>3, <3>1, <3>2 DEF PurgeStep, CanComplete
  <2>4. CASE p # worker[w].purge
    <3>1. purge'[p] = purge[p]
      BY <1>0, <2>1, <2>2, <2>4
    <3> QED
      BY <2>1, <3>1 DEF PurgeStep
  <2> QED
    BY <2>3, <2>4
<1>9. ASSUME NEW w \in Workers,
             \/ \E q \in Purges : BeginFinalize(w, q)
             \/ \E o \in Objects : SkipPurgeObject(w, o)
             \/ LockForDelete(w) \/ SendDelete(w) \/ FindExpired(w) \/ EndWithFailures(w)
             \/ CannotComplete(w) \/ TransactionExpires(w) \/ Crash(w)
      PROVE  PurgeStep(p)
  <2>1. UNCHANGED rowVars
    BY <1>9 DEF BeginFinalize, SkipPurgeObject, LockForDelete, SendDelete, FindExpired,
                EndWithFailures, CannotComplete, TransactionExpires, Crash
  <2> QED
    BY <1>k, <2>1 DEF rowVars
<1>10. ASSUME NEW o \in Objects, StorageDeletes(o)
       PROVE  PurgeStep(p)
  BY <1>10, <1>k DEF StorageDeletes, rowVars
<1> QED
  BY <1>1, <1>3, <1>5, <1>6, <1>7, <1>8, <1>9, <1>10 DEF FinalizeNext, WorkerStep

\* Whoever acts, a request takes one of these steps.
LEMMA PurgeSteps ==
  ASSUME PurgeInv, [Next]_vars, NEW p \in Purges
  PROVE  PurgeStep(p)
<1>k. ASSUME UNCHANGED <<purge, object>> PROVE PurgeStep(p)
  BY <1>k DEF PurgeStep
<1>1. ASSUME LifeNext PROVE PurgeStep(p)
  <2>1. UNCHANGED rowVars
    BY <1>1 DEF LifeNext, CreatePresignedUpload, UploadTake, RaiseFlag, StatusMoves,
                CreateIpaymuCheckout, AttemptFails, ProviderCollects, NotifySuccess
  <2> QED
    BY <1>k, <2>1 DEF rowVars
<1>2. ASSUME HoldNext PROVE PurgeStep(p)
  <2>1. UNCHANGED rowVars
    BY <1>2 DEF HoldNext, CreateRetentionHold, ReleaseRetentionHold
  <2> QED
    BY <1>k, <2>1 DEF rowVars
<1>3. ASSUME UNCHANGED vars PROVE PurgeStep(p)
  BY <1>k, <1>3 DEF vars
<1> QED
  BY <1>1, <1>2, <1>3, RequestSteps, FinalizeSteps DEF Next

\* The bucket: what a key may become in one step.
StorageStep(o) ==
  \/ storage'[o] = storage[o]
  \/ storage[o] = "unused" /\ storage'[o] = "presigned" /\ UNCHANGED <<purge, object>>
  \/ storage[o] = "presigned" /\ UploadTake(o)
  \/ storage'[o] = "erased"

\* A key is presigned for its own Submission, and stored within the hour.
LEMMA StorageSteps ==
  ASSUME PurgeInv, [Next]_vars, NEW o \in Objects
  PROVE  StorageStep(o)
<1>0. storage \in [Objects -> StorageState]
  BY DEF PurgeInv, TypeOK
<1>k. ASSUME UNCHANGED storage PROVE StorageStep(o)
  BY <1>k DEF StorageStep
<1>1. ASSUME NEW s \in Submissions, NEW x \in Objects, NEW old \in Objects \cup {None},
             CreatePresignedUpload(s, x, old)
      PROVE  StorageStep(o)
  <2>1. /\ storage[x] = "unused" /\ storage' = [storage EXCEPT ![x] = "presigned"]
        /\ UNCHANGED <<purge, object>>
    BY <1>1 DEF CreatePresignedUpload, rowVars
  <2> QED
    BY <1>0, <2>1 DEF StorageStep
<1>2. ASSUME NEW x \in Objects, UploadTake(x)
      PROVE  StorageStep(o)
  <2>1. storage[x] = "presigned" /\ storage' = [storage EXCEPT ![x] = "stored"]
    BY <1>2 DEF UploadTake
  <2> QED
    BY <1>0, <1>2, <2>1 DEF StorageStep
<1>3. ASSUME NEW x \in Objects, StorageDeletes(x)
      PROVE  StorageStep(o)
  <2>1. storage' = [storage EXCEPT ![x] = IF @ = "stored" THEN "erased" ELSE @]
    BY <1>3 DEF StorageDeletes
  <2> QED
    BY <1>0, <2>1 DEF StorageStep
<1>4. ASSUME NEW s \in Submissions,
             \/ RaiseFlag(s)
             \/ \E to \in {"ABANDONED", "AWAITING_PAYMENT", "LATER"} : StatusMoves(s, to)
             \/ CreateIpaymuCheckout(s) \/ AttemptFails(s)
             \/ ProviderCollects(s) \/ NotifySuccess(s)
      PROVE  StorageStep(o)
  <2>1. UNCHANGED bucketVars
    BY <1>4 DEF RaiseFlag, StatusMoves, CreateIpaymuCheckout, AttemptFails,
                ProviderCollects, NotifySuccess
  <2> QED
    BY <1>k, <2>1 DEF bucketVars
<1>5. ASSUME HoldNext \/ RequestNext PROVE StorageStep(o)
  <2>1. UNCHANGED bucketVars
    BY <1>5 DEF HoldNext, CreateRetentionHold, ReleaseRetentionHold, RequestNext,
                RequestSubmissionPurge, ApproveSubmissionPurge, QuarantineElapses,
                CancelSubmissionPurge
  <2> QED
    BY <1>k, <2>1 DEF bucketVars
<1>6. ASSUME NEW w \in Workers,
             \/ \E p \in Purges : BeginFinalize(w, p)
             \/ WorkerStep(w) \/ TransactionExpires(w) \/ Crash(w)
      PROVE  StorageStep(o)
  <2>1. UNCHANGED storage
    BY <1>6 DEF BeginFinalize, WorkerStep, PreparePurgeObject, SkipPurgeObject, LockForDelete,
                RefuseDelete, SendDelete, ConfirmDelete, FailDelete, FindExpired, NoteFailure,
                EndWithFailures, CompletePurge, CannotComplete, TransactionExpires, Crash,
                bucketVars
  <2> QED
    BY <1>k, <2>1
<1>7. ASSUME UNCHANGED vars PROVE StorageStep(o)
  BY <1>k, <1>7 DEF vars
<1> QED
  BY <1>1, <1>2, <1>3, <1>4, <1>5, <1>6, <1>7 DEF Next, LifeNext, FinalizeNext

-----------------------------------------------------------------------------
(* What a purge leaves behind. *)

\* An absence is final: the URL of a captured key has long expired by then.
AbsencesInv ==
  /\ \A p \in Purges, o \in Objects : object[p][o] = "ABSENT" => storage[o] # "stored"
  /\ \A p \in Purges : purge[p].status = "COMPLETED" => ObjectsAreAbsent(p)

LeftInv == PurgeInv /\ AbsencesInv

LEMMA InitLeft == Init => LeftInv
<1> SUFFICES ASSUME Init PROVE AbsencesInv
  BY InitPurgeInv DEF LeftInv
<1>1. \A p \in Purges : /\ \A o \in Objects : object[p][o] = "NONE"
                         /\ purge[p].status = "NONE"
  BY DEF Init
<1>2. \A p \in Purges, o \in Objects : object[p][o] = "NONE"
  BY <1>1
<1>3. \A p \in Purges : ObjectsAreAbsent(p)
  BY <1>2 DEF ObjectsAreAbsent
<1> QED
  BY <1>2, <1>3 DEF AbsencesInv

\* A confirmed absence and a completion stay what they are.
LEMMA LeftInductive == LeftInv /\ [Next]_vars => LeftInv'
<1> SUFFICES ASSUME LeftInv, [Next]_vars PROVE LeftInv'
  OBVIOUS
<1>0. PurgeInv /\ AbsencesInv /\ AttemptsInv
  BY DEF LeftInv, PurgeInv
<1>1. PurgeInv'
  BY <1>0, PurgeInductive
<1>2. ASSUME NEW p \in Purges, NEW o \in Objects, object'[p][o] = "ABSENT"
      PROVE  storage'[o] # "stored"
  <2>1. PurgeStep(p) /\ StorageStep(o)
    BY <1>0, PurgeSteps, StorageSteps
  <2>2. CASE object[p][o] = "ABSENT"
    <3>1. storage[o] # "stored"
      BY <1>0, <2>2 DEF AbsencesInv
    <3>2. purge[p].elapsed
      BY <1>0, <2>2 DEF AttemptsInv, Attempted
    <3> QED
      BY <2>1, <2>2, <3>1, <3>2 DEF StorageStep, UploadTake
  <2>3. CASE object[p][o] # "ABSENT"
    BY <1>2, <2>1, <2>3 DEF PurgeStep
  <2> QED
    BY <2>2, <2>3
<1>3. ASSUME NEW p \in Purges, purge'[p].status = "COMPLETED"
      PROVE  ObjectsAreAbsent(p)'
  <2>1. PurgeStep(p)
    BY <1>0, PurgeSteps
  <2>2. object'[p] = object[p] /\ ObjectsAreAbsent(p)
    BY <1>0, <1>3, <2>1 DEF PurgeStep, AbsencesInv
  <2> QED
    BY <2>2 DEF ObjectsAreAbsent
<1>4. AbsencesInv'
  BY <1>2, <1>3 DEF AbsencesInv
<1> QED
  BY <1>1, <1>4 DEF LeftInv

\* What a completed purge captured is gone from the bucket: no upload can bring
\* back what a HEAD has found absent.
THEOREM NothingIsLeft == Spec => []NothingCapturedIsLeft
<1>1. LeftInv => NothingCapturedIsLeft
  BY DEF LeftInv, AbsencesInv, ObjectsAreAbsent, NothingCapturedIsLeft
<1> QED
  BY <1>1, InitLeft, LeftInductive, PTL DEF Spec

\* The retention status protects both ways: a purge starts without a Payment, and
\* afterwards no Payment is opened or settled.  The completion drops the row.
LEMMA SparesInductive ==
  PurgeInv /\ PurgeSparesPayment /\ [Next]_vars => PurgeSparesPayment'
<1> SUFFICES ASSUME PurgeInv, PurgeSparesPayment, [Next]_vars,
                    NEW s \in Submissions, retention'[s] # "RETAINED"
             PROVE  ~HasPayment(s)'
  BY DEF PurgeSparesPayment
<1>0. /\ TypeOK
      /\ attempt \in [Submissions -> AttemptStatus]
      /\ retention \in [Submissions -> {"RETAINED", "QUARANTINED", "PURGED"}]
      /\ retention[s] # "RETAINED" => ~HasPayment(s)
  BY DEF PurgeInv, TypeOK, PurgeSparesPayment
<1>k. ASSUME retention'[s] = retention[s], attempt'[s] = attempt[s]
      PROVE  ~HasPayment(s)'
  BY <1>0, <1>k DEF HasPayment
<1>1. ASSUME NEW t \in Submissions, CreateIpaymuCheckout(t) \/ AttemptFails(t) \/ NotifySuccess(t)
      PROVE  ~HasPayment(s)'
  <2>1. /\ retention[t] = "RETAINED" /\ retention' = retention
        /\ \E st : attempt' = [attempt EXCEPT ![t] = st]
    BY <1>1 DEF CreateIpaymuCheckout, AttemptFails, NotifySuccess, rowVars
  <2>2. s # t
    BY <2>1
  <2>3. attempt'[s] = attempt[s]
    BY <1>0, <2>1, <2>2
  <2> QED
    BY <1>k, <2>1, <2>3
<1>2. ASSUME NEW p \in Purges, NEW u \in Admins, ApproveSubmissionPurge(p, u)
      PROVE  ~HasPayment(s)'
  <2>1. /\ IsPurgeable(purge[p].target) /\ attempt' = attempt
        /\ retention' = [retention EXCEPT ![purge[p].target] = "QUARANTINED"]
    BY <1>2 DEF ApproveSubmissionPurge, lifeVars
  <2>2. CASE s = purge[p].target
    BY <2>1, <2>2 DEF IsPurgeable, HasPayment
  <2>3. CASE s # purge[p].target
    BY <1>0, <1>k, <2>1, <2>3
  <2> QED
    BY <2>2, <2>3
<1>3. ASSUME NEW p \in Purges, CancelSubmissionPurge(p)
      PROVE  ~HasPayment(s)'
  <2>1. /\ attempt' = attempt
        /\ retention' = [retention EXCEPT ![purge[p].target] = "RETAINED"]
    BY <1>3 DEF CancelSubmissionPurge, lifeVars
  <2>2. s # purge[p].target
    BY <1>0, <2>1
  <2> QED
    BY <1>0, <1>k, <2>1, <2>2
<1>4. ASSUME NEW w \in Workers, CompletePurge(w)
      PROVE  ~HasPayment(s)'
  <2>1. /\ retention' = [retention EXCEPT ![purge[worker[w].purge].target] = "PURGED"]
        /\ attempt' = [attempt EXCEPT ![purge[worker[w].purge].target] = "NONE"]
    BY <1>4 DEF CompletePurge
  <2>2. CASE s = purge[worker[w].purge].target
    BY <1>0, <2>1, <2>2 DEF HasPayment
  <2>3. CASE s # purge[worker[w].purge].target
    BY <1>0, <1>k, <2>1, <2>3
  <2> QED
    BY <2>2, <2>3
<1>5. ASSUME \/ \E t \in Submissions, o \in Objects, old \in Objects \cup {None} :
                  CreatePresignedUpload(t, o, old)
             \/ \E o \in Objects : UploadTake(o) \/ StorageDeletes(o)
             \/ \E t \in Submissions :
                  \/ RaiseFlag(t) \/ ProviderCollects(t)
                  \/ \E to \in {"ABANDONED", "AWAITING_PAYMENT", "LATER"} : StatusMoves(t, to)
             \/ HoldNext
             \/ \E p \in Purges :
                  \/ \E t \in Submissions, u \in Admins : RequestSubmissionPurge(p, t, u)
                  \/ QuarantineElapses(p)
      PROVE  ~HasPayment(s)'
  <2>1. UNCHANGED <<retention, attempt>>
    BY <1>5 DEF CreatePresignedUpload, UploadTake, StorageDeletes, RaiseFlag, ProviderCollects,
                StatusMoves, HoldNext, CreateRetentionHold, ReleaseRetentionHold,
                RequestSubmissionPurge, QuarantineElapses, rowVars, lifeVars
  <2> QED
    BY <1>k, <2>1
<1>6. ASSUME NEW w \in Workers,
             \/ \E p \in Purges : BeginFinalize(w, p)
             \/ WorkerStep(w) /\ ~CompletePurge(w)
             \/ TransactionExpires(w) \/ Crash(w)
      PROVE  ~HasPayment(s)'
  <2>1. UNCHANGED <<retention, attempt>>
    BY <1>6 DEF BeginFinalize, WorkerStep, PreparePurgeObject, SkipPurgeObject, LockForDelete,
                RefuseDelete, SendDelete, ConfirmDelete, FailDelete, FindExpired, NoteFailure,
                EndWithFailures, CannotComplete, TransactionExpires, Crash, lifeVars, rowVars
  <2> QED
    BY <1>k, <2>1
<1>7. ASSUME UNCHANGED vars PROVE ~HasPayment(s)'
  BY <1>k, <1>7 DEF vars
<1> QED
  BY <1>1, <1>2, <1>3, <1>4, <1>5, <1>6, <1>7 DEF Next, LifeNext, RequestNext, FinalizeNext

\* No money is booked on what is being purged, and nothing is purged that waits
\* for money, although payment and purge know of each other by one status only.
THEOREM PurgesSparePayments == Spec => []PurgeSparesPayment
<1>1. Init => PurgeSparesPayment
  BY DEF Init, PurgeSparesPayment
<1> QED
  BY <1>1, PurgeInvariant, SparesInductive, PTL DEF Spec

-----------------------------------------------------------------------------
(* What a step may not do. *)

\* A slower finalization does not reopen a purge that ended.
THEOREM EndedPurgesStay == Spec => EndedStays
<1>1. ASSUME PurgeInv, [Next]_vars
      PROVE  [\A p \in Purges : HasEnded(p) => purge'[p].status = purge[p].status]_vars
  <2> SUFFICES ASSUME NEW p \in Purges, HasEnded(p)
               PROVE  purge'[p].status = purge[p].status
    OBVIOUS
  <2>1. PurgeStep(p)
    BY <1>1, PurgeSteps
  <2> QED
    BY <2>1 DEF PurgeStep, HasEnded
<1> QED
  BY <1>1, PurgeInvariant, PTL DEF Spec, EndedStays

\* Only the hold actions write holds.
LEMMA HoldsAreKept ==
  [Next]_vars => HoldNext \/ UNCHANGED hold
<1> SUFFICES ASSUME [Next]_vars PROVE HoldNext \/ UNCHANGED hold
  OBVIOUS
<1>1. LifeNext => UNCHANGED hold
  BY DEF LifeNext, CreatePresignedUpload, UploadTake, RaiseFlag, StatusMoves,
         CreateIpaymuCheckout, AttemptFails, ProviderCollects, NotifySuccess
<1>2. RequestNext => UNCHANGED hold
  BY DEF RequestNext, RequestSubmissionPurge, ApproveSubmissionPurge, QuarantineElapses,
         CancelSubmissionPurge
<1>3. ASSUME FinalizeNext PROVE UNCHANGED hold
  <2>1. ASSUME NEW w \in Workers, WorkerStep(w) PROVE UNCHANGED hold
    BY <2>1 DEF WorkerStep, PreparePurgeObject, SkipPurgeObject, LockForDelete, RefuseDelete,
                SendDelete, ConfirmDelete, FailDelete, FindExpired, NoteFailure,
                EndWithFailures, CompletePurge, CannotComplete
  <2>2. ASSUME NEW w \in Workers,
               \/ \E p \in Purges : BeginFinalize(w, p)
               \/ TransactionExpires(w) \/ Crash(w)
        PROVE  UNCHANGED hold
    BY <2>2 DEF BeginFinalize, TransactionExpires, Crash
  <2>3. ASSUME NEW o \in Objects, StorageDeletes(o) PROVE UNCHANGED hold
    BY <2>3 DEF StorageDeletes
  <2> QED
    BY <1>3, <2>1, <2>2, <2>3 DEF FinalizeNext
<1> QED
  BY <1>1, <1>2, <1>3 DEF Next, vars

\* A finalization opens its deleting transaction by LockForDelete alone, and works
\* on the same request as long as it lasts.
LEMMA HeldSteps ==
  ASSUME PurgeInv, [Next]_vars, NEW w \in Workers, worker'[w].held
  PROVE  \/ LockForDelete(w)
         \/ worker[w].held /\ worker'[w].purge = worker[w].purge
<1>0. worker \in [Workers -> WorkerRow] /\ worker[w] \in WorkerRow
  BY DEF PurgeInv, TypeOK
<1> DEFINE Kept == worker[w].held /\ worker'[w].purge = worker[w].purge
<1>k. ASSUME worker'[w] = worker[w] PROVE Kept
  BY <1>k
<1>1. ASSUME NEW v \in Workers, v # w,
             \/ \E p \in Purges : BeginFinalize(v, p)
             \/ WorkerStep(v) \/ TransactionExpires(v) \/ Crash(v)
      PROVE  Kept
  <2>1. \E r : worker' = [worker EXCEPT ![v] = r]
    BY <1>1 DEF BeginFinalize, WorkerStep, PreparePurgeObject, SkipPurgeObject, LockForDelete,
                RefuseDelete, SendDelete, ConfirmDelete, FailDelete, FindExpired, NoteFailure,
                EndWithFailures, CompletePurge, CannotComplete, TransactionExpires, Crash
  <2>2. worker'[w] = worker[w]
    BY <1>0, <1>1, <2>1
  <2> QED
    BY <1>k, <2>2
<1>2. ASSUME \/ \E p \in Purges : BeginFinalize(w, p)
             \/ ConfirmDelete(w) \/ FailDelete(w) \/ EndWithFailures(w)
             \/ CompletePurge(w) \/ TransactionExpires(w) \/ Crash(w)
      PROVE  FALSE
  <2>1. \E r : worker' = [worker EXCEPT ![w] = r] /\ ~r.held
    BY <1>0, <1>2 DEF BeginFinalize, ConfirmDelete, FailDelete, EndWithFailures, CompletePurge,
                TransactionExpires, Crash, IdleWorker, WorkerRow
  <2> QED
    BY <1>0, <2>1
<1>3. ASSUME \/ \E o \in Objects : PreparePurgeObject(w, o) \/ SkipPurgeObject(w, o)
             \/ RefuseDelete(w) \/ SendDelete(w) \/ FindExpired(w)
             \/ \E recorded \in BOOLEAN : NoteFailure(w, recorded)
             \/ CannotComplete(w)
      PROVE  Kept
  <2>k. ASSUME NEW r, worker' = [worker EXCEPT ![w] = r],
               r.held => worker[w].held /\ r.purge = worker[w].purge
        PROVE  Kept
    BY <1>0, <2>k
  <2>1. ASSUME NEW o \in Objects, PreparePurgeObject(w, o) \/ SkipPurgeObject(w, o)
        PROVE  Kept
    BY <1>0, <2>1 DEF PreparePurgeObject, SkipPurgeObject, WorkerRow
  <2>2. ASSUME \/ RefuseDelete(w) \/ SendDelete(w) \/ FindExpired(w)
        PROVE  Kept
    BY <1>0, <2>2 DEF RefuseDelete, SendDelete, FindExpired, WorkerRow
  <2>3. PICK r : /\ r = IF worker[w].object = None THEN IdleWorker
                        ELSE [worker[w] EXCEPT !.stage = "working", !.failed = TRUE]
    OBVIOUS
  <2>4. r.held => worker[w].held /\ r.purge = worker[w].purge
    BY <1>0, <2>3 DEF IdleWorker, WorkerRow
  <2>5. ASSUME NEW recorded \in BOOLEAN, NoteFailure(w, recorded)
        PROVE  Kept
    <3>1. worker' = [worker EXCEPT ![w] = r]
      BY <1>0, <2>3, <2>5 DEF NoteFailure
    <3> QED
      BY <2>4, <2>k, <3>1
  <2>6. PICK c : c = IF HasEnded(worker[w].purge) THEN IdleWorker
                     ELSE [worker[w] EXCEPT !.stage = "noting", !.object = None]
    OBVIOUS
  <2>7. c.held => worker[w].held /\ c.purge = worker[w].purge
    BY <1>0, <2>6 DEF IdleWorker, WorkerRow
  <2>8. ASSUME CannotComplete(w)
        PROVE  Kept
    <3>1. worker' = [worker EXCEPT ![w] = c]
      BY <1>0, <2>6, <2>8 DEF CannotComplete
    <3> QED
      BY <2>7, <2>k, <3>1
  <2> QED
    BY <1>3, <2>1, <2>2, <2>5, <2>8
<1>4. ASSUME LifeNext PROVE Kept
  BY <1>4, <1>k DEF LifeNext, CreatePresignedUpload, UploadTake, RaiseFlag, StatusMoves,
                    CreateIpaymuCheckout, AttemptFails, ProviderCollects, NotifySuccess
<1>5. ASSUME \/ HoldNext \/ RequestNext \/ (\E o \in Objects : StorageDeletes(o))
             \/ UNCHANGED vars
      PROVE  Kept
  BY <1>5, <1>k DEF HoldNext, CreateRetentionHold, ReleaseRetentionHold, RequestNext,
                    RequestSubmissionPurge, ApproveSubmissionPurge, QuarantineElapses,
                    CancelSubmissionPurge, StorageDeletes, vars
<1>6. CASE \E v \in Workers :
             \/ \E p \in Purges : BeginFinalize(v, p)
             \/ WorkerStep(v) \/ TransactionExpires(v) \/ Crash(v)
  BY <1>1, <1>2, <1>3, <1>6 DEF WorkerStep
<1> QED
  BY <1>4, <1>5, <1>6 DEF Next, FinalizeNext

\* The locks of the deleting transaction keep holds out, and it was opened without one.
HeldIsFree == \A w \in Workers : worker[w].held => ~HasHold(Target(w))

LEMMA HeldInductive == PurgeInv /\ HeldIsFree /\ [Next]_vars => HeldIsFree'
<1> SUFFICES ASSUME PurgeInv, HeldIsFree, [Next]_vars, NEW w \in Workers, worker'[w].held
             PROVE  ~HasHold(Target(w))'
  BY DEF HeldIsFree
<1>0. TypeOK /\ WorkersInv
  BY DEF PurgeInv
<1>1. CASE LockForDelete(w)
  <2>1. /\ ~HasHold(Target(w)) /\ UNCHANGED <<hold, purge>>
        /\ worker' = [worker EXCEPT ![w].stage = "looking", ![w].held = TRUE]
    BY <1>1 DEF LockForDelete, rowVars
  <2>2. worker'[w].purge = worker[w].purge
    BY <1>0, <2>1 DEF TypeOK, WorkerRow
  <2> QED
    BY <2>1, <2>2 DEF HasHold, Target
<1>2. CASE worker[w].held /\ worker'[w].purge = worker[w].purge
  <2>1. /\ worker[w].purge \in Purges
        /\ purge[worker[w].purge].status \in {"QUARANTINED", "FAILED"}
    BY <1>0, <1>2 DEF WorkersInv, WorkerInv
  <2>2. Target(w)' = Target(w)
    BY <1>2, <2>1, PurgeSteps DEF PurgeStep, Target
  <2>3. ~HasHold(Target(w)) /\ IsLocked(Target(w))
    BY <1>2 DEF HeldIsFree, IsLocked, Target
  <2>4. Target(w) \in Submissions
    BY <1>0, <1>2, WorkerHasPurge DEF WorkersInv, WorkerInv
  <2>5. ASSUME NEW h \in Holds, hold'[h] = Target(w) PROVE FALSE
    <3>1. hold[h] # Target(w)
      BY <2>3 DEF HasHold
    <3>2. ASSUME NEW g \in Holds, NEW s \in Submissions, CreateRetentionHold(g, s)
          PROVE  FALSE
      <4>1. s # Target(w) /\ hold' = [hold EXCEPT ![g] = s]
        BY <2>3, <3>2 DEF CreateRetentionHold
      <4> QED
        BY <1>0, <2>5, <3>1, <4>1 DEF TypeOK
    <3>3. ASSUME NEW g \in Holds, ReleaseRetentionHold(g)
          PROVE  FALSE
      <4>1. hold' = [hold EXCEPT ![g] = None]
        BY <3>3 DEF ReleaseRetentionHold
      <4> QED
        BY <1>0, <2>4, <2>5, <3>1, <4>1, PurgeNoneAssumption DEF TypeOK
    <3>4. UNCHANGED hold
      BY <3>2, <3>3, HoldsAreKept DEF HoldNext
    <3> QED
      BY <2>5, <3>1, <3>4
  <2> QED
    BY <2>2, <2>5 DEF HasHold
<1> QED
  BY <1>1, <1>2, HeldSteps

\* A hold that came after the reservation is seen before anything is deleted, and
\* none comes while the transaction that looked for it lasts.
THEOREM HoldsStopDeletions == Spec => HoldStopsDeletion
<1>1. Init => HeldIsFree
  BY DEF Init, HeldIsFree, IdleWorker
<1>2. Spec => []HeldIsFree
  BY <1>1, PurgeInvariant, HeldInductive, PTL DEF Spec
<1>3. HeldIsFree /\ [Next]_vars =>
        [\A w \in Workers :
           worker[w].held /\ worker[w].stage = "looking" /\ worker'[w].stage = "erasing"
             => ~HasHold(Target(w))]_vars
  BY DEF HeldIsFree
<1> QED
  BY <1>2, <1>3, PTL DEF Spec, HoldStopsDeletion
=============================================================================
