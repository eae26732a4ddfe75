--------------------------- MODULE LifecycleProofs ---------------------------
(***************************************************************************)
(* Payment and scoring, for every value of the constants.                  *)
(*                                                                         *)
(* Payment attempts.  createIpaymuCheckout fails a refused attempt without *)
(* reading its status again.  That never overwrites a settled attempt,     *)
(* because a settled one was collected and a refused one was not:          *)
(* SettledStays follows from PaidMeansCollected.                           *)
(*                                                                         *)
(* Charges.  A Submission is charged on the way through payment routing or *)
(* after it, and an open device flag keeps it from being routed, so one    *)
(* voided for such a flag was never charged.                               *)
(*                                                                         *)
(* Examiners.  An assignment set is made by the claim of a PAID Submission *)
(* and stays with it; whoever moves an assignment does so with both of     *)
(* them, their accounts and the Submission locked.                         *)
(*                                                                         *)
(* The promise.  Each step of the lifecycle is, for each Submission, a step *)
(* of SubmissionPromise or none.                                           *)
(***************************************************************************)
EXTENDS FlagProofs

PaymentInv == TypeInv /\ PaidMeansCollected

\* A step that settles only collected attempts and forgets no collection.
LEMMA CollectedStays ==
  ASSUME PaymentInv,
         \A p \in Payments : payment'[p].status = "PAID" =>
           payment[p].status = "PAID" \/ provider[p] = "collected",
         \A p \in Payments : provider[p] = "collected" => provider'[p] = "collected"
  PROVE  PaidMeansCollected'
  BY DEF PaymentInv, PaidMeansCollected

LEMMA PaymentsCollected == PaymentInv /\ PaymentsNext => PaidMeansCollected'
<1> SUFFICES ASSUME PaymentInv, PaymentsNext PROVE PaidMeansCollected'
  OBVIOUS
<1> USE DEF payVars, payFrame
<1>0. payment \in [Payments -> PaymentRow] /\ provider \in [Payments -> ProviderState]
  BY DEF PaymentInv, TypeInv, TypeOK
<1>1. ASSUME NEW p \in Payments, NEW s \in Submissions, CreateIpaymuCheckout(p, s)
      PROVE  PaidMeansCollected'
  BY <1>0, <1>1, CollectedStays DEF CreateIpaymuCheckout
<1>2. ASSUME NEW p \in Payments, CheckoutReturns(p)
      PROVE  PaidMeansCollected'
  BY <1>0, <1>2, CollectedStays DEF CheckoutReturns, PaymentRow
<1>3. ASSUME NEW p \in Payments, CheckoutRejected(p)
      PROVE  PaidMeansCollected'
  BY <1>0, <1>3, CollectedStays DEF CheckoutRejected, PaymentRow
<1>4. ASSUME NEW p \in Payments, NotifyFailed(p)
      PROVE  PaidMeansCollected'
  BY <1>0, <1>4, CollectedStays DEF NotifyFailed, PaymentRow
<1>5. ASSUME NEW p \in Payments, NotifySuccess(p)
      PROVE  PaidMeansCollected'
  BY <1>0, <1>5, CollectedStays DEF NotifySuccess, IsVerified, PaymentRow
<1>6. ASSUME NEW p \in Payments, NEW answer \in {"open", "rejected"}, ProviderAnswers(p, answer)
      PROVE  PaidMeansCollected'
  BY <1>0, <1>6, CollectedStays DEF ProviderAnswers
<1>7. ASSUME NEW p \in Payments, ProviderCollects(p)
      PROVE  PaidMeansCollected'
  BY <1>0, <1>7, CollectedStays DEF ProviderCollects
<1>8. CASE UNCHANGED <<payment, provider>>
  BY <1>8, CollectedStays
<1> QED
  BY <1>1, <1>2, <1>3, <1>4, <1>5, <1>6, <1>7, <1>8
     DEF PaymentsNext, BeginWaiveSubmissionPayment, CommitWaiveSubmissionPayment,
         UpdatePaymentEnabled

\* Nothing but the payment component touches a payment.
LEMMA PaymentsOnly ==
  ASSUME [Next]_vars
  PROVE  PaymentsNext \/ UNCHANGED <<payment, provider, waived>>
<1> USE DEF accountVars, flagVars, payVars
<1>1. RecordingNext => UNCHANGED <<payment, provider, waived>>
  BY DEF RecordingNext, StartAssessment, ConfirmLastUpload, ClosePage, GraceElapses,
         RecordSubmissionHeartbeat, AbandonSubmission, AbandonStaleSubmissions,
         BeginCompleteSubmission, CommitCompleteSubmission
<1>2. FlagReviewNext => UNCHANGED <<payment, provider, waived>>
  BY DEF FlagReviewNext, RaiseDeviceFlag, RaiseIntegrityConcern, BeginConfirmFlag,
         CommitConfirmFlag, BeginDismissFlag, CheckDismissingAdmin, CommitDismissFlag
<1>3. ExaminingNext => UNCHANGED <<payment, provider, waived>>
  BY DEF ExaminingNext, CreateExaminerAssignmentSet, StartExaminerAssignment,
         SaveExaminerScore, CompleteExaminerScoring, ReassignExaminerAssignment, examFrame
<1>4. AccountsNext => UNCHANGED <<payment, provider, waived>>
  BY DEF AccountsNext, TransitionAccountRole, DeactivateAccount, Transition, accountFrame
<1>5. (\E r \in Requests : RequestEnds(r)) => UNCHANGED <<payment, provider, waived>>
  BY DEF RequestEnds
<1>6. UNCHANGED vars => UNCHANGED <<payment, provider, waived>>
  BY DEF vars
<1> QED
  BY <1>1, <1>2, <1>3, <1>4, <1>5, <1>6 DEF Next

LEMMA PaymentInductive ==
  /\ Init => PaymentInv
  /\ PaymentInv /\ [Next]_vars => PaymentInv'
<1>1. Init => PaidMeansCollected
  BY DEF Init, PaidMeansCollected
<1>2. PaymentInv /\ UNCHANGED <<payment, provider>> => PaidMeansCollected'
  BY CollectedStays
<1> QED
  BY <1>1, <1>2, InitTyped, NextTyped, PaymentsOnly, PaymentsCollected DEF PaymentInv

\* A Payment is PAID only when the provider collected the money.
THEOREM PaidIsCollected == Spec => []PaidMeansCollected
<1>1. PaymentInv => PaidMeansCollected
  BY DEF PaymentInv
<1> QED
  BY <1>1, PaymentInductive, PTL DEF Spec

\* A settled attempt stays as it is.
LEMMA SettledRow ==
  ASSUME PaymentInv, [Next]_vars, NEW q \in Payments, payment[q].status = "PAID"
  PROVE  payment'[q].status = "PAID" /\ payment'[q].submission = payment[q].submission
<1> USE DEF payFrame, payVars
<1> DEFINE Stays == /\ payment'[q].status = "PAID"
                    /\ payment'[q].submission = payment[q].submission
<1>0. payment \in [Payments -> PaymentRow]
  BY DEF PaymentInv, TypeInv, TypeOK
<1>1. ASSUME NEW p \in Payments, CheckoutRejected(p)
      PROVE  Stays
  <2>1. payment[p].status # "PAID"
    BY <1>1 DEF CheckoutRejected, PaymentInv, PaidMeansCollected
  <2> QED
    BY <1>0, <1>1, <2>1 DEF CheckoutRejected, PaymentRow
<1>2. ASSUME NEW p \in Payments, CheckoutReturns(p) \/ NotifyFailed(p) \/ NotifySuccess(p)
      PROVE  Stays
  BY <1>0, <1>2 DEF CheckoutReturns, NotifyFailed, NotifySuccess, PaymentRow
<1>3. ASSUME UNCHANGED payment
      PROVE  Stays
  BY <1>3
<1>4. ASSUME NEW p \in Payments, NEW s \in Submissions, CreateIpaymuCheckout(p, s)
      PROVE  Stays
  BY <1>0, <1>4 DEF CreateIpaymuCheckout
<1> HIDE DEF Stays
<1>5. PaymentsNext => Stays
  BY <1>1, <1>2, <1>3, <1>4
     DEF PaymentsNext, ProviderAnswers, ProviderCollects, BeginWaiveSubmissionPayment,
         CommitWaiveSubmissionPayment, UpdatePaymentEnabled
<1> QED
  BY <1>3, <1>5, PaymentsOnly DEF Stays

\* No failure, refusal or later step undoes a settled attempt.
THEOREM SettledIsFinal == Spec => SettledStays
<1>1. ASSUME PaymentInv, [Next]_vars
      PROVE  [\A p \in Payments : payment[p].status = "PAID" => payment'[p].status = "PAID"]_vars
  BY <1>1, SettledRow
<1> QED
  BY <1>1, PaymentInductive, PTL DEF Spec, SettledStays

-----------------------------------------------------------------------------
(* What was charged, and what was not. *)

\* ServedIsSettled says this of each Submission.
Settled(s) == ~submission[s].paymentRequired \/ PaidAttempts(s) # {}

Served(s) == IsRouted(s) /\ submission[s].status # "AWAITING_PAYMENT"

LEMMA ServedStaysSettled ==
  ASSUME PaymentInv, ServedIsSettled, [Next]_vars
  PROVE  ServedIsSettled'
<1>1. SUFFICES ASSUME NEW s \in Submissions, Served(s)'
               PROVE  Settled(s)'
  BY DEF ServedIsSettled, Served, Settled
<1>2. PaidAttempts(s) # {} => PaidAttempts(s)' # {}
  BY SettledRow DEF PaidAttempts
<1>3. Served(s) => Settled(s)
  BY DEF ServedIsSettled, Served, Settled
<1>4. CASE Served(s) /\ submission'[s].paymentRequired = submission[s].paymentRequired
  BY <1>2, <1>3, <1>4 DEF Settled
<1>5. CASE ~submission'[s].paymentRequired
  BY <1>5 DEF Settled
<1>6. CASE \E p \in Payments : payment'[p].submission = s /\ payment'[p].status = "PAID"
  BY <1>6 DEF Settled, PaidAttempts
<1>7. CASE RowStep(s)
  <2>1. CASE submission'[s] = submission[s]
    BY <1>1, <1>4, <2>1 DEF Served, IsRouted
  <2>2. CASE RowMoved(s)
    BY <1>1, <1>4, <2>2, NoneAssumption DEF RowMoved, InReviewOfScoring, Served, IsRouted
  <2>3. CASE RowRouted(s)
    BY <1>1, <1>5, <2>3 DEF RowRouted, Served
  <2>4. CASE RowSettled(s)
    BY <1>5, <1>6, <2>4 DEF RowSettled
  <2> QED
    BY <1>1, <1>7, <2>1, <2>2, <2>3, <2>4 DEF RowStep, Served, IsRouted
<1>8. CASE RowVoided(s)
  BY <1>1, <1>8 DEF RowVoided, Served, IsRouted
<1>9. CASE RowExamined(s)
  BY <1>4, <1>9 DEF RowExamined, Served, IsRouted
<1> QED
  BY <1>7, <1>8, <1>9, RowSteps DEF PaymentInv

\* Nobody's Submission is scored unpaid, whatever callbacks, waivers, dismissals
\* and settings cross on the way.
THEOREM ServedWasSettled == Spec => []ServedIsSettled
<1>1. Init => ServedIsSettled
  BY DEF Init, ServedIsSettled, IsRouted
<1>2. PaymentInv /\ ServedIsSettled /\ [Next]_vars => ServedIsSettled'
  BY ServedStaysSettled
<1> QED
  BY <1>1, <1>2, PaymentInductive, PTL DEF Spec

\* No attempt, no waiver and no redeemed credit.
Uncharged(s) ==
  /\ \A p \in Payments : payment[p].submission # s
  /\ s \notin waived
  /\ \A c \in credits : c.redeemedBy # s

\* Nothing is charged before routing.
UnroutedIsUncharged == \A s \in Submissions : NeverRouted(s) => Uncharged(s)

\* An open device flag is on a Submission that was never routed.
DeviceFlagComesFirst ==
  \A f \in Flags :
    flag[f].source = "STUDENT_DEVICE" /\ flag[f].resolution = "OPEN" =>
      NeverRouted(flag[f].submission)

ChargeInv ==
  /\ CreditInv
  /\ UnroutedIsUncharged
  /\ DeviceFlagComesFirst
  /\ DeviceVoidIsNeverCharged

\* A checkout and a waiver ask that the Submission waits for payment, a
\* redemption makes it PAID: any other step charges nothing.
LEMMA UnchargedStays ==
  ASSUME TypeInv, [Next]_vars, NEW s \in Submissions, Uncharged(s),
         submission[s].status # "AWAITING_PAYMENT",
         submission'[s].status # "PAID" \/ submission[s].status = "PAID"
  PROVE  Uncharged(s)'
<1> USE DEF payFrame, payVars
<1>0. /\ payment \in [Payments -> PaymentRow]
      /\ TypeOK
      /\ None \notin Submissions
  BY NoneAssumption DEF TypeInv, TypeOK
<1>1. \A c \in credits' : c.redeemedBy # s
  <2>1. CASE UNCHANGED credits
    BY <2>1 DEF Uncharged
  <2>2. ASSUME NEW r \in Requests, CommitConfirmFlag(r)
        PROVE  \A c \in credits' : c.redeemedBy # s
    <3> DEFINE v == flag[request[r].target].submission
               row == [student |-> submission[v].owner, voided |-> v, redeemedBy |-> None]
    <3>1. credits' = credits \cup {row} /\ row.redeemedBy = None
      BY <2>2 DEF CommitConfirmFlag
    <3> HIDE DEF row
    <3> QED
      BY <1>0, <3>1 DEF Uncharged
  <2>3. ASSUME NEW t \in Submissions, NEW c \in credits, Redeems(c, t)
        PROVE  \A d \in credits' : d.redeemedBy # s
    <3>1. t # s
      BY <2>3 DEF Redeems, AwaitsRouting
    <3>2. PICK d : d = [c EXCEPT !.redeemedBy = t]
      OBVIOUS
    <3>3. d.redeemedBy = t /\ credits' = (credits \ {c}) \cup {d}
      BY <1>0, <2>3, <3>2, RedeemedRow DEF Redeems, TypeOK
    <3> QED
      BY <3>1, <3>3 DEF Uncharged
  <2> QED
    BY <2>1, <2>2, <2>3, CreditSteps
<1>2. PaymentsNext => /\ \A p \in Payments : payment'[p].submission # s
                      /\ s \notin waived'
  <2> DEFINE Free == /\ \A p \in Payments : payment'[p].submission # s
                     /\ s \notin waived'
  <2>1. ASSUME NEW p \in Payments, NEW t \in Submissions, CreateIpaymuCheckout(p, t)
        PROVE  Free
    BY <1>0, <2>1 DEF CreateIpaymuCheckout, Uncharged
  <2>2. ASSUME NEW p \in Payments, CheckoutReturns(p) \/ CheckoutRejected(p)
        PROVE  Free
    BY <1>0, <2>2 DEF CheckoutReturns, CheckoutRejected, Uncharged, PaymentRow
  <2>3. ASSUME NEW p \in Payments, NotifyFailed(p) \/ NotifySuccess(p)
        PROVE  Free
    BY <1>0, <2>3 DEF NotifyFailed, NotifySuccess, Uncharged, PaymentRow
  <2>4. ASSUME NEW r \in Requests, CommitWaiveSubmissionPayment(r)
        PROVE  Free
    BY <2>4 DEF CommitWaiveSubmissionPayment, Uncharged
  <2>5. UNCHANGED <<payment, waived>> => Free
    BY DEF Uncharged
  <2> HIDE DEF Free
  <2>6. PaymentsNext => Free
    BY <2>1, <2>2, <2>3, <2>4, <2>5
       DEF PaymentsNext, ProviderAnswers, ProviderCollects, BeginWaiveSubmissionPayment,
           UpdatePaymentEnabled
  <2> QED
    BY <2>6 DEF Free
<1>3. PaymentsNext \/ UNCHANGED <<payment, waived>>
  BY PaymentsOnly
<1> QED
  BY <1>1, <1>2, <1>3 DEF Uncharged

\* No step brings a Submission back before its routing.
LEMMA NeverRoutedBefore ==
  ASSUME TypeInv, [Next]_vars, NEW s \in Submissions, NeverRouted(s)'
  PROVE  /\ NeverRouted(s)
         /\ submission[s].status \notin {"AWAITING_PAYMENT", "PAID"}
         /\ submission'[s].status # "PAID"
<1>1. RowStep(s)
  BY RowSteps DEF RowVoided, RowExamined, NeverRouted
<1> QED
  BY <1>1, NoneAssumption
     DEF RowStep, RowMoved, RowRouted, RowSettled, AwaitsRouting, InReviewOfScoring, NeverRouted

LEMMA ChargeInductive == ChargeInv /\ [Next]_vars => ChargeInv'
<1> SUFFICES ASSUME ChargeInv, [Next]_vars PROVE ChargeInv'
  OBVIOUS
<1>0. /\ CreditInv
      /\ CreditInv'
      /\ FlagInv'
      /\ TypeInv
      /\ TypeInv'
      /\ flag \in [Flags -> FlagRow]
  BY CreditInductive DEF ChargeInv, CreditInv, FlagInv, TypeInv, TypeOK
<1>1. UnroutedIsUncharged'
  <2> SUFFICES ASSUME NEW s \in Submissions, NeverRouted(s)'
               PROVE  Uncharged(s)'
    BY DEF UnroutedIsUncharged
  <2>1. /\ NeverRouted(s)
        /\ submission[s].status \notin {"AWAITING_PAYMENT", "PAID"}
        /\ submission'[s].status # "PAID"
    BY <1>0, NeverRoutedBefore
  <2>2. Uncharged(s)
    BY <2>1 DEF ChargeInv, UnroutedIsUncharged
  <2> QED
    BY <1>0, <2>1, <2>2, UnchargedStays
<1>2. DeviceFlagComesFirst'
  <2> SUFFICES ASSUME NEW f \in Flags,
                      flag'[f].source = "STUDENT_DEVICE", flag'[f].resolution = "OPEN"
               PROVE  NeverRouted(flag[f].submission)'
    BY DEF DeviceFlagComesFirst
  <2>1. FlagStep(f)
    BY <1>0, FlagSteps
  <2>2. CASE flag'[f] = flag[f]
    <3>1. PICK s \in Submissions : s = flag[f].submission
      BY <1>0, <2>2 DEF TypeInv, Linked
    <3>2. NeverRouted(s)
      BY <2>2, <3>1 DEF ChargeInv, DeviceFlagComesFirst
    <3>3. submission'[s].status \in {"IN_PROGRESS", "ABANDONED", "FLAG_REVIEW"}
      <4>1. f \in OpenFlags(s)'
        BY <2>2, <3>1 DEF OpenFlags
      <4> QED
        BY <1>0, <4>1 DEF FlagInv, OpenFlagStopsTheFlow
    <3>4. RowStep(s)
      BY <1>0, <3>3, RowSteps DEF RowVoided, RowExamined
    <3>5. NeverRouted(s)'
      BY <3>2, <3>3, <3>4, NoneAssumption
         DEF RowStep, RowMoved, RowRouted, RowSettled, InReviewOfScoring, NeverRouted
    <3> QED
      BY <2>2, <3>1, <3>5 DEF NeverRouted
  <2>3. CASE flag'[f].submission \in Submissions
             /\ submission'[flag'[f].submission].status = "IN_PROGRESS"
    BY <2>3 DEF NeverRouted
  <2> QED
    BY <2>1, <2>2, <2>3 DEF FlagStep
<1>3. DeviceVoidIsNeverCharged'
  <2> SUFFICES ASSUME NEW f \in Flags,
                      flag'[f].source = "STUDENT_DEVICE", flag'[f].resolution = "CONFIRMED"
               PROVE  Uncharged(flag[f].submission)'
    BY DEF DeviceVoidIsNeverCharged, Uncharged
  <2>1. /\ flag'[f].submission = flag[f].submission
        /\ flag[f].source = "STUDENT_DEVICE"
        /\ flag[f].resolution \in {"OPEN", "CONFIRMED"}
    BY <1>0, FlagSteps DEF FlagStep
  <2>2. PICK s \in Submissions : s = flag[f].submission
    BY <1>0, <2>1 DEF TypeInv, Linked
  <2>3. submission'[s].status = "VOIDED"
    <3>1. f \in Confirmed(s)'
      BY <2>1, <2>2 DEF Confirmed
    <3> QED
      BY <1>0, <3>1, VoidedEachOnceNext DEF CreditInv, VoidedOnce
  <2>4. Uncharged(s) /\ submission[s].status # "AWAITING_PAYMENT"
    <3>1. CASE flag[f].resolution = "OPEN"
      BY <2>1, <2>2, <3>1
         DEF ChargeInv, DeviceFlagComesFirst, UnroutedIsUncharged, NeverRouted
    <3>2. CASE flag[f].resolution = "CONFIRMED"
      <4>1. f \in Confirmed(s)
        BY <2>2, <3>2 DEF Confirmed
      <4>2. submission[s].status = "VOIDED"
        BY <1>0, <4>1, VoidedEachOnce DEF CreditInv, VoidedOnce
      <4> QED
        BY <2>1, <2>2, <3>2, <4>2 DEF ChargeInv, DeviceVoidIsNeverCharged, Uncharged
    <3> QED
      BY <2>1, <3>1, <3>2
  <2>5. Uncharged(s)'
    BY <1>0, <2>3, <2>4, UnchargedStays
  <2> QED
    BY <2>1, <2>2, <2>5 DEF Uncharged
<1> QED
  BY <1>0, <1>1, <1>2, <1>3 DEF ChargeInv

\* A Submission voided for a flag raised during the test was never charged.
THEOREM DeviceVoidsAreFree == Spec => []DeviceVoidIsNeverCharged
<1>1. Init => ChargeInv
  <2>1. Init => UnroutedIsUncharged
    BY NoneAssumption DEF Init, UnroutedIsUncharged, Uncharged
  <2>2. Init => DeviceFlagComesFirst /\ DeviceVoidIsNeverCharged
    BY DEF Init, DeviceFlagComesFirst, DeviceVoidIsNeverCharged
  <2> QED
    BY <2>1, <2>2, CreditInductive DEF ChargeInv
<1>2. ChargeInv => DeviceVoidIsNeverCharged
  BY DEF ChargeInv
<1> QED
  BY <1>1, <1>2, ChargeInductive, PTL DEF Spec

-----------------------------------------------------------------------------
(* Examiners.  The four parts of the invariant speak of one assignment, its *)
(* peer, their Submission and the account of its Examiner.                  *)

\* Its Examiner is neither the student nor the peer's, and is there exactly
\* from the claim on.
IsIndependent(a) ==
  LET e == assignment[a].examiner
      s == a[1]
  IN
  /\ e = None <=> assignment[a].status = "NONE"
  /\ e # None => e # assignment[Peer(a)].examiner
  /\ e # None => e # submission[s].owner
  /\ IsExamined(s) => e # None
  /\ e # None => IsExamined(s) \/ submission[s].status = "VOIDED"

\* Open work has an account that can do it.
IsCapable(a) ==
  IsOpenWork(a) /\ submission[a[1]].status # "VOIDED" =>
    LET u == assignment[a].examiner IN
    u # None /\ active[u] /\ role[u] \in {"EXAMINER", "ADMIN"}

\* The Submission is SCORED exactly when both have completed.
IsCounted(a) ==
  /\ IsExamined(a[1]) =>
       (submission[a[1]].status = "SCORED" <=>
          /\ assignment[a].status = "COMPLETED"
          /\ assignment[Peer(a)].status = "COMPLETED")
  /\ assignment[a].status = "COMPLETED" => assignment[a].score # None

\* An id no row uses carries no Score.
IsBlank(a) == assignment[a].status = "NONE" => assignment[a].score = None

IsSound(a) == IsIndependent(a) /\ IsCapable(a) /\ IsCounted(a) /\ IsBlank(a)

WorkInv == TypeInv /\ \A a \in Assignments : IsSound(a)

\* The two assignments of a Submission.
LEMMA Peers ==
  ASSUME NEW a \in Assignments
  PROVE  /\ a[1] \in Submissions
         /\ a[2] \in Slots
         /\ a = <<a[1], a[2]>>
         /\ Peer(a) \in Assignments
         /\ Peer(a)[1] = a[1]
         /\ a[2] = 1 <=> Peer(a)[2] # 1
         /\ Peer(a) # a
         /\ Peer(Peer(a)) = a
         /\ \A b \in Assignments : b[1] = a[1] => b = a \/ b = Peer(a)
<1>1. PICK s \in Submissions, k \in {1, 2} : a = <<s, k>>
  BY DEF Assignments, Slots
<1>2. Peer(a) = <<s, 3 - k>> /\ 3 - k \in {1, 2} /\ 3 - (3 - k) = k /\ 3 - k # k
  BY <1>1 DEF Peer
<1>3. Peer(a) \in Assignments /\ Peer(a)[1] = s /\ Peer(a)[2] = 3 - k
  BY <1>2 DEF Assignments, Slots
<1>4. Peer(Peer(a)) = <<s, k>>
  BY <1>2, <1>3 DEF Peer
<1>5. ASSUME NEW b \in Assignments, b[1] = a[1]
      PROVE  b = a \/ b = Peer(a)
  <2>1. PICK t \in Submissions, j \in {1, 2} : b = <<t, j>>
    BY DEF Assignments, Slots
  <2>2. t = s /\ (j = k \/ j = 3 - k)
    BY <1>1, <1>5, <2>1
  <2> QED
    BY <1>1, <1>2, <2>1, <2>2
<1> QED
  BY <1>1, <1>2, <1>3, <1>4, <1>5 DEF Slots

\* The invariant says of each assignment what the three properties say.
LEMMA WorkIsIndependent ==
  ASSUME \A a \in Assignments : IsIndependent(a)
  PROVE  ExaminersAreIndependent
<1> SUFFICES ASSUME NEW s \in Submissions
             PROVE  LET e == [k \in Slots |-> assignment[<<s, k>>].examiner] IN
                    /\ e[1] # None => e[1] # e[2]
                    /\ \A k \in Slots :
                         /\ e[k] = None <=> assignment[<<s, k>>].status = "NONE"
                         /\ e[k] # None => e[k] # submission[s].owner
                         /\ IsExamined(s) => e[k] # None
                         /\ e[k] # None => IsExamined(s) \/ submission[s].status = "VOIDED"
  BY DEF ExaminersAreIndependent
<1>1. PICK e : e = [k \in Slots |-> assignment[<<s, k>>].examiner]
  OBVIOUS
<1>2. ASSUME NEW k \in Slots
      PROVE  /\ e[k] = assignment[<<s, k>>].examiner
             /\ e[k] = None <=> assignment[<<s, k>>].status = "NONE"
             /\ e[k] # None => e[k] # submission[s].owner
             /\ IsExamined(s) => e[k] # None
             /\ e[k] # None => IsExamined(s) \/ submission[s].status = "VOIDED"
  <2>1. PICK a \in Assignments : a = <<s, k>>
    BY DEF Assignments
  <2>2. a[1] = s
    BY <2>1
  <2>3. e[k] = assignment[a].examiner
    BY <1>1, <2>1
  <2> QED
    BY <2>1, <2>2, <2>3 DEF IsIndependent
<1>3. e[1] # None => e[1] # e[2]
  <2>0. <<s, 1>> \in Assignments /\ Peer(<<s, 1>>) = <<s, 2>>
    BY DEF Assignments, Slots, Peer
  <2>1. PICK a \in Assignments : a = <<s, 1>> /\ Peer(a) = <<s, 2>>
    BY <2>0
  <2>2. e[1] = assignment[a].examiner /\ e[2] = assignment[Peer(a)].examiner
    BY <1>1, <2>1 DEF Slots
  <2> QED
    BY <2>1, <2>2 DEF IsIndependent
<1> QED
  BY <1>1, <1>2, <1>3

LEMMA WorkIsCounted ==
  ASSUME \A a \in Assignments : IsCounted(a)
  PROVE  ScoredByBoth
<1> SUFFICES ASSUME NEW s \in Submissions
             PROVE  /\ IsExamined(s) =>
                         (submission[s].status = "SCORED" <=>
                            \A k \in Slots : assignment[<<s, k>>].status = "COMPLETED")
                    /\ \A k \in Slots :
                         assignment[<<s, k>>].status = "COMPLETED" =>
                           assignment[<<s, k>>].score # None
  BY DEF ScoredByBoth
<1>0. <<s, 1>> \in Assignments /\ <<s, 2>> \in Assignments /\ Peer(<<s, 1>>) = <<s, 2>>
  BY DEF Assignments, Slots, Peer
<1>1. PICK a \in Assignments, b \in Assignments :
        a = <<s, 1>> /\ b = <<s, 2>> /\ b = Peer(a) /\ a[1] = s /\ b[1] = s
  BY <1>0
<1>2. (\A k \in Slots : assignment[<<s, k>>].status = "COMPLETED") <=>
        assignment[a].status = "COMPLETED" /\ assignment[b].status = "COMPLETED"
  BY <1>1 DEF Slots
<1>3. IsCounted(a) /\ IsCounted(b)
  OBVIOUS
<1>4. \A k \in Slots : <<s, k>> = a \/ <<s, k>> = b
  BY <1>1 DEF Slots
<1> QED
  BY <1>1, <1>2, <1>3, <1>4 DEF IsCounted

LEMMA WorkIsCapable ==
  ASSUME \A a \in Assignments : IsCapable(a)
  PROVE  OpenWorkHasCapableExaminer
  BY DEF OpenWorkHasCapableExaminer, IsCapable

\* How a Submission moves while its Examiners are neither claimed nor done.
KeepsExaminers(s) ==
  /\ submission[s].status = "NONE" \/ submission'[s].owner = submission[s].owner
  /\ IsExamined(s)' =>
       /\ IsExamined(s)
       /\ submission'[s].status = "SCORED" <=> submission[s].status = "SCORED"
  /\ IsExamined(s) => IsExamined(s)' \/ submission'[s].status = "VOIDED"
  /\ submission[s].status = "VOIDED" => submission'[s].status = "VOIDED"

LEMMA RowKeepsExaminers ==
  ASSUME NEW s \in Submissions, RowStep(s) \/ RowVoided(s)
  PROVE  KeepsExaminers(s)
<1>1. CASE submission'[s] = submission[s]
  BY <1>1 DEF KeepsExaminers, IsExamined
<1>2. CASE submission[s].status = "NONE" /\ submission'[s].status = "IN_PROGRESS"
  BY <1>2 DEF KeepsExaminers, IsExamined
<1>3. CASE RowMoved(s)
  BY <1>3, NoneAssumption DEF RowMoved, InReviewOfScoring, KeepsExaminers, IsExamined
<1>4. CASE RowRouted(s)
  BY <1>4, NoneAssumption DEF RowRouted, AwaitsRouting, KeepsExaminers, IsExamined
<1>5. CASE RowSettled(s)
  BY <1>5 DEF RowSettled, KeepsExaminers, IsExamined
<1>6. CASE RowVoided(s)
  BY <1>6 DEF RowVoided, KeepsExaminers, IsExamined
<1> QED
  BY <1>1, <1>2, <1>3, <1>4, <1>5, <1>6 DEF RowStep

\* An assignment whose set, Examiners and Submission are left alone.
LEMMA SoundStays ==
  ASSUME NEW a \in Assignments, IsSound(a), KeepsExaminers(a[1]),
         assignment'[a] = assignment[a], assignment'[Peer(a)] = assignment[Peer(a)],
         UNCHANGED <<role, active>>
  PROVE  IsSound(a)'
<1>1. PICK s \in Submissions : s = a[1]
  BY Peers
<1>2. submission[s].status = "NONE" => assignment[a].examiner = None
  BY <1>1 DEF IsSound, IsIndependent, IsExamined
<1>3. IsIndependent(a)'
  BY <1>1, <1>2 DEF IsSound, IsIndependent, KeepsExaminers
<1>4. IsCapable(a)'
  BY <1>1 DEF IsSound, IsCapable, IsOpenWork, KeepsExaminers
<1>5. IsCounted(a)'
  BY <1>1 DEF IsSound, IsCounted, KeepsExaminers
<1>6. IsBlank(a)'
  BY DEF IsSound, IsBlank
<1> QED
  BY <1>3, <1>4, <1>5, <1>6 DEF IsSound

\* The claim: two eligible Examiners for a Submission that had none.
LEMMA ClaimIsSound ==
  ASSUME WorkInv, NEW s \in Submissions, NEW e1 \in Users, NEW e2 \in Users,
         CreateExaminerAssignmentSet(s, e1, e2), NEW a \in Assignments
  PROVE  IsSound(a)'
<1>1. /\ submission \in [Submissions -> SubmissionRow]
      /\ a[1] \in Submissions
      /\ Peer(a) \in Assignments
      /\ Peer(a)[1] = a[1]
      /\ a[2] = 1 <=> Peer(a)[2] # 1
      /\ e1 # None /\ e2 # None /\ e1 # e2
      /\ UNCHANGED <<role, active>>
  BY Peers, NoneAssumption
     DEF WorkInv, TypeInv, TypeOK, CreateExaminerAssignmentSet, examFrame, accountVars
<1>2. CASE a[1] # s
  <2>1. assignment'[a] = assignment[a] /\ assignment'[Peer(a)] = assignment[Peer(a)]
    BY <1>1, <1>2 DEF CreateExaminerAssignmentSet
  <2>2. submission'[a[1]] = submission[a[1]]
    BY <1>1, <1>2 DEF CreateExaminerAssignmentSet
  <2> QED
    BY <1>1, <2>1, <2>2, RowKeepsExaminers, SoundStays DEF WorkInv, RowStep
<1>3. CASE a[1] = s
  <2>1. /\ submission'[s].status = "SCORING"
        /\ submission'[s].owner = submission[s].owner
    BY <1>1, <1>3 DEF CreateExaminerAssignmentSet, SubmissionRow
  <2>2. \A b \in Assignments : b[1] = s =>
          /\ assignment'[b].examiner = IF b[2] = 1 THEN e1 ELSE e2
          /\ assignment'[b].status = "ASSIGNED"
          /\ assignment'[b].score = None
    BY DEF CreateExaminerAssignmentSet
  <2>3. \A e \in {e1, e2} : e # submission[s].owner /\ role[e] = "EXAMINER" /\ active[e]
    BY DEF CreateExaminerAssignmentSet, IsEligibleExaminer, IsActive
  <2>4. IsIndependent(a)'
    BY <1>1, <1>3, <2>1, <2>2, <2>3 DEF IsIndependent, IsExamined
  <2>5. IsCapable(a)'
    BY <1>1, <1>3, <2>2, <2>3 DEF IsCapable
  <2>6. IsCounted(a)'
    BY <1>1, <1>3, <2>1, <2>2 DEF IsCounted
  <2>7. IsBlank(a)'
    BY <1>3, <2>2 DEF IsBlank
  <2> QED
    BY <2>4, <2>5, <2>6, <2>7 DEF IsSound
<1> QED
  BY <1>2, <1>3

\* Work goes on: an open assignment is IN_PROGRESS afterwards, all else as it was.
LEMMA BegunIsSound ==
  ASSUME WorkInv, NEW b \in Assignments, IsOpenWork(b),
         assignment'[b].examiner = assignment[b].examiner,
         assignment'[b].status = "IN_PROGRESS",
         \A a \in Assignments \ {b} : assignment'[a] = assignment[a],
         UNCHANGED <<submission, role, active>>, NEW a \in Assignments
  PROVE  IsSound(a)'
<1>1. /\ Peer(a) \in Assignments
      /\ Peer(a) # a
      /\ Peer(Peer(a)) = a
      /\ IsSound(a)
      /\ IsSound(b)
      /\ a[1] \in Submissions
      /\ Peer(b)[1] = b[1]
  BY Peers DEF WorkInv
<1>2. CASE a # b /\ Peer(a) # b
  BY <1>1, <1>2, RowKeepsExaminers, SoundStays DEF RowStep
<1>3. CASE a = b \/ Peer(a) = b
  <2>1. /\ assignment'[a].examiner = assignment[a].examiner
        /\ assignment'[Peer(a)].examiner = assignment[Peer(a)].examiner
        /\ assignment'[a].status = "NONE" <=> assignment[a].status = "NONE"
        /\ assignment'[a].status = "COMPLETED" <=> assignment[a].status = "COMPLETED"
        /\ assignment'[Peer(a)].status = "COMPLETED" <=> assignment[Peer(a)].status = "COMPLETED"
        /\ IsOpenWork(a)' => IsOpenWork(a)
        /\ a = b \/ assignment'[a] = assignment[a]
        /\ assignment'[b].status \notin {"NONE", "COMPLETED"}
    BY <1>1, <1>3 DEF IsOpenWork
  <2>2. IsIndependent(a)'
    BY <1>1, <2>1 DEF IsSound, IsIndependent, IsExamined
  <2>3. IsCapable(a)'
    BY <1>1, <2>1 DEF IsSound, IsCapable
  <2>4. IsCounted(a)' /\ IsBlank(a)'
    BY <1>1, <2>1 DEF IsSound, IsCounted, IsBlank, IsExamined
  <2> QED
    BY <2>2, <2>3, <2>4 DEF IsSound
<1> QED
  BY <1>2, <1>3

\* The Submission is SCORED with the completion of the second Examiner.
LEMMA CompletionIsSound ==
  ASSUME WorkInv, NEW b \in Assignments, CompleteExaminerScoring(b), NEW a \in Assignments
  PROVE  IsSound(a)'
<1>1. /\ Peer(a) \in Assignments
      /\ Peer(a) # a
      /\ Peer(Peer(a)) = a
      /\ Peer(a)[1] = a[1]
      /\ a[1] = b[1] => a = b \/ Peer(a) = b
      /\ IsSound(a)
      /\ IsSound(b)
      /\ a[1] \in Submissions
      /\ b[1] \in Submissions
      /\ Peer(b) \in Assignments
      /\ UNCHANGED <<role, active>>
  <2>1. b = a \/ b = Peer(a) \/ a[1] # b[1]
    BY Peers
  <2> QED
    BY <2>1, Peers DEF WorkInv, CompleteExaminerScoring, examFrame, accountVars
<1>2. /\ assignment \in [Assignments -> AssignmentRow]
      /\ submission \in [Submissions -> SubmissionRow]
      /\ submission[b[1]].status = "SCORING"
      /\ assignment[b].score # None
      /\ assignment[b].status \notin {"NONE", "COMPLETED"}
  BY DEF WorkInv, TypeInv, TypeOK, CompleteExaminerScoring, IsScoringLifecycle, IsOpenWork
<1>3. /\ assignment'[b].status = "COMPLETED"
      /\ assignment'[b].examiner = assignment[b].examiner
      /\ assignment'[b].score = assignment[b].score
      /\ \A c \in Assignments \ {b} : assignment'[c] = assignment[c]
  BY <1>2 DEF CompleteExaminerScoring, AssignmentRow
<1>4. /\ submission'[b[1]].owner = submission[b[1]].owner
      /\ submission'[b[1]].status =
           IF assignment[Peer(b)].status = "COMPLETED" THEN "SCORED" ELSE "SCORING"
      /\ \A s \in Submissions \ {b[1]} : submission'[s] = submission[s]
  BY <1>1, <1>2 DEF CompleteExaminerScoring, SubmissionRow
<1>5. CASE a[1] # b[1]
  <2>1. a # b /\ Peer(a) # b
    BY <1>1, <1>5
  <2> QED
    BY <1>1, <1>3, <1>4, <1>5, <2>1, RowKeepsExaminers, SoundStays DEF RowStep
<1>6. CASE a[1] = b[1]
  <2>1. /\ assignment'[a].examiner = assignment[a].examiner
        /\ assignment'[Peer(a)].examiner = assignment[Peer(a)].examiner
        /\ assignment'[a].status = "NONE" <=> assignment[a].status = "NONE"
        /\ assignment'[a].score = assignment[a].score
        /\ IsOpenWork(a)' => IsOpenWork(a)
    BY <1>1, <1>2, <1>3 DEF IsOpenWork
  <2>2. IsExamined(a[1]) /\ IsExamined(a[1])'
    BY <1>2, <1>4, <1>6 DEF IsExamined
  <2>3. IsIndependent(a)'
    BY <1>1, <1>4, <1>6, <2>1, <2>2 DEF IsSound, IsIndependent
  <2>4. IsCapable(a)'
    BY <1>1, <1>2, <1>6, <2>1 DEF IsSound, IsCapable
  <2>5. IsCounted(a)'
    <3>1. submission'[a[1]].status = "SCORED" <=>
            /\ assignment'[a].status = "COMPLETED"
            /\ assignment'[Peer(a)].status = "COMPLETED"
      BY <1>1, <1>3, <1>4, <1>6
    <3>2. assignment'[a].status = "COMPLETED" => assignment'[a].score # None
      BY <1>1, <1>2, <1>3, <1>6 DEF IsSound, IsCounted
    <3> QED
      BY <3>1, <3>2 DEF IsCounted
  <2>6. IsBlank(a)'
    BY <1>1, <2>1 DEF IsSound, IsBlank
  <2> QED
    BY <2>3, <2>4, <2>5, <2>6 DEF IsSound
<1> QED
  BY <1>5, <1>6

\* New Examiners for untouched work: each active, able, and neither the student
\* nor the peer's.
LEMMA MovedIsSound ==
  ASSUME WorkInv, NEW a \in Assignments, UNCHANGED submission,
         assignment'[a].status = assignment[a].status,
         assignment'[a].score = assignment[a].score,
         assignment'[Peer(a)].status = assignment[Peer(a)].status,
         assignment'[a].examiner # None => assignment'[a].examiner # assignment'[Peer(a)].examiner,
         \/ assignment'[a].examiner = assignment[a].examiner
         \/ /\ IsOpenWork(a)
            /\ assignment'[a].examiner \in Users
            /\ assignment'[a].examiner # submission[a[1]].owner,
         IsCapable(a)'
  PROVE  IsSound(a)'
<1>1. /\ IsSound(a)
      /\ None \notin Users
      /\ a[1] \in Submissions
  BY Peers, NoneAssumption DEF WorkInv
<1>2. assignment'[a].examiner = None <=> assignment[a].examiner = None
  BY <1>1 DEF IsSound, IsIndependent, IsOpenWork
<1>3. IsIndependent(a)'
  BY <1>1, <1>2 DEF IsSound, IsIndependent, IsExamined
<1>4. IsCounted(a)' /\ IsBlank(a)'
  BY <1>1 DEF IsSound, IsCounted, IsBlank, IsExamined
<1> QED
  BY <1>3, <1>4 DEF IsSound

LEMMA ReassignmentIsSound ==
  ASSUME WorkInv, NEW admin \in Users, NEW b \in Assignments, NEW u \in Users,
         ReassignExaminerAssignment(admin, b, u), NEW a \in Assignments
  PROVE  IsSound(a)'
<1>1. /\ Peer(a) \in Assignments
      /\ Peer(a) # a
      /\ Peer(Peer(a)) = a
      /\ IsSound(a)
      /\ IsSound(Peer(a))
      /\ a[1] \in Submissions
      /\ assignment \in [Assignments -> AssignmentRow]
      /\ UNCHANGED <<submission, role, active>>
  BY Peers DEF WorkInv, TypeInv, TypeOK, ReassignExaminerAssignment, examFrame, accountVars
<1>2. /\ IsOpenWork(b)
      /\ role[u] = "EXAMINER" /\ active[u]
      /\ u # submission[b[1]].owner
      /\ u # assignment[Peer(b)].examiner
      /\ u # None
  BY NoneAssumption
     DEF ReassignExaminerAssignment, IsReassignable, IsEligibleExaminer, IsActive, IsOpenWork
<1>3. /\ assignment'[b].examiner = u
      /\ assignment'[b].status = assignment[b].status
      /\ assignment'[b].score = assignment[b].score
      /\ \A c \in Assignments \ {b} : assignment'[c] = assignment[c]
  BY <1>1 DEF ReassignExaminerAssignment, AssignmentRow
<1>4. assignment'[a].examiner # None => assignment'[a].examiner # assignment'[Peer(a)].examiner
  BY <1>1, <1>2, <1>3 DEF IsSound, IsIndependent
<1>5. IsCapable(a)'
  BY <1>1, <1>2, <1>3 DEF IsSound, IsCapable, IsOpenWork
<1>6. /\ assignment'[a].status = assignment[a].status
      /\ assignment'[a].score = assignment[a].score
      /\ assignment'[Peer(a)].status = assignment[Peer(a)].status
  BY <1>1, <1>3
<1> QED
  BY <1>1, <1>2, <1>3, <1>4, <1>5, <1>6, MovedIsSound

\* An account leaves its untouched work to others, or keeps a role that can do it.
LEMMA TransitionIsSound ==
  ASSUME WorkInv, NEW admin \in Users, NEW u \in Users, NEW newRole \in Roles,
         NEW deactivate \in BOOLEAN, Transition(admin, u, newRole, deactivate),
         NEW a \in Assignments
  PROVE  IsSound(a)'
<1>1. /\ Peer(a) \in Assignments
      /\ Peer(a) # a
      /\ Peer(Peer(a)) = a
      /\ Peer(a)[1] = a[1]
      /\ IsSound(a)
      /\ IsSound(Peer(a))
      /\ a[1] \in Submissions
      /\ assignment \in [Assignments -> AssignmentRow]
      /\ role \in [Users -> Roles]
      /\ active \in [Users -> BOOLEAN]
      /\ UNCHANGED submission
      /\ role' = [role EXCEPT ![u] = newRole]
      /\ active' = [active EXCEPT ![u] = ~deactivate]
      /\ None \notin Users
  BY Peers, NoneAssumption DEF WorkInv, TypeInv, TypeOK, Transition, accountFrame
<1>2. CASE ~RequiresTransfer(u, newRole, deactivate) /\ UNCHANGED assignment
  <2>1. /\ ~deactivate
        /\ role[u] \in {"EXAMINER", "ADMIN"} => newRole \in {"EXAMINER", "ADMIN"}
    BY <1>2 DEF RequiresTransfer, Roles
  <2>2. IsCapable(a)'
    BY <1>1, <1>2, <2>1 DEF IsSound, IsCapable, IsOpenWork
  <2>3. assignment'[a].examiner # None => assignment'[a].examiner # assignment'[Peer(a)].examiner
    BY <1>1, <1>2 DEF IsSound, IsIndependent
  <2> QED
    BY <1>1, <1>2, <2>2, <2>3, MovedIsSound
<1>3. ASSUME NEW map \in [OpenAssignments(u) -> Users],
             IsReplacementMap(map, u),
             assignment' = [c \in Assignments |->
                  IF c \in OpenAssignments(u)
                    THEN [assignment[c] EXCEPT !.examiner = map[c]]
                    ELSE assignment[c]]
      PROVE  IsSound(a)'
  <2>1. ASSUME NEW c \in Assignments
        PROVE  /\ assignment'[c].status = assignment[c].status
               /\ assignment'[c].score = assignment[c].score
               /\ c \in OpenAssignments(u) => assignment'[c].examiner = map[c]
               /\ c \notin OpenAssignments(u) => assignment'[c] = assignment[c]
    <3>1. assignment[c] \in AssignmentRow
      BY <1>1
    <3> QED
      BY <1>3, <3>1 DEF AssignmentRow
  <2>2. \A c \in OpenAssignments(u) :
          /\ map[c] \in Users
          /\ role[map[c]] = "EXAMINER" /\ active[map[c]]
          /\ map[c] # submission[c[1]].owner
          /\ map[c] # u
          /\ map[c] # assignment[Peer(c)].examiner
    BY <1>3 DEF IsReplacementMap, IsActive
  <2>3. \A c \in Assignments :
          c \in OpenAssignments(u) <=> /\ assignment[c].examiner = u
                                       /\ submission[c[1]].status # "VOIDED"
                                       /\ IsOpenWork(c)
    BY DEF OpenAssignments
  <2>4. assignment'[a].examiner # None => assignment'[a].examiner # assignment'[Peer(a)].examiner
    <3>1. assignment[a].examiner # None => assignment[a].examiner # assignment[Peer(a)].examiner
      BY <1>1 DEF IsSound, IsIndependent
    <3>2. CASE a \in OpenAssignments(u)
      <4>1. Peer(a) \notin OpenAssignments(u)
        BY <1>1, <2>3, <3>1, <3>2
      <4> QED
        BY <1>1, <2>1, <2>2, <3>2, <4>1
    <3>3. CASE a \notin OpenAssignments(u) /\ Peer(a) \in OpenAssignments(u)
      <4>1. map[Peer(a)] # assignment[a].examiner
        BY <1>1, <2>2, <3>3
      <4> QED
        BY <1>1, <2>1, <3>3, <4>1
    <3>4. CASE a \notin OpenAssignments(u) /\ Peer(a) \notin OpenAssignments(u)
      BY <1>1, <2>1, <3>1, <3>4
    <3> QED
      BY <3>2, <3>3, <3>4
  <2>5. IsCapable(a)'
    <3>1. CASE a \in OpenAssignments(u)
      BY <1>1, <2>1, <2>2, <3>1 DEF IsCapable
    <3>2. CASE a \notin OpenAssignments(u)
      BY <1>1, <2>1, <2>3, <3>2 DEF IsSound, IsCapable, IsOpenWork
    <3> QED
      BY <3>1, <3>2
  <2>6. \/ assignment'[a].examiner = assignment[a].examiner
        \/ /\ IsOpenWork(a)
           /\ assignment'[a].examiner \in Users
           /\ assignment'[a].examiner # submission[a[1]].owner
    BY <2>1, <2>2, <2>3
  <2> QED
    BY <1>1, <2>1, <2>4, <2>5, <2>6, MovedIsSound
<1> QED
  BY <1>2, <1>3 DEF Transition

\* The steps of the other components leave assignments alone.
LEMMA AssignmentsKept ==
  ASSUME [Next]_vars
  PROVE  ExaminingNext \/ AccountsNext \/ UNCHANGED <<assignment, role, active>>
<1> USE DEF accountVars, flagVars, payVars
<1>1. RecordingNext => UNCHANGED assignment
  BY DEF RecordingNext, StartAssessment, ConfirmLastUpload, ClosePage, GraceElapses,
         RecordSubmissionHeartbeat, AbandonSubmission, AbandonStaleSubmissions,
         BeginCompleteSubmission, CommitCompleteSubmission
<1>2. FlagReviewNext => UNCHANGED assignment
  BY DEF FlagReviewNext, RaiseDeviceFlag, RaiseIntegrityConcern, BeginConfirmFlag,
         CommitConfirmFlag, BeginDismissFlag, CheckDismissingAdmin, CommitDismissFlag
<1>3. PaymentsNext => UNCHANGED assignment
  BY DEF PaymentsNext, CreateIpaymuCheckout, CheckoutReturns, CheckoutRejected, NotifyFailed,
         NotifySuccess, ProviderAnswers, ProviderCollects, BeginWaiveSubmissionPayment,
         CommitWaiveSubmissionPayment, UpdatePaymentEnabled, payFrame
<1>4. (\E r \in Requests : RequestEnds(r)) => UNCHANGED assignment
  BY DEF RequestEnds
<1>5. UNCHANGED vars => UNCHANGED assignment
  BY DEF vars
<1> QED
  BY <1>1, <1>2, <1>3, <1>4, <1>5, AccountsOnly DEF Next

LEMMA ExaminingIsSound ==
  ASSUME WorkInv, ExaminingNext, NEW a \in Assignments
  PROVE  IsSound(a)'
<1>1. ASSUME NEW s \in Submissions, NEW e1 \in Users, NEW e2 \in Users,
             CreateExaminerAssignmentSet(s, e1, e2)
      PROVE  IsSound(a)'
  BY <1>1, ClaimIsSound
<1>2. ASSUME NEW b \in Assignments, StartExaminerAssignment(b)
      PROVE  IsSound(a)'
  <2>1. assignment \in [Assignments -> AssignmentRow]
    BY DEF WorkInv, TypeInv, TypeOK
  <2>2. /\ IsOpenWork(b)
        /\ assignment'[b].examiner = assignment[b].examiner
        /\ assignment'[b].status = "IN_PROGRESS"
        /\ \A c \in Assignments \ {b} : assignment'[c] = assignment[c]
        /\ UNCHANGED <<submission, role, active>>
    BY <1>2, <2>1
       DEF StartExaminerAssignment, IsOpenWork, AssignmentRow, examFrame, accountVars
  <2> QED
    BY <2>2, BegunIsSound
<1>3. ASSUME NEW b \in Assignments, NEW mark \in Marks, SaveExaminerScore(b, mark)
      PROVE  IsSound(a)'
  <2>1. assignment \in [Assignments -> AssignmentRow]
    BY DEF WorkInv, TypeInv, TypeOK
  <2>2. /\ IsOpenWork(b)
        /\ assignment'[b].examiner = assignment[b].examiner
        /\ assignment'[b].status = "IN_PROGRESS"
        /\ \A c \in Assignments \ {b} : assignment'[c] = assignment[c]
        /\ UNCHANGED <<submission, role, active>>
    BY <1>3, <2>1 DEF SaveExaminerScore, AssignmentRow, examFrame, accountVars
  <2> QED
    BY <2>2, BegunIsSound
<1>4. ASSUME NEW b \in Assignments, CompleteExaminerScoring(b)
      PROVE  IsSound(a)'
  BY <1>4, CompletionIsSound
<1>5. ASSUME NEW b \in Assignments, NEW admin \in Users, NEW u \in Users,
             ReassignExaminerAssignment(admin, b, u)
      PROVE  IsSound(a)'
  BY <1>5, ReassignmentIsSound
<1> QED
  BY <1>1, <1>2, <1>3, <1>4, <1>5 DEF ExaminingNext

LEMMA WorkInductive ==
  /\ Init => WorkInv
  /\ WorkInv /\ [Next]_vars => WorkInv'
<1>1. Init => WorkInv
  <2> SUFFICES ASSUME Init, NEW a \in Assignments
               PROVE  IsSound(a)
    BY InitTyped DEF WorkInv
  <2>1. /\ Peer(a) \in Assignments
        /\ submission[a[1]].status = "NONE"
        /\ \A b \in Assignments : /\ assignment[b].examiner = None
                                  /\ assignment[b].status = "NONE"
                                  /\ assignment[b].score = None
    BY Peers DEF Init
  <2> QED
    BY <2>1 DEF IsSound, IsIndependent, IsCapable, IsCounted, IsBlank, IsExamined, IsOpenWork
<1>2. ASSUME WorkInv, [Next]_vars
      PROVE  WorkInv'
  <2>0. TypeInv /\ TypeInv'
    BY <1>2, NextTyped DEF WorkInv
  <2>1. SUFFICES ASSUME NEW a \in Assignments
                 PROVE  IsSound(a)'
    BY <2>0 DEF WorkInv
  <2>2. CASE ExaminingNext
    BY <1>2, <2>2, ExaminingIsSound
  <2>3. CASE AccountsNext
    <3>1. ASSUME NEW admin \in Users, NEW u \in Movable, NEW newRole \in Roles,
                 TransitionAccountRole(admin, u, newRole)
          PROVE  IsSound(a)'
      BY <1>2, <3>1, TransitionIsSound, MovableAssumption DEF TransitionAccountRole
    <3>2. ASSUME NEW admin \in Users, NEW u \in Movable, DeactivateAccount(admin, u)
          PROVE  IsSound(a)'
      <4>1. u \in Users /\ role[u] \in Roles
        BY <2>0, MovableAssumption DEF TypeInv, TypeOK
      <4> QED
        BY <1>2, <3>2, <4>1, TransitionIsSound DEF DeactivateAccount
    <3> QED
      BY <2>3, <3>1, <3>2 DEF AccountsNext
  <2>4. CASE ~ExaminingNext /\ UNCHANGED <<assignment, role, active>>
    <3>1. a[1] \in Submissions /\ IsSound(a)
      BY <1>2, Peers DEF WorkInv
    <3>2. RowStep(a[1]) \/ RowVoided(a[1])
      BY <1>2, <2>0, <2>4, <3>1, RowSteps
    <3> QED
      BY <2>4, <3>1, <3>2, RowKeepsExaminers, SoundStays
  <2> QED
    BY <1>2, <2>2, <2>3, <2>4, AssignmentsKept
<1> QED
  BY <1>1, <1>2

\* Two distinct Examiners, neither the student, from the claim on and not before.
THEOREM IndependentExaminers == Spec => []ExaminersAreIndependent
<1>1. WorkInv => ExaminersAreIndependent
  BY WorkIsIndependent DEF WorkInv, IsSound
<1> QED
  BY <1>1, WorkInductive, PTL DEF Spec

\* Open work always has an active account that can do it, whoever is demoted or
\* deactivated.
THEOREM WorkIsNeverStranded == Spec => []OpenWorkHasCapableExaminer
<1>1. WorkInv => OpenWorkHasCapableExaminer
  BY WorkIsCapable DEF WorkInv, IsSound
<1> QED
  BY <1>1, WorkInductive, PTL DEF Spec

\* A Submission is SCORED exactly when both Examiners have completed with a Score.
THEOREM BothHaveScored == Spec => []ScoredByBoth
<1>1. WorkInv => ScoredByBoth
  BY WorkIsCounted DEF WorkInv, IsSound
<1> QED
  BY <1>1, WorkInductive, PTL DEF Spec

\* How one assignment changes: it is claimed or worked on, or moves untouched.
AssignmentStep(a) ==
  \/ assignment'[a] = assignment[a]
  \/ /\ OpenFlags(a[1]) = {}
     /\ \/ assignment[a].status = "NONE"
        \/ IsOpenWork(a) /\ assignment'[a].examiner = assignment[a].examiner
  \/ /\ assignment[a].status = "ASSIGNED"
     /\ assignment[a].score = None
     /\ assignment'[a].status = assignment[a].status
     /\ assignment'[a].score = assignment[a].score

LEMMA AssignmentSteps ==
  ASSUME TypeInv, [Next]_vars, NEW a \in Assignments
  PROVE  AssignmentStep(a)
<1>0. assignment \in [Assignments -> AssignmentRow] /\ a[1] \in Submissions
  BY Peers DEF TypeInv, TypeOK
<1>1. ASSUME NEW s \in Submissions, NEW e1 \in Users, NEW e2 \in Users,
             CreateExaminerAssignmentSet(s, e1, e2)
      PROVE  AssignmentStep(a)
  <2>1. CASE a[1] # s
    BY <1>1, <2>1 DEF CreateExaminerAssignmentSet, AssignmentStep
  <2>2. CASE a[1] = s
    <3>1. a = <<s, a[2]>> /\ a[2] \in Slots
      BY <2>2, Peers
    <3> QED
      BY <1>1, <3>1 DEF CreateExaminerAssignmentSet, AssignmentStep
  <2> QED
    BY <2>1, <2>2
<1>2. ASSUME NEW b \in Assignments, StartExaminerAssignment(b)
      PROVE  AssignmentStep(a)
  BY <1>0, <1>2
     DEF StartExaminerAssignment, IsScorable, IsOpenWork, AssignmentRow, AssignmentStep
<1>3. ASSUME NEW b \in Assignments, NEW mark \in Marks, SaveExaminerScore(b, mark)
      PROVE  AssignmentStep(a)
  BY <1>0, <1>3 DEF SaveExaminerScore, IsScorable, AssignmentRow, AssignmentStep
<1>4. ASSUME NEW b \in Assignments, CompleteExaminerScoring(b)
      PROVE  AssignmentStep(a)
  BY <1>0, <1>4 DEF CompleteExaminerScoring, IsScorable, AssignmentRow, AssignmentStep
<1>5. ASSUME NEW b \in Assignments, NEW admin \in Users, NEW u \in Users,
             ReassignExaminerAssignment(admin, b, u)
      PROVE  AssignmentStep(a)
  BY <1>0, <1>5 DEF ReassignExaminerAssignment, IsReassignable, AssignmentRow, AssignmentStep
<1>6. ASSUME NEW admin \in Users, NEW u \in Users, NEW newRole \in Roles,
             NEW deactivate \in BOOLEAN, Transition(admin, u, newRole, deactivate)
      PROVE  AssignmentStep(a)
  <2>1. CASE UNCHANGED assignment
    BY <2>1 DEF AssignmentStep
  <2>2. ASSUME \A c \in OpenAssignments(u) : IsUntouched(c),
               NEW map \in [OpenAssignments(u) -> Users],
               assignment' = [c \in Assignments |->
                  IF c \in OpenAssignments(u)
                    THEN [assignment[c] EXCEPT !.examiner = map[c]]
                    ELSE assignment[c]]
        PROVE  AssignmentStep(a)
    <3>1. CASE a \in OpenAssignments(u)
      <4>1. assignment'[a] = [assignment[a] EXCEPT !.examiner = map[a]]
        BY <2>2, <3>1
      <4> QED
        BY <1>0, <2>2, <3>1, <4>1 DEF IsUntouched, AssignmentRow, AssignmentStep
    <3>2. CASE a \notin OpenAssignments(u)
      BY <2>2, <3>2 DEF AssignmentStep
    <3> QED
      BY <3>1, <3>2
  <2> QED
    BY <1>6, <2>1, <2>2 DEF Transition
<1>7. AccountsNext => AssignmentStep(a)
  <2>1. ASSUME NEW admin \in Users, NEW u \in Movable, DeactivateAccount(admin, u)
        PROVE  AssignmentStep(a)
    <3>1. u \in Users /\ role[u] \in Roles
      BY MovableAssumption DEF TypeInv, TypeOK
    <3> QED
      BY <1>6, <2>1, <3>1 DEF DeactivateAccount
  <2> QED
    BY <1>6, <2>1, MovableAssumption DEF AccountsNext, TransitionAccountRole
<1>8. UNCHANGED assignment => AssignmentStep(a)
  BY DEF AssignmentStep
<1> QED
  BY <1>1, <1>2, <1>3, <1>4, <1>5, <1>7, <1>8, AssignmentsKept DEF ExaminingNext

\* A completed assignment never changes: not its Score, not its Examiner.
THEOREM CompletedWorkIsFrozen == Spec => CompletedIsFrozen
<1>1. ASSUME WorkInv, [Next]_vars
      PROVE  [\A a \in Assignments :
                assignment[a].status = "COMPLETED" => assignment'[a] = assignment[a]]_vars
  BY <1>1, AssignmentSteps DEF WorkInv, AssignmentStep, IsOpenWork
<1> QED
  BY <1>1, WorkInductive, PTL DEF Spec, CompletedIsFrozen

\* Work an Examiner has begun, or left a Score on, stays with that Examiner.
THEOREM BegunWorkIsNotMoved == Spec => BegunWorkStays
<1>1. ASSUME WorkInv, [Next]_vars
      PROVE  [\A a \in Assignments :
                assignment[a].status = "IN_PROGRESS" \/ assignment[a].score # None =>
                  assignment'[a].examiner = assignment[a].examiner]_vars
  <2>1. ASSUME NEW a \in Assignments,
               assignment[a].status = "IN_PROGRESS" \/ assignment[a].score # None
        PROVE  assignment'[a].examiner = assignment[a].examiner
    <3>1. AssignmentStep(a) /\ IsBlank(a)
      BY <1>1, AssignmentSteps DEF WorkInv, IsSound
    <3> QED
      BY <2>1, <3>1 DEF AssignmentStep, IsBlank
  <2> QED
    BY <2>1
<1> QED
  BY <1>1, WorkInductive, PTL DEF Spec, BegunWorkStays

\* While a flag is open neither Examiner can start, save or complete.
THEOREM OpenFlagsPauseScoring == Spec => FlagPausesScoring
<1>1. ASSUME WorkInv, [Next]_vars
      PROVE  [\A a \in Assignments :
                OpenFlags(a[1]) # {} =>
                  /\ assignment'[a].status = assignment[a].status
                  /\ assignment'[a].score = assignment[a].score]_vars
  BY <1>1, AssignmentSteps DEF WorkInv, AssignmentStep
<1> QED
  BY <1>1, WorkInductive, PTL DEF Spec, FlagPausesScoring

-----------------------------------------------------------------------------
(* The promise.  Each step of the components is shown to be a step of       *)
(* SubmissionPromise or to leave its three variables alone.                 *)

Phase == [s \in Submissions |-> submission[s].status]

Concern == {s \in Submissions : OpenFlags(s) # {}}

Granted == {s \in Submissions : \E c \in credits : c.voided = s}

\* No other Submission than s changes its phase.
OnlyPhaseOf(s) == \A t \in Submissions \ {s} : submission'[t].status = submission[t].status

LEMMA PhaseMoves ==
  ASSUME NEW s \in Submissions, NEW from, NEW to, OnlyPhaseOf(s),
         submission[s].status = from, submission'[s].status = to
  PROVE  SP!Moves(s, from, to)
  BY DEF SP!Moves, OnlyPhaseOf

LEMMA NothingMoves ==
  ASSUME \A s \in Submissions : submission'[s].status = submission[s].status
  PROVE  Phase' = Phase
  BY DEF Phase

\* Raising a flag adds a concern about its Submission, and no other.
LEMMA RaisingConcerns ==
  ASSUME TypeInv, NEW f \in Flags, NEW s \in Submissions, NEW source, CreateFlag(f, s, source)
  PROVE  Concern' = Concern \cup {s}
<1>1. flag \in [Flags -> FlagRow]
  BY DEF TypeInv, TypeOK
<1>2. f \in OpenFlags(s)'
  BY <1>1 DEF CreateFlag, OpenFlags
<1>3. \A t \in Submissions \ {s} : OpenFlags(t)' = OpenFlags(t)
  BY <1>1 DEF CreateFlag, OpenFlags
<1> QED
  BY <1>2, <1>3 DEF Concern

\* Deciding the last open flags of a Submission ends the concern about it.
LEMMA DecidingClears ==
  ASSUME NEW s \in Submissions, OpenFlags(s)' = {},
         \A t \in Submissions \ {s} : OpenFlags(t)' = OpenFlags(t)
  PROVE  Concern' = Concern \ {s}
  BY DEF Concern

\* A redemption grants nothing and loses no grant.
LEMMA GrantedStays ==
  ASSUME TypeInv, UNCHANGED credits \/ \E s \in Submissions, c \in credits : Redeems(c, s)
  PROVE  Granted' = Granted
<1>1. CASE UNCHANGED credits
  BY <1>1 DEF Granted
<1>2. ASSUME NEW s \in Submissions, NEW c \in credits, Redeems(c, s)
      PROVE  Granted' = Granted
  <2>1. PICK d : d = [c EXCEPT !.redeemedBy = s]
    OBVIOUS
  <2>2. d.voided = c.voided /\ credits' = (credits \ {c}) \cup {d}
    BY <1>2, <2>1, RedeemedRow DEF Redeems, TypeInv, TypeOK
  <2> QED
    BY <2>2 DEF Granted
<1> QED
  BY <1>1, <1>2

\* A step the promise does not see.
LEMMA Unseen ==
  ASSUME Phase' = Phase, Concern' = Concern, Granted' = Granted
  PROVE  UNCHANGED SP!promiseVars
  BY DEF SP!promiseVars, Phase, Concern, Granted

LEMMA StartKeepsPromise ==
  ASSUME TypeInv, NEW u \in Users, NEW s \in Submissions, StartAssessment(u, s)
  PROVE  SP!Start(s)
<1> DEFINE ended == ActiveSubmissions(u)
<1>1. /\ submission \in [Submissions -> SubmissionRow]
      /\ submission[s].status = "NONE"
      /\ UNCHANGED <<flag, credits>>
  BY DEF TypeInv, TypeOK, StartAssessment, flagVars
<1>2. ended \in SUBSET {t \in Submissions : submission[t].status = "IN_PROGRESS"}
  BY DEF ActiveSubmissions
<1>3. \A t \in Submissions :
        submission'[t].status = IF t = s THEN "IN_PROGRESS"
                                ELSE IF t \in ended THEN "ABANDONED"
                                ELSE submission[t].status
  <2>1. ASSUME NEW t \in Submissions
        PROVE  submission'[t].status = IF t = s THEN "IN_PROGRESS"
                                       ELSE IF t \in ended THEN "ABANDONED"
                                       ELSE submission[t].status
    <3>1. submission'[t] =
            IF t = s THEN [owner |-> u, status |-> "IN_PROGRESS",
                           paymentRequired |-> TRUE, returnTo |-> None]
            ELSE IF t \in ended THEN [submission[t] EXCEPT !.status = "ABANDONED"]
            ELSE submission[t]
      BY DEF StartAssessment
    <3>2. submission[t] \in SubmissionRow
      BY <1>1
    <3> QED
      BY <3>1, <3>2 DEF SubmissionRow
  <2> QED
    BY <2>1
<1> HIDE DEF ended
<1> QED
  BY <1>1, <1>2, <1>3 DEF SP!Start, OpenFlags

LEMMA AbandonKeepsPromise ==
  ASSUME NEW ended, ended \subseteq Submissions, ended # {}, UNCHANGED <<flag, credits>>,
         \A t \in ended : submission[t].status = "IN_PROGRESS",
         \A t \in Submissions : submission'[t].status = IF t \in ended THEN "ABANDONED"
                                                        ELSE submission[t].status
  PROVE  SP!Abandon
<1>1. ended \in (SUBSET {t \in Submissions : submission[t].status = "IN_PROGRESS"}) \ {{}}
  OBVIOUS
<1> QED
  BY <1>1 DEF SP!Abandon, OpenFlags

\* Routing goes on to payment or past it.
LEMMA RoutingPhase ==
  ASSUME TypeInv, NEW r \in Requests, NEW s \in Submissions, AwaitsRouting(s),
         RouteRecordedSubmission(r, s)
  PROVE  OnlyPhaseOf(s) /\ submission'[s].status \in {"AWAITING_PAYMENT", "PAID"}
  BY RoutingMoves DEF TypeInv, RowRouted, OnlyPhaseOf

PromiseStep == SP!PromiseNext \/ UNCHANGED SP!promiseVars

LEMMA RecordingKeepsPromise ==
  ASSUME TypeInv, RecordingNext
  PROVE  PromiseStep
<1> USE DEF accountVars, flagVars, payVars
<1>0. TypeOK /\ submission \in [Submissions -> SubmissionRow]
  BY DEF TypeInv, TypeOK
<1>1. ASSUME NEW u \in Users, NEW s \in Submissions, StartAssessment(u, s)
      PROVE  PromiseStep
  BY <1>1, StartKeepsPromise DEF PromiseStep, SP!PromiseNext
<1>2. ASSUME NEW s \in Submissions, NEW failed \in BOOLEAN, ConfirmLastUpload(s, failed)
      PROVE  PromiseStep
  <2>1. /\ submission[s].status = "IN_PROGRESS"
        /\ UNCHANGED <<submission, credits>>
    BY <1>2 DEF ConfirmLastUpload, OwnerMayRecord
  <2>2. CASE UNCHANGED flag
    <3>1. Concern' = Concern /\ Granted' = Granted /\ Phase' = Phase
      BY <2>1, <2>2 DEF Concern, OpenFlags, Granted, Phase
    <3> QED
      BY <3>1, Unseen DEF PromiseStep
  <2>3. ASSUME NEW f \in Flags, CreateFlag(f, s, "STUDENT_DEVICE")
        PROVE  PromiseStep
    <3>1. Concern' = Concern \cup {s}
      BY <2>3, RaisingConcerns
    <3>2. SP!Doubt(s)
      BY <2>1, <3>1 DEF SP!Doubt, Concern
    <3> QED
      BY <3>2 DEF PromiseStep, SP!PromiseNext
  <2> QED
    BY <1>2, <2>2, <2>3 DEF ConfirmLastUpload
<1>3. ASSUME NEW s \in Submissions, AbandonSubmission(s)
      PROVE  PromiseStep
  <2>1. /\ submission[s].status = "IN_PROGRESS"
        /\ UNCHANGED <<flag, credits>>
        /\ submission' = [submission EXCEPT ![s].status = "ABANDONED"]
    BY <1>3 DEF AbandonSubmission, OwnerMayRecord
  <2>2. \A t \in Submissions : submission'[t].status = IF t \in {s} THEN "ABANDONED"
                                                       ELSE submission[t].status
    BY <1>0, <2>1, StatusReplaced DEF Status
  <2>3. SP!Abandon
    BY <2>1, <2>2, AbandonKeepsPromise
  <2> QED
    BY <2>3 DEF PromiseStep, SP!PromiseNext
<1>4. ASSUME AbandonStaleSubmissions
      PROVE  PromiseStep
  <2> DEFINE ended == {t \in Submissions : IsStale(t)}
  <2>1. /\ ended \subseteq Submissions
        /\ ended # {}
        /\ UNCHANGED <<flag, credits>>
        /\ \A t \in ended : submission[t].status = "IN_PROGRESS"
    BY <1>4 DEF AbandonStaleSubmissions, IsStale
  <2>2. \A t \in Submissions : submission'[t].status = IF t \in ended THEN "ABANDONED"
                                                       ELSE submission[t].status
    <3>1. ASSUME NEW t \in Submissions
          PROVE  submission'[t].status = IF t \in ended THEN "ABANDONED"
                                         ELSE submission[t].status
      <4>1. submission'[t] = IF t \in ended THEN [submission[t] EXCEPT !.status = "ABANDONED"]
                             ELSE submission[t]
        BY <1>4 DEF AbandonStaleSubmissions
      <4>2. submission[t] \in SubmissionRow
        BY <1>0
      <4> QED
        BY <4>1, <4>2 DEF SubmissionRow
    <3> QED
      BY <3>1
  <2> HIDE DEF ended
  <2>3. SP!Abandon
    BY <2>1, <2>2, AbandonKeepsPromise
  <2> QED
    BY <2>3 DEF PromiseStep, SP!PromiseNext
<1>5. ASSUME NEW r \in Requests, CommitCompleteSubmission(r)
      PROVE  PromiseStep
  <2>1. PICK s \in Submissions : s = request[r].target /\ submission[s].status = "IN_PROGRESS"
    BY <1>0, <1>5, RequestFields DEF CommitCompleteSubmission
  <2>2. UNCHANGED flag
    BY <1>5 DEF CommitCompleteSubmission
  <2>3. Concern' = Concern /\ Granted' = Granted
    <3>1. UNCHANGED credits \/ RouteRecordedSubmission(r, s)
      BY <1>5, <2>1 DEF CommitCompleteSubmission
    <3>2. UNCHANGED credits \/ \E c \in credits : Redeems(c, s)
      BY <1>0, <2>1, <3>1, RoutingRedeems DEF AwaitsRouting
    <3> QED
      BY <2>2, <3>2, GrantedStays DEF Concern, OpenFlags
  <2>4. CASE OpenFlags(s) # {}
    <3>1. submission' = [submission EXCEPT ![s].status = "FLAG_REVIEW", ![s].returnTo = None]
      BY <1>5, <2>1, <2>4 DEF CommitCompleteSubmission
    <3>2. OnlyPhaseOf(s) /\ submission'[s].status = "FLAG_REVIEW"
      BY <1>0, <3>1 DEF OnlyPhaseOf, SubmissionRow
    <3>3. SP!Moves(s, "IN_PROGRESS", "FLAG_REVIEW")
      BY <2>1, <3>2, PhaseMoves
    <3>4. SP!Complete(s)
      BY <2>3, <2>4, <3>3 DEF SP!Complete, Concern, Granted
    <3> QED
      BY <3>4 DEF PromiseStep, SP!PromiseNext
  <2>5. CASE OpenFlags(s) = {}
    <3>1. RouteRecordedSubmission(r, s) /\ AwaitsRouting(s)
      BY <1>5, <2>1, <2>5 DEF CommitCompleteSubmission, AwaitsRouting
    <3>2. OnlyPhaseOf(s) /\ submission'[s].status \in {"AWAITING_PAYMENT", "PAID"}
      BY <3>1, RoutingPhase
    <3>3. \/ SP!Moves(s, "IN_PROGRESS", "AWAITING_PAYMENT")
          \/ SP!Moves(s, "IN_PROGRESS", "PAID")
      BY <2>1, <3>2, PhaseMoves
    <3>4. SP!Complete(s)
      BY <2>3, <2>5, <3>3 DEF SP!Complete, Concern, Granted
    <3> QED
      BY <3>4 DEF PromiseStep, SP!PromiseNext
  <2> QED
    BY <2>4, <2>5
<1>6. ASSUME UNCHANGED <<submission, flag, credits>>
      PROVE  PromiseStep
  BY <1>6, Unseen DEF Phase, Concern, OpenFlags, Granted, PromiseStep
<1> QED
  BY <1>1, <1>2, <1>3, <1>4, <1>5, <1>6
     DEF RecordingNext, ClosePage, GraceElapses, RecordSubmissionHeartbeat,
         BeginCompleteSubmission

LEMMA ConfirmKeepsPromise ==
  ASSUME CreditInv, NEW r \in Requests, CommitConfirmFlag(r)
  PROVE  PromiseStep
<1>0. TypeInv /\ TypeOK
  BY DEF CreditInv, FlagInv, TypeInv
<1>1. PICK f \in Flags : f = request[r].target
  BY <1>0, RequestFields DEF CommitConfirmFlag
<1>2. PICK s \in Submissions : s = flag[f].submission
  BY <1>0, <1>1 DEF CommitConfirmFlag, IsReviewable, TypeInv, Linked
<1>3. /\ flag \in [Flags -> FlagRow]
      /\ submission \in [Submissions -> SubmissionRow]
      /\ submission[s].status = "FLAG_REVIEW"
  BY <1>0, <1>1, <1>2 DEF CommitConfirmFlag, IsReviewable, TypeOK
<1>4. submission' = [submission EXCEPT ![s].status = "VOIDED", ![s].returnTo = None]
  BY <1>1, <1>2 DEF CommitConfirmFlag
<1>5. SP!Moves(s, "FLAG_REVIEW", "VOIDED")
  <2>1. OnlyPhaseOf(s) /\ submission'[s].status = "VOIDED"
    BY <1>3, <1>4 DEF OnlyPhaseOf, SubmissionRow
  <2> QED
    BY <1>3, <2>1, PhaseMoves
<1>6. Concern' = Concern \ {s}
  <2>1. ASSUME NEW g \in Flags
        PROVE  /\ g \notin OpenFlags(s) => flag'[g] = flag[g]
               /\ g \in OpenFlags(s) => flag'[g].resolution # "OPEN"
    <3>1. flag'[g] = IF g \notin OpenFlags(s) THEN flag[g]
                     ELSE [flag[g] EXCEPT
                             !.resolution = IF g = f THEN "CONFIRMED" ELSE "SUPERSEDED",
                             !.resolvedBy = request[r].by]
      BY <1>1, <1>2 DEF CommitConfirmFlag
    <3>2. flag[g] \in FlagRow
      BY <1>3
    <3> QED
      BY <3>1, <3>2 DEF FlagRow
  <2>2. OpenFlags(s)' = {}
    BY <2>1 DEF OpenFlags
  <2>3. ASSUME NEW t \in Submissions \ {s}
        PROVE  OpenFlags(t)' = OpenFlags(t)
    <3>1. ASSUME NEW g \in Flags
          PROVE  g \in OpenFlags(t)' <=> g \in OpenFlags(t)
      <4>1. CASE g \notin OpenFlags(s)
        BY <2>1, <4>1 DEF OpenFlags
      <4>2. CASE g \in OpenFlags(s)
        BY <2>1, <2>3, <4>2 DEF OpenFlags
      <4> QED
        BY <4>1, <4>2
    <3> QED
      BY <3>1 DEF OpenFlags
  <2> QED
    BY <2>2, <2>3, DecidingClears
<1>7. s \notin Granted
  <2>1. VoidedOnce(s)
    BY VoidedEachOnce DEF CreditInv
  <2> QED
    BY <1>3, <2>1 DEF VoidedOnce, Grants, Granted
<1>8. Granted' = Granted \cup {s}
  <2>1. PICK c : c = [student |-> submission[s].owner, voided |-> s, redeemedBy |-> None]
    OBVIOUS
  <2>2. credits' = credits \cup {c} /\ c.voided = s
    BY <1>1, <1>2, <2>1 DEF CommitConfirmFlag
  <2> QED
    BY <2>2 DEF Granted
<1>9. SP!Void(s)
  BY <1>5, <1>6, <1>7, <1>8 DEF SP!Void, Concern, Granted
<1> QED
  BY <1>9 DEF PromiseStep, SP!PromiseNext

\* A dismissal is seen when it was the last open flag's.
LEMMA DismissKeepsPromise ==
  ASSUME CreditInv, NEW r \in Requests, CommitDismissFlag(r)
  PROVE  PromiseStep
<1>0. TypeInv /\ TypeOK
  BY DEF CreditInv, FlagInv, TypeInv
<1>1. PICK f \in Flags : f = request[r].target
  BY <1>0, RequestFields DEF CommitDismissFlag
<1>2. PICK s \in Submissions : s = flag[f].submission
  BY <1>0, <1>1 DEF CommitDismissFlag, IsReviewable, TypeInv, Linked
<1>3. /\ flag \in [Flags -> FlagRow]
      /\ submission \in [Submissions -> SubmissionRow]
      /\ flag[f].resolution = "OPEN"
      /\ submission[s].status = "FLAG_REVIEW"
  BY <1>0, <1>1, <1>2 DEF CommitDismissFlag, IsReviewable, TypeOK
<1>4. /\ flag' = [flag EXCEPT ![f].resolution = "DISMISSED", ![f].resolvedBy = request[r].by]
      /\ \/ OpenFlags(s) # {f} /\ UNCHANGED <<submission, credits>>
         \/ /\ OpenFlags(s) = {f}
            /\ submission[s].returnTo # None
            /\ submission' = [submission EXCEPT ![s].status = submission[s].returnTo,
                                                ![s].returnTo = None]
            /\ UNCHANGED credits
         \/ /\ OpenFlags(s) = {f}
            /\ submission[s].returnTo = None
            /\ RouteRecordedSubmission(r, s)
  BY <1>1, <1>2 DEF CommitDismissFlag
<1>5. /\ f \in OpenFlags(s)
      /\ OpenFlags(s)' = OpenFlags(s) \ {f}
      /\ \A t \in Submissions \ {s} : OpenFlags(t)' = OpenFlags(t)
  <2>1. \A g \in Flags : /\ g # f => flag'[g] = flag[g]
                         /\ g = f => flag'[g].resolution = "DISMISSED"
    BY <1>3, <1>4 DEF FlagRow
  <2> QED
    BY <1>2, <1>3, <2>1 DEF OpenFlags
<1>6. CASE OpenFlags(s) # {f} /\ UNCHANGED <<submission, credits>>
  <2>1. Concern' = Concern
    BY <1>5, <1>6 DEF Concern
  <2>2. Phase' = Phase /\ Granted' = Granted
    BY <1>6 DEF Phase, Granted
  <2> QED
    BY <2>1, <2>2, Unseen DEF PromiseStep
<1>7. CASE OpenFlags(s) = {f}
  <2>1. Concern' = Concern \ {s}
    <3>1. OpenFlags(s)' = {}
      BY <1>5, <1>7
    <3> QED
      BY <1>5, <3>1, DecidingClears
  <2>2. CASE submission[s].returnTo = None /\ RouteRecordedSubmission(r, s)
    <3>1. AwaitsRouting(s)
      BY <1>3, <2>2 DEF AwaitsRouting
    <3>2. OnlyPhaseOf(s) /\ submission'[s].status \in {"AWAITING_PAYMENT", "PAID"}
      BY <1>0, <2>2, <3>1, RoutingPhase
    <3>3. \/ SP!Moves(s, "FLAG_REVIEW", "AWAITING_PAYMENT")
          \/ SP!Moves(s, "FLAG_REVIEW", "PAID")
      BY <1>3, <3>2, PhaseMoves
    <3>4. Granted' = Granted
      BY <1>0, <2>2, <3>1, RoutingRedeems, GrantedStays
    <3>5. SP!Clear(s)
      BY <2>1, <3>3, <3>4 DEF SP!Clear, Concern, Granted
    <3> QED
      BY <3>5 DEF PromiseStep, SP!PromiseNext
  <2>3. CASE /\ submission[s].returnTo # None
             /\ submission' = [submission EXCEPT ![s].status = submission[s].returnTo,
                                                 ![s].returnTo = None]
             /\ UNCHANGED credits
    <3>1. submission[s].returnTo = "SCORING"
      BY <1>3, <2>3 DEF SubmissionRow
    <3>2. OnlyPhaseOf(s) /\ submission'[s].status = "SCORING"
      BY <1>3, <2>3, <3>1 DEF OnlyPhaseOf, SubmissionRow
    <3>3. SP!Moves(s, "FLAG_REVIEW", "SCORING")
      BY <1>3, <3>2, PhaseMoves
    <3>4. SP!Clear(s)
      BY <2>1, <2>3, <3>3 DEF SP!Clear, Concern
    <3> QED
      BY <3>4 DEF PromiseStep, SP!PromiseNext
  <2> QED
    BY <1>4, <1>7, <2>2, <2>3
<1> QED
  BY <1>4, <1>6, <1>7

LEMMA FlagReviewKeepsPromise ==
  ASSUME CreditInv, FlagReviewNext
  PROVE  PromiseStep
<1> USE DEF accountVars, flagVars, payVars
<1>0. TypeInv /\ submission \in [Submissions -> SubmissionRow]
  BY DEF CreditInv, FlagInv, TypeInv, TypeOK
<1>1. ASSUME NEW s \in Submissions, NEW f \in Flags, RaiseDeviceFlag(s, f)
      PROVE  PromiseStep
  <2>1. Concern' = Concern \cup {s}
    BY <1>0, <1>1, RaisingConcerns DEF RaiseDeviceFlag
  <2>2. SP!Doubt(s)
    BY <1>1, <2>1 DEF RaiseDeviceFlag, SP!Doubt, Concern
  <2> QED
    BY <2>2 DEF PromiseStep, SP!PromiseNext
<1>2. ASSUME NEW a \in Assignments, NEW f \in Flags, RaiseIntegrityConcern(a, f)
      PROVE  PromiseStep
  <2>1. PICK s \in Submissions : s = a[1]
    BY Peers
  <2>2. /\ CreateFlag(f, s, "EXAMINER")
        /\ submission[s].status \in {"SCORING", "FLAG_REVIEW"}
        /\ submission' = IF submission[s].status = "SCORING"
                           THEN [submission EXCEPT ![s].status = "FLAG_REVIEW",
                                                   ![s].returnTo = "SCORING"]
                           ELSE submission
        /\ UNCHANGED credits
    BY <1>2, <2>1 DEF RaiseIntegrityConcern
  <2>3. Concern' = Concern \cup {s}
    BY <1>0, <2>2, RaisingConcerns
  <2>4. \/ SP!Moves(s, "SCORING", "FLAG_REVIEW")
        \/ submission[s].status = "FLAG_REVIEW" /\ UNCHANGED submission
    <3>1. CASE submission[s].status = "SCORING"
      <4>1. OnlyPhaseOf(s) /\ submission'[s].status = "FLAG_REVIEW"
        BY <1>0, <2>2, <3>1 DEF OnlyPhaseOf, SubmissionRow
      <4> QED
        BY <3>1, <4>1, PhaseMoves
    <3>2. CASE submission[s].status # "SCORING"
      BY <2>2, <3>2
    <3> QED
      BY <3>1, <3>2
  <2>5. SP!Doubt(s)
    BY <2>2, <2>3, <2>4 DEF SP!Doubt, Concern
  <2> QED
    BY <2>5 DEF PromiseStep, SP!PromiseNext
<1>3. ASSUME UNCHANGED <<submission, flag, credits>>
      PROVE  PromiseStep
  BY <1>3, Unseen DEF Phase, Concern, OpenFlags, Granted, PromiseStep
<1> QED
  BY <1>1, <1>2, <1>3, ConfirmKeepsPromise, DismissKeepsPromise
     DEF FlagReviewNext, BeginConfirmFlag, BeginDismissFlag, CheckDismissingAdmin

\* A Submission that stops waiting for payment settles; nothing else is seen.
LEMMA PaymentsKeepPromise ==
  ASSUME TypeInv, PaymentsNext
  PROVE  PromiseStep
<1> USE DEF accountVars, flagVars, payVars, payFrame
<1>0. /\ TypeOK
      /\ submission \in [Submissions -> SubmissionRow]
      /\ "PAID" \in Status
  BY DEF TypeInv, TypeOK, Status
<1>1. UNCHANGED <<flag, credits>>
  BY DEF PaymentsNext, CreateIpaymuCheckout, CheckoutReturns, CheckoutRejected, NotifyFailed,
         NotifySuccess, ProviderAnswers, ProviderCollects, BeginWaiveSubmissionPayment,
         CommitWaiveSubmissionPayment, UpdatePaymentEnabled
<1>2. Concern' = Concern /\ Granted' = Granted
  BY <1>1 DEF Concern, OpenFlags, Granted
<1>3. ASSUME NEW s \in Submissions, submission[s].status = "AWAITING_PAYMENT",
             OnlyPhaseOf(s), submission'[s].status = "PAID"
      PROVE  PromiseStep
  <2>1. SP!Moves(s, "AWAITING_PAYMENT", "PAID")
    BY <1>3, PhaseMoves
  <2>2. SP!Settle(s)
    BY <1>2, <2>1 DEF SP!Settle, Concern, Granted
  <2> QED
    BY <2>2 DEF PromiseStep, SP!PromiseNext
<1>4. CASE UNCHANGED submission
  BY <1>2, <1>4, Unseen DEF Phase, PromiseStep
<1>5. ASSUME NEW p \in Payments, NotifySuccess(p)
      PROVE  PromiseStep
  <2>1. CASE /\ payment[p].submission \in Submissions
             /\ submission[payment[p].submission].status = "AWAITING_PAYMENT"
    <3>1. PICK s \in Submissions : s = payment[p].submission
      BY <2>1
    <3>2. submission' = [submission EXCEPT ![s].status = "PAID"]
      BY <1>5, <2>1, <3>1 DEF NotifySuccess
    <3>3. OnlyPhaseOf(s) /\ submission'[s].status = "PAID"
      BY <1>0, <3>2, StatusReplaced DEF OnlyPhaseOf
    <3> QED
      BY <1>3, <2>1, <3>1, <3>3
  <2>2. CASE payment[p].submission \notin Submissions
    <3>1. \A s \in Submissions : submission'[s].status = submission[s].status
      BY <1>0, <1>5, <2>2 DEF NotifySuccess
    <3> QED
      BY <1>2, <3>1, NothingMoves, Unseen DEF PromiseStep
  <2>3. CASE submission[payment[p].submission].status # "AWAITING_PAYMENT"
    BY <1>4, <1>5, <2>3 DEF NotifySuccess
  <2> QED
    BY <2>1, <2>2, <2>3
<1>6. ASSUME NEW r \in Requests, CommitWaiveSubmissionPayment(r)
      PROVE  PromiseStep
  <2>1. PICK s \in Submissions : s = request[r].target
    BY <1>0, <1>6, RequestFields DEF CommitWaiveSubmissionPayment
  <2>2. /\ submission[s].status = "AWAITING_PAYMENT"
        /\ submission' = [submission EXCEPT ![s].paymentRequired = FALSE, ![s].status = "PAID"]
    BY <1>6, <2>1 DEF CommitWaiveSubmissionPayment
  <2>3. OnlyPhaseOf(s) /\ submission'[s].status = "PAID"
    BY <1>0, <2>2 DEF OnlyPhaseOf, SubmissionRow
  <2> QED
    BY <1>3, <2>2, <2>3
<1> QED
  BY <1>4, <1>5, <1>6
     DEF PaymentsNext, CreateIpaymuCheckout, CheckoutReturns, CheckoutRejected, NotifyFailed,
         ProviderAnswers, ProviderCollects, BeginWaiveSubmissionPayment, UpdatePaymentEnabled

LEMMA ExaminingKeepsPromise ==
  ASSUME TypeInv, ExaminingNext
  PROVE  PromiseStep
<1> USE DEF accountVars, flagVars, examFrame
<1>0. /\ submission \in [Submissions -> SubmissionRow]
      /\ TypeOK
      /\ {"SCORING", "SCORED"} \subseteq Status
  BY DEF TypeInv, TypeOK, Status
<1>1. UNCHANGED <<flag, credits>>
  BY DEF ExaminingNext, CreateExaminerAssignmentSet, StartExaminerAssignment,
         SaveExaminerScore, CompleteExaminerScoring, ReassignExaminerAssignment
<1>2. Concern' = Concern /\ Granted' = Granted
  BY <1>1 DEF Concern, OpenFlags, Granted
<1>3. ASSUME NEW s \in Submissions, NEW e1 \in Users, NEW e2 \in Users,
             CreateExaminerAssignmentSet(s, e1, e2)
      PROVE  PromiseStep
  <2>1. /\ submission[s].status = "PAID"
        /\ OpenFlags(s) = {}
        /\ submission' = [submission EXCEPT ![s].status = "SCORING"]
    BY <1>3 DEF CreateExaminerAssignmentSet
  <2>2. OnlyPhaseOf(s) /\ submission'[s].status = "SCORING"
    BY <1>0, <2>1, StatusReplaced DEF OnlyPhaseOf
  <2>3. SP!Moves(s, "PAID", "SCORING")
    BY <2>1, <2>2, PhaseMoves
  <2>4. SP!Claim(s)
    BY <1>2, <2>1, <2>3 DEF SP!Claim, Concern, Granted
  <2> QED
    BY <2>4 DEF PromiseStep, SP!PromiseNext
<1>4. CASE UNCHANGED submission
  BY <1>2, <1>4, Unseen DEF Phase, PromiseStep
<1>5. ASSUME NEW a \in Assignments, CompleteExaminerScoring(a)
      PROVE  PromiseStep
  <2>1. PICK s \in Submissions : s = a[1]
    BY Peers
  <2>2. CASE submission' = [submission EXCEPT ![s].status = "SCORED"]
    <3>1. submission[s].status = "SCORING" /\ OpenFlags(s) = {}
      BY <1>5, <2>1 DEF CompleteExaminerScoring, IsScorable, IsScoringLifecycle
    <3>2. OnlyPhaseOf(s) /\ submission'[s].status = "SCORED"
      BY <1>0, <2>2, StatusReplaced DEF OnlyPhaseOf
    <3>3. SP!Moves(s, "SCORING", "SCORED")
      BY <3>1, <3>2, PhaseMoves
    <3>4. SP!Score(s)
      BY <1>2, <3>1, <3>3 DEF SP!Score, Concern, Granted
    <3> QED
      BY <3>4 DEF PromiseStep, SP!PromiseNext
  <2> QED
    BY <1>4, <1>5, <2>1, <2>2 DEF CompleteExaminerScoring
<1> QED
  BY <1>3, <1>4, <1>5
     DEF ExaminingNext, StartExaminerAssignment, SaveExaminerScore, ReassignExaminerAssignment

\* Every step of every component is a step of the promise, or one it does not see.
LEMMA StepsKeepPromise ==
  ASSUME CreditInv, [Next]_vars
  PROVE  PromiseStep
<1>0. TypeInv
  BY DEF CreditInv, FlagInv
<1>1. CASE UNCHANGED <<submission, flag, credits>>
  BY <1>1, Unseen DEF Phase, Concern, OpenFlags, Granted, PromiseStep
<1>2. AccountsNext => UNCHANGED <<submission, flag, credits>>
  BY DEF AccountsNext, TransitionAccountRole, DeactivateAccount, Transition, accountFrame,
         flagVars
<1>3. (\E r \in Requests : RequestEnds(r)) => UNCHANGED <<submission, flag, credits>>
  BY DEF RequestEnds, flagVars
<1>4. UNCHANGED vars => UNCHANGED <<submission, flag, credits>>
  BY DEF vars
<1> QED
  BY <1>0, <1>1, <1>2, <1>3, <1>4, RecordingKeepsPromise, FlagReviewKeepsPromise,
     PaymentsKeepPromise, ExaminingKeepsPromise DEF Next

\* The components together implement the promise: phases in their order, stopped
\* by a concern, ended by one void that grants one credit.
THEOREM LifecycleKeepsPromise == Spec => KeepsThePromise
<1>1. Init => SP!PromiseInit
  BY DEF Init, SP!PromiseInit, OpenFlags
<1>2. CreditInv /\ [Next]_vars => [SP!PromiseNext]_(SP!promiseVars)
  BY StepsKeepPromise DEF PromiseStep
<1> QED
  BY <1>1, <1>2, CreditInductive, PTL DEF Spec, KeepsThePromise, SP!Promise
=============================================================================
