-------------------------- MODULE SubmissionPromise --------------------------
(***************************************************************************)
(* What FluentCheck promises about each Submission, without saying how: in *)
(* which order its phases follow each other, that a concern (an open flag) *)
(* stops it, and that a void is final and grants one retake credit.  Rows, *)
(* requests, payments and Examiners do not appear.                         *)
(***************************************************************************)
CONSTANT Submissions

VARIABLES
  phase,     \* where the Submission is
  concern,   \* the Submissions a concern about which is undecided
  granted    \* the Submissions whose void granted a retake credit

promiseVars == <<phase, concern, granted>>

PromiseInit ==
  /\ phase = [s \in Submissions |-> "NONE"]
  /\ concern = {}
  /\ granted = {}

Moves(s, from, to) == phase[s] = from /\ phase' = [phase EXCEPT ![s] = to]

\* A start may end other attempts of the same student.
Start(s) ==
  /\ phase[s] = "NONE"
  /\ \E ended \in SUBSET {t \in Submissions : phase[t] = "IN_PROGRESS"} :
       phase' = [t \in Submissions |-> IF t = s THEN "IN_PROGRESS"
                                       ELSE IF t \in ended THEN "ABANDONED"
                                       ELSE phase[t]]
  /\ UNCHANGED <<concern, granted>>

Abandon ==
  /\ \E ended \in (SUBSET {t \in Submissions : phase[t] = "IN_PROGRESS"}) \ {{}} :
       phase' = [t \in Submissions |-> IF t \in ended THEN "ABANDONED" ELSE phase[t]]
  /\ UNCHANGED <<concern, granted>>

\* While recording a concern waits; while scoring it stops the Examiners.
Doubt(s) ==
  /\ \/ phase[s] = "IN_PROGRESS" /\ UNCHANGED phase
     \/ phase[s] = "FLAG_REVIEW" /\ UNCHANGED phase
     \/ Moves(s, "SCORING", "FLAG_REVIEW")
  /\ concern' = concern \cup {s}
  /\ UNCHANGED granted

Complete(s) ==
  /\ \/ s \in concern /\ Moves(s, "IN_PROGRESS", "FLAG_REVIEW")
     \/ s \notin concern /\ \/ Moves(s, "IN_PROGRESS", "AWAITING_PAYMENT")
                            \/ Moves(s, "IN_PROGRESS", "PAID")
  /\ UNCHANGED <<concern, granted>>

\* Dismissed: back to scoring, or on to payment for one that never was scored.
Clear(s) ==
  /\ \/ Moves(s, "FLAG_REVIEW", "SCORING")
     \/ Moves(s, "FLAG_REVIEW", "AWAITING_PAYMENT")
     \/ Moves(s, "FLAG_REVIEW", "PAID")
  /\ concern' = concern \ {s}
  /\ UNCHANGED granted

Void(s) ==
  /\ Moves(s, "FLAG_REVIEW", "VOIDED")
  /\ s \notin granted
  /\ concern' = concern \ {s}
  /\ granted' = granted \cup {s}

Settle(s) == Moves(s, "AWAITING_PAYMENT", "PAID") /\ UNCHANGED <<concern, granted>>

Claim(s) ==
  /\ s \notin concern
  /\ Moves(s, "PAID", "SCORING")
  /\ UNCHANGED <<concern, granted>>

Score(s) ==
  /\ s \notin concern
  /\ Moves(s, "SCORING", "SCORED")
  /\ UNCHANGED <<concern, granted>>

PromiseNext ==
  \/ Abandon
  \/ \E s \in Submissions :
       \/ Start(s)
       \/ Doubt(s)
       \/ Complete(s)
       \/ Clear(s)
       \/ Void(s)
       \/ Settle(s)
       \/ Claim(s)
       \/ Score(s)

Promise == PromiseInit /\ [][PromiseNext]_promiseVars
=============================================================================
