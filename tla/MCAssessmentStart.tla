-------------------------- MODULE MCAssessmentStart --------------------------
(***************************************************************************)
(* Instances of AssessmentStart for TLC.                                   *)
(***************************************************************************)
EXTENDS AssessmentStart, TLC

CONSTANTS
  FirstOf,   \* the Questions of the first Delivery slot; the others are in the second
  Spare      \* the Questions that start in the second Test Set

MCSlotOf == [q \in Questions |-> IF q \in FirstOf THEN 1 ELSE 2]
MCHomeOf == [q \in Questions |-> IF q \in Spare THEN 2 ELSE 1]

\* Nothing tells these ids apart.  Used for safety only.
StartSymmetry ==
  Permutations(Submissions) \cup Permutations(Keys) \cup Permutations(Requests)
    \cup Permutations(Students)
=============================================================================
