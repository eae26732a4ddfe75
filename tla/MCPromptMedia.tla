---------------------------- MODULE MCPromptMedia ----------------------------
(***************************************************************************)
(* Instances of PromptMedia for TLC.                                       *)
(***************************************************************************)
EXTENDS PromptMedia, TLC

\* All Questions of an instance compete for one position.
MCPositionOf == [q \in Questions |-> "position"]

\* Nothing tells these ids apart.  Used for safety only.
PromptSymmetry ==
  Permutations(Questions) \cup Permutations(Submissions) \cup Permutations(Workers)
    \cup Permutations(Requests)
=============================================================================
