---------------------------- MODULE MCAnswerSession ----------------------------
(***************************************************************************)
(* Instances of AnswerSession for TLC.                                     *)
(***************************************************************************)
EXTENDS AnswerSession, TLC

\* Nothing tells pages, or request slots, apart.  Used for safety only.
SessionSymmetry == Permutations(Pages) \cup Permutations(Requests)
=============================================================================
