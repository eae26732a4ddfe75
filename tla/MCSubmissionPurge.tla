------------------------- MODULE MCSubmissionPurge -------------------------
(***************************************************************************)
(* Instances of SubmissionPurge for TLC.                                   *)
(***************************************************************************)
EXTENDS SubmissionPurge, TLC

CONSTANTS First, Shared   \* the Submission takes are made for; the keys all refer to

MCKeyOf == [o \in Objects |-> First]

\* Rows from before keys were unique to a take: every Submission refers to the
\* shared keys.
MCLegacyMedia == [s \in Submissions |-> Shared]

\* Nothing tells these ids apart.  Used for safety only.
PurgeSymmetry ==
  Permutations(Admins) \cup Permutations(Workers) \cup Permutations(Purges)
    \cup Permutations(Objects \ Shared) \cup Permutations(Holds)
=============================================================================
