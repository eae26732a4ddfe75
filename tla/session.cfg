\* Two pages record and upload the Answers of two entries.
\* A completed or abandoned Submission may stop.
CONSTANTS
  N = 2
  Pages = {p1,p2}
  Requests = {r1, r2}
  MaxKeys = 2
  Ends = {"good", "cut"}
  Together = {1}
SPECIFICATION Spec
SYMMETRY SessionSymmetry
INVARIANTS
  VerifiedIsStored
  OneFlagPerFailure
  TakeIsOfItsEntry
  TakeIsNeverLost
  FailureIsReported
PROPERTIES
  EvidenceIsFinal
CHECK_DEADLOCK FALSE
