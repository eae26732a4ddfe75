\* A failed take and a good one of the same entry, uploaded by two pages.
\* A completed or abandoned Submission may stop.
CONSTANTS
  N = 1
  Pages = {p1,p2}
  Requests = {r1, r2}
  MaxKeys = 2
  Ends = {"good", "cut"}
  Together = {1}
SPECIFICATION Spec
SYMMETRY SessionSymmetry
INVARIANTS
  FailedTakeIsFlagged
CHECK_DEADLOCK FALSE
