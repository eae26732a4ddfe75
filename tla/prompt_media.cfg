\* One Question, for Questions share no key, and up to three cleanup runs, two
\* Submissions and two confirmations at its audio.
\* Every object may be dealt with for good: the system may stop.
CONSTANTS
  None = None
  Questions = {q1}
  Submissions = {s1, s2}
  Workers = {w1, w2, w3}
  Requests = {r1, r2}
  PositionOf <- MCPositionOf
SPECIFICATION Spec
SYMMETRY PromptSymmetry
INVARIANTS
  KeptWhileProtected
  DeletedIsUnused
PROPERTIES
  FinalStays
CHECK_DEADLOCK FALSE
