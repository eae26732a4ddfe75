\* Two tabs of one student start, retry and supersede while an Admin changes the
\* Questions of one Test Set and its replacement.
\* Once the pool of Submissions is used up the system may stop.
CONSTANTS
  None = None
  Students = {u1}
  Submissions = {s1, s2}
  Questions = {q1, q2}
  Slots = {1, 2}
  TestSets = {1, 2}
  Keys = {k1, k2}
  Requests = {r1, r2}
  FirstOf = {q1}
  Spare = {}
  MaxChanges = 2
  SlotOf <- MCSlotOf
  HomeOf <- MCHomeOf
SPECIFICATION Spec
SYMMETRY StartSymmetry
INVARIANTS
  ManifestWasTheBank
  ReplacedWasStale
  OneAttemptAtATime
PROPERTIES
  KeyKeepsItsAttempt
CHECK_DEADLOCK FALSE
