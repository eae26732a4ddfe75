\* One Submission from its recording to its score, with three flags and two
\* requests in flight.  Every step is one the promise allows.
CONSTANTS
  None = None
  Users = {u1, e1, e2, e3, a1}
  Admins = {a1}
  Examiners = {e1, e2, e3}
  Submissions = {s1}
  Flags = {f1, f2, f3}
  Payments = {p1}
  Requests = {r1, r2}
  Marks = {m1, m2}
  Movable = {}
  SettingValues = {TRUE}
  InitialRole <- MCInitialRole
SPECIFICATION Spec
VIEW View
SYMMETRY ExaminerSymmetry
INVARIANTS
  ScoredByBoth
PROPERTIES
  KeepsThePromise
  CompletedIsFrozen
  FlagPausesScoring
