\* Two Admins, who also examine, and the student are demoted, promoted and
\* deactivated while the assignments of one Submission are made, begun, paused and
\* reassigned.
CONSTANTS
  None = None
  Users = {u1, e1, e2, e3, a1, a2}
  Admins = {a1, a2}
  Examiners = {e1, e2, e3}
  Submissions = {s1}
  Flags = {f1}
  Payments = {}
  Requests = {r1}
  Marks = {m1}
  Movable = {u1, a1, a2}
  SettingValues = {FALSE}
  InitialRole <- MCInitialRole
SPECIFICATION Spec
VIEW View
SYMMETRY ExaminerSymmetry
INVARIANTS
  ExaminersAreIndependent
  OpenWorkHasCapableExaminer
PROPERTIES
  BegunWorkStays
