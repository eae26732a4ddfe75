\* Two payment attempts for one or two Submissions, crossed by device flags,
\* review, a waiver and the payment setting.
CONSTANTS
  None = None
  Users = {u1, a1}
  Admins = {a1}
  Examiners = {}
  Submissions = {s1, s2}
  Flags = {f1}
  Payments = {p1, p2}
  Requests = {r1, r2}
  Marks = {}
  Movable = {}
  SettingValues = {TRUE, FALSE}
  InitialRole <- MCInitialRole
SPECIFICATION Spec
VIEW View
SYMMETRY RowSymmetry
INVARIANTS
  ServedIsSettled
  DeviceVoidIsNeverCharged
PROPERTIES
  SettledStays
