\* Three attempts of one student: device flags, the sweeper and an Admin's review
\* cross; voids grant credits that later attempts redeem.  Payment stays on.
CONSTANTS
  None = None
  Users = {u1, a1}
  Admins = {a1}
  Examiners = {}
  Submissions = {s1, s2, s3}
  Flags = {f1, f2, f3}
  Payments = {}
  Requests = {r1, r2}
  Marks = {}
  Movable = {}
  SettingValues = {TRUE}
  InitialRole <- MCInitialRole
SPECIFICATION Spec
VIEW View
SYMMETRY RowSymmetry
INVARIANTS
  OpenFlagStopsTheFlow
  VoidGrantsOneCredit
  RedemptionPaysForOne
PROPERTIES
  CreditIsSpentOnce
