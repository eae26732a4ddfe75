\* What happens without anybody's help: the sweeper and the provider's repeated
\* notifications are fair, nothing else is.
CONSTANTS
  None = None
  Users = {u1, a1}
  Admins = {a1}
  Examiners = {}
  Submissions = {s1, s2}
  Flags = {f1}
  Payments = {p1}
  Requests = {r1}
  Marks = {}
  Movable = {}
  SettingValues = {TRUE}
  InitialRole <- MCInitialRole
SPECIFICATION FairSpec
PROPERTIES
  LeftAssessmentEnds
  CollectedIsRecorded
