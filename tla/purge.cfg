\* One Submission, two takes, one request, two finalizations at once, one hold.
\* A purged Submission does nothing more: the system may stop.
CONSTANTS
  None = None
  Admins = {a1, a2}
  Submissions = {s1}
  Objects = {o1, o2}
  Purges = {p1}
  Workers = {w1, w2}
  Holds = {h1}
  First = s1
  Shared = {}
  KeyOf <- MCKeyOf
  LegacyMedia <- MCLegacyMedia
SPECIFICATION Spec
SYMMETRY PurgeSymmetry
INVARIANTS
  RetainedIsIntact
  ErasureIsAuthorised
  NothingCapturedIsLeft
  PurgeSparesPayment
PROPERTIES
  HoldStopsDeletion
  EndedStays
CHECK_DEADLOCK FALSE
