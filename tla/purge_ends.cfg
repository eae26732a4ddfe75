\* Two finalizations that are repeated until the purge of one take has ended.
\* A purged Submission does nothing more: the system may stop.
CONSTANTS
  None = None
  Admins = {a1, a2}
  Submissions = {s1}
  Objects = {o1}
  Purges = {p1}
  Workers = {w1, w2}
  Holds = {}
  First = s1
  Shared = {o1}
  KeyOf <- MCKeyOf
  LegacyMedia <- MCLegacyMedia
SPECIFICATION OperatedSpec
PROPERTIES
  PurgeEnds
CHECK_DEADLOCK FALSE
