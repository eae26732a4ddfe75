\* Two callbacks of one or two Google identities, which may share one of three
\* addresses, beside local registrations and an account from before.
\* Once all callbacks are answered the system may stop.
CONSTANTS
  None = None
  alice = alice
  bob = bob
  gmail = gmail
  other = other
  Accounts = {a1, a2, a3, a4}
  Passwordless = {a1}
  Subjects = {alice, bob}
  Emails = {gmail, other, third}
  Authoritative <- MCAuthoritative
  Names = {1, 2, 3}
  States = {t1, t2}
  Callbacks = {c1, c2}
  MaxAttempts = 2
SPECIFICATION Spec
VIEW View
SYMMETRY SignInSymmetry
INVARIANTS
  OneAccountPerIdentity
  StateSignsInOnce
PROPERTIES
  ConflictIsReal
CHECK_DEADLOCK FALSE
