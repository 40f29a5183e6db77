SPECIFICATION Spec
CONSTANTS
  u1 = u1
  u2 = u2
  r1 = r1
  r2 = r2
  a1 = a1
  a2 = a2
  w1 = w1
  w2 = w2
  NULL = NULL
  User = {u1, u2}
  Repository = {r1}
  Attempt = {a1, a2}
  Request = {w1, w2}
  MaxEvent = 3
  MaxCommand = 3
INVARIANTS
  InstallationTypeOK
  CreditIsGranted
  AccessUnlessOvertaken
  ReconciledMeansListed
  OwnerIsLinked
SYMMETRY InstallationSymmetry
CHECK_DEADLOCK FALSE
