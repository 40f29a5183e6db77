SPECIFICATION FairSpec
CONSTANTS
  s1 = s1
  s2 = s2
  a1 = a1
  a2 = a2
  NULL = NULL
  SignIn = {s1, s2}
  Account = {a1, a2}
  AccountOf <- AccountEach
  MaxRound = 2
  MaxEnding = 1
  MaxReload = 1
INVARIANTS
  WebTypeOK
  SignedOutStays
  ReadyMeansMe
PROPERTIES
  EndingReleases
