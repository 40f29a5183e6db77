SPECIFICATION Spec
CONSTANTS
  u1 = u1
  u2 = u2
  e1 = e1
  pw1 = pw1
  pw2 = pw2
  i1 = i1
  w1 = w1
  w2 = w2
  reviewer = reviewer
  NULL = NULL
  User = {u1, u2}
  Member = {u1}
  MemberEmail <- OneEmail
  Email = {e1}
  Password = {pw1, pw2}
  Role = {reviewer}
  Identity = {i1}
  IdentityEmail <- OneIdentityEmail
  Request = {w1, w2}
  Operation = {"register", "login", "refresh", "logout", "reset", "profile", "role", "delete", "challenge", "verify", "oauth"}
  MaxSession = 3
  MaxChallenge = 1
  MaxAttempt = 1
  MaxTries = 2
  MaxRequest = 4
INVARIANTS
  AccountsTypeOK
  ProofSpentOncePerVerification
  DeletedNeverRefreshes
PROPERTIES
  ImplementsSignIns

CHECK_DEADLOCK FALSE
