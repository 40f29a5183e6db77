\* The owner refreshes and submits again while a reviewer reads.
SPECIFICATION DeskSpec
CONSTANTS
  m1 = m1
  m2 = m2
  p1 = p1
  p2 = p2
  r1 = r1
  r2 = r2
  h1 = h1
  h2 = h2
  c1 = c1
  human = human
  owner = owner
  reviewer = reviewer
  w1 = w1
  w2 = w2
  NULL = NULL
  HumanCheck = human
  Owner = owner
  RepositoryOf <- OneRepository
  Repository = {r1}
  Mission = {m1}
  Pull = {p1}
  Head = {h1, h2}
  Check = {c1}
  User = {owner, reviewer}
  Request = {w1}
  CriteriaInput <- OneInput
  Operation = {"refresh"}
  MaxCriteriaVersion = 2
  MaxBindingVersion = 1
  MaxEvents = 1
  Lease = 1
PROPERTIES
  DecisionOnSeenRun
