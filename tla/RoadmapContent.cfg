\* Directories, roadmaps, uploads and comments, each in its own workload.
SPECIFICATION ContentSpec
CONSTANTS
  author = author
  reader = reader
  r1 = r1
  r2 = r2
  d1 = d1
  d2 = d2
  d3 = d3
  w1 = w1
  w2 = w2
  a1 = a1
  c1 = c1
  c2 = c2
  NULL = NULL
  Root = Root
  User = {author, reader}
  Owner <- OwnerEach
  Librarian = author
  Roadmap = {r1, r2}
  Directory = {d1, d2, d3}
  Request = {w1, w2}
  MaxDepth = 3
  Workload <- Workloads
  Asset = {a1}
  Comment = {c1, c2}
  Toggle = {"follows", "comments", "replies"}
SYMMETRY ContentSymmetry
INVARIANTS
  ContentTypeOK
  ForestUnlessRaced
  CountsUnlessOverwritten
  ReadyHasObject
  EachIsToldOnce
CHECK_DEADLOCK FALSE
