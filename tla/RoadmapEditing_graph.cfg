SPECIFICATION Spec
CONSTANTS
  d1 = d1
  d2 = d2
  a = a
  b = b
  NULL = NULL
  Document = {d1, d2}
  Title = {a, b}
  Page = 1
  Attempts = 2
  MaxEdit = 2
  MaxSocket = 2
INVARIANT GraphStaysValid
SYMMETRY Symmetry
CHECK_DEADLOCK FALSE
