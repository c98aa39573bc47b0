CONSTANTS
  Objects = {o1, o2}
  Hals = {h1, h2, c}
  AtHals = {h1, h2}
  Cbs = {k1, k2, k3}
  Events <- SomeEvents
  Careful = TRUE
  None = None
  AtRequests <- SomeAtRequests
  MaxLines = 2
  MaxEvents = 2
SPECIFICATION MCSpec
SYMMETRY Symm
INVARIANTS Attached Registered ResponseSorted EventsSorted
PROPERTIES Delivered
