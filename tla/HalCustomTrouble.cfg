CONSTANTS
  Pending = {p1, p2, p3}
  Requests <- CommandRequests
  Mode = "CUSTOM"
  Outcomes = {"SUCCESS", "FAIL"}
  CallFrom = {"loop", "resp"}
  Commands = {"c1", "c2"}
  Duplicates = FALSE
  Losses = TRUE
  None = None
  Cancelled = Cancelled
SPECIFICATION Spec
SYMMETRY Symm
INVARIANTS OrdinaryInOrder NoUseAfterFree NoLeak
