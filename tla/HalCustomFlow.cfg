CONSTANTS
  Pending = {p1, p2, p3}
  Requests <- AllRequests
  Mode = "CUSTOM"
  Outcomes = {"SUCCESS", "HOOK_STOP"}
  CallFrom = {"loop", "send", "resp", "timeout"}
  Commands = {}
  Duplicates = TRUE
  Losses = FALSE
  None = None
  Cancelled = Cancelled
SPECIFICATION Spec
SYMMETRY Symm
INVARIANTS CoreInv AnswerMatches NoUseAfterFree
PROPERTIES AnswerOnce
