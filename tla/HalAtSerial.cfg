CONSTANTS
  Pending = {p1, p2, p3}
  Requests <- OrdinaryRequests
  Mode = "AT"
  Outcomes = {"SUCCESS"}
  CallFrom = {"loop", "send", "resp", "timeout"}
  Commands = {}
  Duplicates = FALSE
  Losses = FALSE
  None = None
  Cancelled = Cancelled
SPECIFICATION AnsweredSpec
INVARIANTS AtInv
PROPERTIES ImplementsSerialChannel Completes
