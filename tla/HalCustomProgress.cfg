CONSTANTS
  Pending = {p1, p2, p3}
  Requests <- TimedRequests
  Mode = "CUSTOM"
  Outcomes = {"SUCCESS"}
  CallFrom = {"loop", "send", "resp"}
  Commands = {}
  Duplicates = FALSE
  Losses = FALSE
  None = None
  Cancelled = Cancelled
SPECIFICATION FairSpec
INVARIANTS NoStall
PROPERTIES Completes
