CONSTANTS
  Pending = {p1, p2}
  Requests <- OrdinaryRequests
  Mode = "AT"
  Outcomes = {"SUCCESS"}
  CallFrom = {"loop"}
  Commands = {}
  Duplicates = FALSE
  Losses = TRUE
  None = None
  Cancelled = Cancelled
SPECIFICATION FairSpec
PROPERTIES TimeoutReleases
