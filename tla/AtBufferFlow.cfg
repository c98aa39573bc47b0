CONSTANTS
  Size = 4
  Chunks <- SomeChunks
  MaxUnread = 4
  Requests = {"plain", "body"}
  StrayPrompts = FALSE
SPECIFICATION Spec
INVARIANTS Terminated
PROPERTIES ImplementsByteStream
