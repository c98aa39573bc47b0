CONSTANTS
  ObjectNames <- SomeNames
  Owner <- SomeOwner
  Early = {"a"}
  Plugs <- SomePlugs
  Payloads <- SomePayloads
  Flips = {1, 4, 16}
  Reads = {1, 2, 3, 4, 5, 6, 7, 8, 9, 135, 136}
  MaxSessions = 2
  MaxEvents = 2
SPECIFICATION Spec
INVARIANTS Delivered OnlyWhatWasSaid UpMeansAnswered NothingFreedInUse CallbacksFollow
PROPERTIES ComesUp
CHECK_DEADLOCK FALSE
