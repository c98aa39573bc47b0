CONSTANTS
  Lists = {"request", "notification", "recv"}
  Functions = {f1, f2}
  Commands <- SomeCommands
  MaxHooks = 2
  Plugins = {"p", "q"}
  Priority <- SomePriority
  Objects = {"m1", "m2"}
  Category <- SomeCategory
  Provided <- SomeProvided
  Requests = {r}
SPECIFICATION Spec
INVARIANTS TypeOK HoldersCounted CalledIsHooked
PROPERTIES EveryHookAsked EveryRequestEnds
