CONSTANTS
  Contexts = {c1, c2, c3}
  Apns = {x, y}
  MaxCid = 4
  ClearsShared = FALSE
SPECIFICATION Spec
PROPERTIES OneConnection
