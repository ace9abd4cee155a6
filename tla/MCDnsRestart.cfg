CONSTANTS
  Clients = {c1, c2}
  Keys = {"k1", "k2"}
  Ports = {1, 2}
  Threshold = 2
  MaxInflight = 2
SPECIFICATION Spec
INVARIANTS RestartNotCounted
