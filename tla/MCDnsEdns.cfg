CONSTANTS
  Labels <- MCLabels
  Sizes = {0, 512, 1232, 4096, 65535}
  Others = {1, 28}
SPECIFICATION Spec
INVARIANTS LimitIsDeclared
