CONSTANTS
  Nodes = {n1, n2}
  NoNode = NoNode
  Background = background
  Appliers = {}
  Users = {u1}
  Binders = {b1}
  Modes = {"manual", "leastping", "stable"}
  Slowest = 2
  Threshold = 1
  WithPatrol = FALSE
  WithEdits = FALSE
  WithReload = FALSE
  NoActor = NoActor
SPECIFICATION Spec
SYMMETRY Symmetry
PROPERTY BindingKept
