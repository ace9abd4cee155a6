CONSTANTS
  Names = {a, b, c}
  Nodes = {n1, n2, n3}
  NoNode = NoNode
  Direct = direct
  NoFront = NoFront
SPECIFICATION MCSpec
SYMMETRY Symmetry
INVARIANTS TypeOK AcyclicDetours DetoursEmitted FrontDroppedOnlyOnCycle
INVARIANTS RoutesTypeOK  TagsDeclared
