CONSTANTS
  Clients = {c1, c2}
  Handlers = {h1}
  Holders = {u1}
  Worker = worker
  NoThread = NoThread
  MaxVersion = 3
  Procs = {k1, k2}
  NoProc = NoProc
  Nodes = {c1, c2}
  NoNode = NoNode
  Links = {c1, c2}
  Endpoints = {k1, k2}
  Background = "background"
  Appliers = {"h1"}
  Users = {"u1"}
  Binders = {"b1"}
  NoActor = "none"
  Slowest = 2
  SlowestBound = 1
  Threshold = 1
  Measured = {1}
  MaxServers = 2
  Outbounds = {"o1", "o2"}
  Refresher = "r1"
  Probers = {"p1"}
SPECIFICATION MCSpec
SYMMETRY Symmetry
INVARIANTS TypeOK FieldsAgree NoStrayKernel HolderSeesOneKernel AppliedOrRestartOwed
INVARIANTS PartsTypeOK  ActiveKept
PROPERTIES ImplementsLease  ProbesKeepManual ResultsSurvive
