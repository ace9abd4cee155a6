CONSTANTS
  Clients = {c1}
  Handlers = {h1}
  Holders = {u1}
  Worker = worker
  NoThread = NoThread
  MaxVersion = 2
  Procs = {k1, k2}
  NoProc = NoProc
SPECIFICATION Spec
INVARIANTS ChangeTakesEffect
