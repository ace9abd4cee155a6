CONSTANTS
  Names = {n1}
  Patrol = patrol
  Callers = {c1, c2}
  Tasks = {t1, t2}
  NoTask = NoTask
SPECIFICATION Spec
INVARIANTS NoOrphanTask
