CONSTANTS
  Links = {l1, l2}
  Endpoints = {e1, e2}
  Latencies = {1}
  MaxServers = 2
  Outbounds = {o1}
  Refreshers = {r1, r2}
  Probers = {}
SPECIFICATION Spec
SYMMETRY Symmetry
INVARIANT ActiveKept
