CONSTANTS
  MixedSize <- SmallMixed
  OwnSize <- SmallOwn
  SubscribedSize <- SmallSubscribed
  Worker = "w"
  SidecarsSize <- SmallSidecars
  BootsSize <- SmallBoots
  Handler = "h"
  Custom = {"a", "b"}
  Settings = {"x", "y"}
  OwnRows = {"node"}
  SubscribedRows = {"sub"}
  RuleRows = {"rule"}
  Requests = {"r1", "r2"}
  Ids = {"i"}
  Users = {"u", "v"}
  Passwords = {"p", "q"}
  ScoredNodes = {"m", "n"}
  ScoredHosts = {"x"}
  Tasks = {"t1", "t2"}
  Clients = {"c1", "c2"}
  Keys = {"k1", "k2"}
  DnsPorts = {1, 2}
  Threshold = 2
  MaxInflight = 2
  Mirrors = 2
  Slots = 1
SPECIFICATION Spec
INVARIANTS TypeOK   RevokedStay OneTask KernelFindsForwarder
PROPERTIES  MoveLosesNothing CleanupIsExact 
PROPERTIES NodesParted RenameLosesNothing 
