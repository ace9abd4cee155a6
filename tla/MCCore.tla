-------------------------------- MODULE MCCore --------------------------------
(***************************************************************************)
(* The safety of three parts in one run: the life of the kernel (Engine),  *)
(* the active node of an outbound (NodeSwitching, with the callers that    *)
(* take the lock of the engine, and with the handler that does not), and   *)
(* the refresh of a subscription (SubscriptionRefresh).  They share no     *)
(* variable; Init chooses the part that moves.  Their sets are of the same *)
(* model values, so that one set of permutations is a symmetry of them     *)
(* all.                                                                    *)
(***************************************************************************)
EXTENDS Engine, TLC

CONSTANTS
  Nodes, NoNode, Background, Appliers, Users, Binders, NoActor,     \* switching
  Slowest, SlowestBound, Threshold,
  Links, Endpoints, Measured, MaxServers, Outbounds, Refresher, Probers   \* refresh

VARIABLES
  part,
  bind, active, members, saved, hot, lock, spc, mem,           \* locked
  bind2, active2, members2, saved2, hot2, lock2, spc2, mem2,   \* bound
  servers, listed, refers, uses, rpc, old, fetched, kept, todo, ref, target

AllModes == {"manual", "leastping", "stable"}

Locked == INSTANCE NodeSwitching WITH
  Binders <- {}, Modes <- AllModes,
  WithPatrol <- TRUE, WithEdits <- TRUE, WithReload <- TRUE, pc <- spc

Bound == INSTANCE NodeSwitching WITH
  Appliers <- {}, Modes <- AllModes, Slowest <- SlowestBound,
  WithPatrol <- TRUE, WithEdits <- FALSE, WithReload <- FALSE,
  bind <- bind2, active <- active2, members <- members2, saved <- saved2,
  hot <- hot2, lock <- lock2, pc <- spc2, mem <- mem2

Refresh == INSTANCE SubscriptionRefresh WITH
  Refreshers <- {Refresher}, Latencies <- Measured, active <- refers, pc <- rpc

ASSUME CoreAssumption ==
  Locked!SwitchingAssumption /\ Bound!SwitchingAssumption /\ Refresh!RefreshAssumption

locked == <<bind, active, members, saved, hot, lock, spc, mem>>
bound == <<bind2, active2, members2, saved2, hot2, lock2, spc2, mem2>>
refresh == <<servers, listed, refers, uses, rpc, old, fetched, kept, todo, ref, target>>

(* What does not move needs its control points only.                       *)
None == 0
QuietLocked ==
  /\ spc = [a \in Locked!Actors |-> "idle"]
  /\ bind = None /\ active = None /\ members = None /\ saved = None
  /\ hot = None /\ lock = None /\ mem = None
QuietBound ==
  /\ spc2 = [a \in Bound!Actors |-> "idle"]
  /\ bind2 = None /\ active2 = None /\ members2 = None /\ saved2 = None
  /\ hot2 = None /\ lock2 = None /\ mem2 = None
QuietRefresh ==
  /\ rpc = [r \in {Refresher} |-> "idle"]
  /\ servers = None /\ listed = None /\ refers = None /\ uses = None
  /\ old = None /\ fetched = None /\ kept = None /\ todo = None /\ ref = None
  /\ target = None

MCInit ==
  /\ Init
  /\ \/ part = "engine" /\ QuietLocked /\ QuietBound /\ QuietRefresh
     \/ part = "locked" /\ Locked!Init /\ QuietBound /\ QuietRefresh
     \/ part = "bound" /\ QuietLocked /\ Bound!Init /\ QuietRefresh
     \/ part = "refresh" /\ QuietLocked /\ QuietBound /\ Refresh!Init
MCNext ==
  /\ UNCHANGED part
  /\ \/ part = "engine" /\ Next /\ UNCHANGED <<locked, bound, refresh>>
     \/ part = "locked" /\ Locked!Next /\ UNCHANGED <<vars, bound, refresh>>
     \/ part = "bound" /\ Bound!Next /\ UNCHANGED <<vars, locked, refresh>>
     \/ part = "refresh" /\ Refresh!Next /\ UNCHANGED <<vars, locked, bound>>
MCSpec == MCInit /\ [][MCNext]_<<part, vars, locked, bound, refresh>>

Symmetry == Permutations(Clients) \union Permutations(Handlers)
              \union Permutations(Holders) \union Permutations(Procs)

(* Every part that moves is well typed.                                    *)
PartsTypeOK ==
  /\ part = "locked" => Locked!TypeOK
  /\ part = "bound" => Bound!TypeOK
  /\ part = "refresh" => Refresh!TypeOK

(* A manual binding names a node, though it is stored outside the lock     *)
(* while a switch is under way (NodeSwitching).                            *)
ManualHasNode == part = "bound" => Bound!ManualHasNode

(* What is decided inside UpdateAndRestart is written onto the node it was *)
(* decided about (NodeSwitching).                                          *)
DecidedOnCurrent == [][part = "locked" => Locked!DecidedOnCurrent]_locked

(* No round and no group probe moves a manual outbound (NodeSwitching).    *)
ProbesKeepManual == [][part = "locked" => Locked!ProbesKeepManual]_locked

(* A refresh leaves every outbound the node it was given, and that node in *)
(* the group (SubscriptionRefresh).                                        *)
ActiveKept == part = "refresh" => Refresh!ActiveKept /\ Refresh!GroupCoversActive

(* A refresh stores the results that probes stored while it downloaded     *)
(* (SubscriptionRefresh).                                                  *)
ResultsSurvive == [][part = "refresh" => Refresh!ResultsSurvive]_refresh
=============================================================================
