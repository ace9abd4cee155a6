---------------------------- MODULE MCKernelConfig ----------------------------
(***************************************************************************)
(* The two parts of the kernel's configuration in one run: the detours of  *)
(* FrontProxy and the routes of RouteRules.  They share no variable; Init  *)
(* chooses the one that moves.                                             *)
(***************************************************************************)
EXTENDS FrontProxy, TLC

VARIABLES part, rules, bound, sniffs, hijack, config

In == INSTANCE RouteInputs
Routes == INSTANCE RouteRules WITH
  Names <- <<"proxy", "hk">>, Inbounds <- {"socks-in", "in-1"}, Builtin <- <<"socks-in">>,
  Conds <- In!AllConds, Kind <- In!KindOf, SetOf <- In!GeoSet, NoSet <- In!Refused,
  SiteCn <- "geosite-cn", IpCn <- "geoip-cn", RuleLists <- In!ShortLists,
  Probe <- "probe-in", node <- bound

ASSUME RoutesAssumption == Routes!RouteAssumption

routes == <<rules, bound, sniffs, hijack, config>>

QuietFront ==
  /\ node = [n \in Names |-> NoNode] /\ front = [n \in Nodes |-> NoFront]
  /\ valid = {} /\ todo = {} /\ emitted = {} /\ detour = NoDetour /\ edited = FALSE
QuietRoutes ==
  /\ rules = <<>> /\ bound = [o \in {"proxy", "hk"} |-> "none"]
  /\ sniffs = {} /\ hijack = FALSE /\ config = Routes!NoConfig

MCInit ==
  \/ part = "front" /\ Init /\ QuietRoutes
  \/ part = "routes" /\ Routes!Init /\ QuietFront
MCNext ==
  /\ UNCHANGED part
  /\ \/ part = "front" /\ Next /\ UNCHANGED routes
     \/ part = "routes" /\ Routes!Next /\ UNCHANGED vars
MCSpec == MCInit /\ [][MCNext]_<<part, vars, routes>>

Symmetry == Permutations(Names) \union Permutations(Nodes)

(* The routes are well typed.                                              *)
RoutesTypeOK == part = "routes" => Routes!TypeOK

(* Both kernels route as the enabled rules say, and the probe inbound goes *)
(* to its own outbound whatever they say (RouteRules).                     *)
RoutesFollowRules ==
  part = "routes" =>
    Routes!SingboxFollowsRules /\ Routes!XrayFollowsRules /\ Routes!ProbeKeepsOutbound

(* Whatever a route or a rule set names is declared, and fetched before    *)
(* the kernel starts (RouteRules).                                         *)
TagsDeclared == part = "routes" => Routes!TagsDeclared /\ Routes!SetsPrefetched
=============================================================================
