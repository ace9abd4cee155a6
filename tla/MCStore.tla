------------------------------- MODULE MCStore --------------------------------
(***************************************************************************)
(* What the handlers keep in the store and around it, in one run: the      *)
(* lists of nodes (NodeStore, in three sizes), the inbounds with their     *)
(* nodes and sidecars (InboundNodes, with and without crashes), the names  *)
(* of outbounds (OutboundNames), the sessions (WebAccess), the score task  *)
(* (ScoreTask), the forwarder (DnsForwarder) and the files (Downloads).    *)
(* They share no variable; Init chooses the part that moves.               *)
(***************************************************************************)
EXTENDS Naturals, Sequences, FiniteSets, TLC

CONSTANTS
  MixedSize, OwnSize, SubscribedSize, Worker,            \* NodeStore
  SidecarsSize, BootsSize, Handler,                      \* InboundNodes
  Custom, Settings, OwnRows, SubscribedRows, RuleRows,   \* OutboundNames
  Requests, Ids, Users, Passwords,                       \* WebAccess
  ScoredNodes, ScoredHosts, Tasks,                       \* ScoreTask
  Clients, Keys, DnsPorts, Threshold, MaxInflight,       \* DnsForwarder
  Mirrors, Slots                                         \* Downloads

VARIABLES
  part,
  servers, subs, groups, job,                                       \* NodeStore
  inbounds, nodes, refs, entries, socks, ijob, up, parted, member,  \* InboundNodes
  names, config, mention, njob, owed,                               \* OutboundNames
  stored, cache, session, lock, wjob, drawn, revoked,               \* WebAccess
  host, running, cancel, closed, pending, task, scored,             \* ScoreTask
  want, kernel, srv, brk, conn, row,                                \* DnsForwarder
  dest, tmp, beside, fresh, djob, queue, reader                     \* Downloads

(* A user's group beside a subscription; more own nodes; two subscriptions *)
(* but no group of the user's.                                             *)
MixedLists == INSTANCE NodeStore WITH
  Nodes <- MixedSize.nodes, Manual <- MixedSize.manual, Subs <- MixedSize.subs, Workers <- {Worker},
  MaxServers <- MixedSize.servers, MaxRefs <- MixedSize.refs, MaxGroups <- MixedSize.groups
OwnLists == INSTANCE NodeStore WITH
  Nodes <- OwnSize.nodes, Manual <- OwnSize.manual, Subs <- OwnSize.subs, Workers <- {Worker},
  MaxServers <- OwnSize.servers, MaxRefs <- OwnSize.refs, MaxGroups <- OwnSize.groups
SubscriptionLists == INSTANCE NodeStore WITH
  Nodes <- SubscribedSize.nodes, Manual <- SubscribedSize.manual, Subs <- SubscribedSize.subs,
  Workers <- {Worker}, MaxServers <- SubscribedSize.servers, MaxRefs <- SubscribedSize.refs,
  MaxGroups <- SubscribedSize.groups

SmallMixed == [nodes |-> {"n1"}, manual |-> {"a"}, subs |-> {"s"},
              servers |-> 1, refs |-> 2, groups |-> 3]
SmallOwn == [nodes |-> {"n1", "n2"}, manual |-> {"a"}, subs |-> {},
            servers |-> 3, refs |-> 2, groups |-> 2]
SmallSubscribed == [nodes |-> {"n1"}, manual |-> {}, subs |-> {"s", "t"},
                   servers |-> 1, refs |-> 0, groups |-> 3]

Sidecars == INSTANCE InboundNodes WITH
  Ordinary <- SidecarsSize.users, Cfdo <- SidecarsSize.cfdo,
  CfGoodNet <- SidecarsSize.goodnet, Ports <- SidecarsSize.ports, Lists <- SidecarsSize.lists,
  Handlers <- {Handler}, WithCrash <- FALSE, MaxServers <- SidecarsSize.servers,
  servers <- nodes, job <- ijob
Boots == INSTANCE InboundNodes WITH
  Ordinary <- BootsSize.users, Cfdo <- BootsSize.cfdo,
  CfGoodNet <- BootsSize.goodnet, Ports <- BootsSize.ports, Lists <- BootsSize.lists,
  Handlers <- {Handler}, WithCrash <- TRUE, MaxServers <- BootsSize.servers,
  servers <- nodes, job <- ijob

(* Two inbounds at most, and two only without ports.                       *)
ShortLists(ids, ports) ==
  {<<>>} \union {<<[id |-> i, port |-> p]>> : i \in ids, p \in ports \union {0}}
  \union {<<[id |-> i, port |-> 0], [id |-> j, port |-> 0]>> : i \in ids, j \in ids}
SmallSidecars ==
  [users |-> {"n"}, cfdo |-> {"d"}, goodnet |-> {"g"}, ports |-> {1, 2}, servers |-> 2,
   lists |-> ShortLists({"d", "g"}, {1, 2})]
SmallBoots ==
  [users |-> {"n"}, cfdo |-> {"d"}, goodnet |-> {}, ports |-> {1}, servers |-> 3,
   lists |-> ShortLists({"d"}, {1})]

Outbounds == INSTANCE OutboundNames WITH
  Rows <- OwnRows \union SubscribedRows \union RuleRows,
  Own <- OwnRows, Subscribed <- SubscribedRows, Ruled <- RuleRows,
  listed <- names, job <- njob
Web == INSTANCE WebAccess WITH job <- wjob
Scores == INSTANCE ScoreTask WITH Nodes <- ScoredNodes, Hosts <- ScoredHosts
Dns == INSTANCE DnsForwarder WITH Ports <- DnsPorts
Files == INSTANCE Downloads WITH Sources <- Mirrors, job <- djob

ASSUME PartsAssumption ==
  /\ MixedLists!StoreAssumption /\ OwnLists!StoreAssumption /\ SubscriptionLists!StoreAssumption
  /\ Sidecars!InboundAssumption /\ Boots!InboundAssumption
  /\ Outbounds!NamesAssumption /\ Web!AccessAssumption /\ Scores!TaskAssumption
  /\ Dns!ForwarderAssumption /\ Files!DownloadAssumption

lists == <<servers, subs, groups, job>>
sidecars == <<inbounds, nodes, refs, entries, socks, ijob, up, parted, member>>
outbounds == <<names, config, mention, njob, owed>>
web == <<stored, cache, session, lock, wjob, drawn, revoked>>
scores == <<host, running, cancel, closed, pending, task, scored>>
dns == <<want, kernel, srv, brk, conn, row>>
files == <<dest, tmp, beside, fresh, djob, queue, reader>>

-----------------------------------------------------------------------------
(* What does not move needs no value.                                      *)
None == 0
QuietLists == servers = None /\ subs = None /\ groups = None /\ job = None
QuietSidecars ==
  /\ inbounds = None /\ nodes = None /\ refs = None /\ entries = None /\ socks = None
  /\ ijob = None /\ up = None /\ parted = None /\ member = None
QuietOutbounds ==
  names = None /\ config = None /\ mention = None /\ njob = None /\ owed = None
QuietWeb ==
  /\ stored = None /\ cache = None /\ session = None /\ lock = None
  /\ wjob = None /\ drawn = None /\ revoked = None
QuietScores ==
  /\ host = None /\ running = None /\ cancel = None /\ closed = None
  /\ pending = None /\ task = None /\ scored = None
QuietDns ==
  want = None /\ kernel = None /\ srv = None /\ brk = None /\ conn = None /\ row = None
QuietFiles ==
  /\ dest = None /\ tmp = None /\ beside = None /\ fresh = None
  /\ djob = None /\ queue = None /\ reader = None

StoreParts == {"mixed", "own", "subscribed"}
SidecarParts == {"sidecars", "boots"}

Init ==
  /\ part \in StoreParts \union SidecarParts \union
              {"outbounds", "web", "scores", "dns", "files"}
  /\ CASE part = "mixed" -> MixedLists!Init
       [] part = "own" -> OwnLists!Init
       [] part = "subscribed" -> SubscriptionLists!Init
       [] OTHER -> QuietLists
  /\ CASE part = "sidecars" -> Sidecars!Init
       [] part = "boots" -> Boots!Init
       [] OTHER -> QuietSidecars
  /\ IF part = "outbounds" THEN Outbounds!Init ELSE QuietOutbounds
  /\ IF part = "web" THEN Web!Init ELSE QuietWeb
  /\ IF part = "scores" THEN Scores!Init ELSE QuietScores
  /\ IF part = "dns" THEN Dns!Init ELSE QuietDns
  /\ IF part = "files" THEN Files!Init ELSE QuietFiles

Next ==
  /\ UNCHANGED part
  /\ \/ /\ \/ part = "mixed" /\ MixedLists!Next
           \/ part = "own" /\ OwnLists!Next
           \/ part = "subscribed" /\ SubscriptionLists!Next
        /\ UNCHANGED <<sidecars, outbounds, web, scores, dns, files>>
     \/ /\ \/ part = "sidecars" /\ Sidecars!Next
           \/ part = "boots" /\ Boots!Next
        /\ UNCHANGED <<lists, outbounds, web, scores, dns, files>>
     \/ /\ part = "outbounds" /\ Outbounds!Next
        /\ UNCHANGED <<lists, sidecars, web, scores, dns, files>>
     \/ /\ part = "web" /\ Web!Next
        /\ UNCHANGED <<lists, sidecars, outbounds, scores, dns, files>>
     \/ /\ part = "scores" /\ Scores!Next
        /\ UNCHANGED <<lists, sidecars, outbounds, web, dns, files>>
     \/ /\ part = "dns" /\ Dns!Next
        /\ UNCHANGED <<lists, sidecars, outbounds, web, scores, files>>
     \/ /\ part = "files" /\ Files!Next
        /\ UNCHANGED <<lists, sidecars, outbounds, web, scores, dns>>

Spec == Init /\ [][Next]_<<part, lists, sidecars, outbounds, web, scores, dns, files>>

-----------------------------------------------------------------------------
(* What is said of the lists, in whichever size they move.                 *)
OfLists(mixed, own, subscribed) ==
  /\ part = "mixed" => mixed
  /\ part = "own" => own
  /\ part = "subscribed" => subscribed

(* Every part that moves is well typed.                                    *)
TypeOK ==
  /\ OfLists(MixedLists!TypeOK, OwnLists!TypeOK, SubscriptionLists!TypeOK)
  /\ part = "sidecars" => Sidecars!TypeOK
  /\ part = "boots" => Boots!TypeOK
  /\ part = "outbounds" => Outbounds!TypeOK
  /\ part = "web" => Web!TypeOK
  /\ part = "scores" => Scores!TypeOK
  /\ part = "dns" => Dns!TypeOK
  /\ part = "files" => Files!TypeOK

(* An import or a copy lists the nodes it has appended (NodeStore).        *)
NewRefsAreTheNewNodes == [][OfLists(MixedLists!NewRefsAreTheNewNodes,
  OwnLists!NewRefsAreTheNewNodes, SubscriptionLists!NewRefsAreTheNewNodes)]_lists

(* A move lists its nodes in the target before it unlists them, wherever   *)
(* it is stopped (NodeStore).                                              *)
MoveLosesNothing == [][OfLists(MixedLists!MoveLosesNothing,
  OwnLists!MoveLosesNothing, SubscriptionLists!MoveLosesNothing)]_lists

(* A cleanup removes the groups of subscriptions that are gone, all of     *)
(* them and no other (NodeStore).                                          *)
CleanupIsExact == [][OfLists(MixedLists!CleanupIsExact,
  OwnLists!CleanupIsExact, SubscriptionLists!CleanupIsExact)]_lists

(* No subscription is written over or deleted for another (NodeStore).     *)
SubscriptionsKept == [][OfLists(MixedLists!SubscriptionsKept,
  OwnLists!SubscriptionsKept, SubscriptionLists!SubscriptionsKept)]_lists

(* The table tells which sidecars run, and each has its node: it can be    *)
(* stopped, and used (InboundNodes).                                       *)
SidecarsReachable ==
  /\ part = "sidecars" => Sidecars!TableMatchesSockets /\ Sidecars!SidecarsHaveNodes
  /\ part = "boots" => Boots!TableMatchesSockets /\ Boots!SidecarsHaveNodes

(* A rebuild of the nodes of inbounds moves places, not members            *)
(* (InboundNodes).                                                         *)
GroupsKeepMembers ==
  /\ part = "sidecars" => Sidecars!GroupsKeepMembers
  /\ part = "boots" => Boots!GroupsKeepMembers

(* The migration at boot leaves no node in two groups (InboundNodes).      *)
NodesParted == [][(part \in SidecarParts) => Sidecars!NodesParted]_sidecars

(* A rename keeps the configuration at every transaction, and leaves       *)
(* nothing that names the outbound it was (OutboundNames).                 *)
RenameLosesNothing ==
  /\ [](part = "outbounds" => Outbounds!KeepsConfigurations)
  /\ [][part = "outbounds" => Outbounds!MovesMentions]_outbounds

(* A session that was taken back is not let in again (WebAccess).          *)
RevokedStay == part = "web" => Web!RevokedStay

(* One score task at a time, and it can be cancelled (ScoreTask).          *)
OneTask == part = "scores" => Scores!OneTask

(* A kernel that runs was told the forwarder that serves (DnsForwarder).   *)
KernelFindsForwarder == part = "dns" => Dns!KernelFindsForwarder

(* A file that is replaced is replaced whole (Downloads).                  *)
InstalledWhole == [][part = "files" => Files!InstalledWhole]_files
=============================================================================
