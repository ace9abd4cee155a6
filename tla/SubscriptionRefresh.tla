------------------------- MODULE SubscriptionRefresh -------------------------
(***************************************************************************)
(* One subscription is downloaded again (fetchSubscription of the          *)
(* handlers, updateSub of the scheduler) while probes store their results. *)
(* Outbounds and groups refer to a node by its place in the list of the    *)
(* subscription, so a refresh has to move every reference with its node.   *)
(*                                                                         *)
(* A node has two keys (serverProbeKeys): its link and its endpoint, which *)
(* is type, host, port and name.  A latency stands for all that probes and *)
(* lookups store in a node, 0 for nothing.  Every step that touches the    *)
(* store is one transaction.                                               *)
(***************************************************************************)
EXTENDS Naturals, Sequences, FiniteSetsExt, Functions

CONSTANTS
  Links, Endpoints,   \* the two keys of a node
  Latencies,          \* bound: the results a probe may store
  MaxServers,         \* bound: nodes in a downloaded list
  Outbounds,          \* outbounds bound to the group of the subscription
  Refreshers,         \* goroutines that refresh the subscription
  Probers             \* goroutines that probe a node of it

RefreshAssumption ==
  /\ MaxServers \in Nat
  /\ Latencies \subseteq Nat

Servers == [link : Links, endpoint : Endpoints, latency : Latencies \union {0}]
Parsed == {s \in Servers : s.latency = 0}
Downloads == UNION {[1 .. n -> Parsed] : n \in 0 .. MaxServers}

VARIABLES
  servers,   \* SubscriptionRaw.Servers
  listed,    \* the group lists the places 1 .. listed of the subscription
  active,    \* ActiveNodeRef of each outbound: a place, 0 for none
  uses,      \* history: the node each outbound was given
  pc,        \* control point of a refresh, and its locals:
  old,       \*   the nodes it started from,
  fetched,   \*   the nodes it downloaded,
  kept,      \*   the old places of the nodes it keeps all the same,
  todo,      \*   the outbounds to look at, and
  ref,       \*   the outbound to write and the new place of its node
  target     \* the place a prober probes, 0 for none

local == <<pc, old, fetched, kept, todo, ref>>
store == <<servers, listed, active, uses>>
vars == <<store, local, target>>

-----------------------------------------------------------------------------
SameNode(s, t) == s.link = t.link \/ s.endpoint = t.endpoint

(* The place in list of the node that is s, 0 if there is none: the first  *)
(* with its link, else the first with its endpoint.                        *)
Match(s, list) ==
  LET byLink     == {i \in DOMAIN list : list[i].link = s.link}
      byEndpoint == {i \in DOMAIN list : list[i].endpoint = s.endpoint}
  IN IF byLink # {} THEN Min(byLink)
     ELSE IF byEndpoint # {} THEN Min(byEndpoint) ELSE 0

(* preserveServerResults: the results of from move to the same nodes of to.*)
Preserve(from, to) ==
  [i \in DOMAIN to |->
     IF Match(to[i], from) = 0 THEN to[i]
     ELSE [to[i] EXCEPT !.latency = from[Match(to[i], from)].latency]]

(* Variant: nodes are appended to a copy of the list.                      *)
NewListFetched(r) == fetched[r]

(* The list that will be stored: the downloaded nodes, then the kept ones. *)
NewList(r) == fetched[r] \o [k \in DOMAIN kept[r] |-> old[r][kept[r][k]]]

-----------------------------------------------------------------------------
Init ==
  /\ servers \in Downloads
  /\ listed = Len(servers)
  /\ active \in [Outbounds -> 0 .. Len(servers)]
  /\ uses = [o \in {o \in Outbounds : active[o] # 0} |-> servers[active[o]]]
  /\ pc = [r \in Refreshers |-> "idle"]
  /\ old = [r \in Refreshers |-> <<>>]
  /\ fetched = [r \in Refreshers |-> <<>>]
  /\ kept = [r \in Refreshers |-> <<>>]
  /\ todo = [r \in Refreshers |-> {}]
  /\ ref = [r \in Refreshers |-> <<>>]
  /\ target = [p \in Probers |-> 0]

Goto(r, label) == pc' = [pc EXCEPT ![r] = label]

Finish(r) ==
  /\ Goto(r, "idle")
  /\ old' = [old EXCEPT ![r] = <<>>]
  /\ fetched' = [fetched EXCEPT ![r] = <<>>]
  /\ kept' = [kept EXCEPT ![r] = <<>>]

(* A refresh works on the subscription as it was when it began.            *)
Begin(r) ==
  /\ pc[r] = "idle"
  /\ old' = [old EXCEPT ![r] = servers]
  /\ Goto(r, "fetch")
  /\ UNCHANGED <<store, fetched, kept, todo, ref, target>>

(* The request fails, or its status, its body or the parser.               *)
FetchFails(r) ==
  /\ pc[r] = "fetch"
  /\ Finish(r)
  /\ UNCHANGED <<store, todo, ref, target>>

Fetch(r) ==
  /\ pc[r] = "fetch"
  /\ \E list \in Downloads : fetched' = [fetched EXCEPT ![r] = Preserve(old[r], list)]
  /\ todo' = [todo EXCEPT ![r] = Outbounds]
  /\ Goto(r, "remap")
  /\ UNCHANGED <<store, old, kept, ref, target>>

(* PreserveActiveSubscriptionServers reads one outbound and looks for the  *)
(* new place of its node; a node that is gone is kept at the end.          *)
ReadOutbound(r, o) ==
  /\ pc[r] = "remap" /\ o \in todo[r]
  /\ todo' = [todo EXCEPT ![r] = @ \ {o}]
  /\ \/ /\ active[o] \notin DOMAIN old[r]
        /\ UNCHANGED <<pc, kept, ref>>
     \/ /\ active[o] \in DOMAIN old[r]
        /\ LET moved == Match(old[r][active[o]], fetched[r])
               more  == IF moved = 0 /\ active[o] \notin Range(kept[r])
                        THEN Append(kept[r], active[o]) ELSE kept[r]
               place == IF moved # 0 THEN moved
                        ELSE Len(fetched[r]) + CHOOSE k \in DOMAIN more : more[k] = active[o]
           IN /\ kept' = [kept EXCEPT ![r] = more]
              /\ IF place = active[o] THEN UNCHANGED <<pc, ref>>
                 ELSE Goto(r, "write") /\ ref' = [ref EXCEPT ![r] = <<o, place>>]
  /\ UNCHANGED <<store, old, fetched, target>>

(* SetOutbound writes the record back with the new place.                  *)
WriteOutbound(r) ==
  /\ pc[r] = "write"
  /\ active' = [active EXCEPT ![ref[r][1]] = ref[r][2]]
  /\ ref' = [ref EXCEPT ![r] = <<>>]
  /\ Goto(r, "remap")
  /\ UNCHANGED <<servers, listed, uses, old, fetched, kept, todo, target>>

(* What each outbound uses once list is stored.                            *)
NowUses(list) ==
  [o \in DOMAIN uses |->
     IF active[o] \in DOMAIN list /\ SameNode(list[active[o]], uses[o])
     THEN list[active[o]] ELSE uses[o]]

(* Variant: the list is stored without the results stored meanwhile.       *)
StoreBlind(r) ==
  /\ pc[r] = "remap" /\ todo[r] = {}
  /\ servers' = NewList(r)
  /\ uses' = NowUses(servers')
  /\ Goto(r, "group")
  /\ UNCHANGED <<listed, active, old, fetched, kept, todo, ref, target>>

(* SetSubscription: merge the results stored meanwhile, replace the rest.  *)
Store(r) ==
  /\ pc[r] = "remap" /\ todo[r] = {}
  /\ servers' = Preserve(servers, NewList(r))
  /\ uses' = NowUses(servers')
  /\ Goto(r, "group")
  /\ UNCHANGED <<listed, active, old, fetched, kept, todo, ref, target>>

(* The group gets a reference to every node of the new list.               *)
UpdateGroup(r) ==
  /\ pc[r] = "group"
  /\ listed' = Len(NewList(r))
  /\ Finish(r)
  /\ UNCHANGED <<servers, active, uses, todo, ref, target>>

(* A probe of the group names its nodes by their places before it dials.   *)
BeginProbe(p) ==
  /\ target[p] = 0
  /\ \E i \in 1 .. listed : target' = [target EXCEPT ![p] = i]
  /\ UNCHANGED <<store, local>>

(* UpdateSubscriptionServers: a place that is out of range is an error.    *)
SaveLatency(p) ==
  /\ target[p] # 0
  /\ IF target[p] \in DOMAIN servers
     THEN \E l \in Latencies : servers' = [servers EXCEPT ![target[p]].latency = l]
     ELSE UNCHANGED servers
  /\ target' = [target EXCEPT ![p] = 0]
  /\ UNCHANGED <<listed, active, uses, local>>

-----------------------------------------------------------------------------
RefreshStep(r) ==
  \/ Begin(r) \/ FetchFails(r) \/ Fetch(r)
  \/ \E o \in Outbounds : ReadOutbound(r, o)
  \/ WriteOutbound(r) \/ Store(r) \/ UpdateGroup(r)

Next ==
  \/ \E r \in Refreshers : RefreshStep(r)
  \/ \E p \in Probers : BeginProbe(p) \/ SaveLatency(p)

Spec == Init /\ [][Next]_vars

-----------------------------------------------------------------------------
Idle == \A r \in Refreshers : pc[r] = "idle"

TypeOK ==
  /\ servers \in Seq(Servers)
  /\ listed \in Nat
  /\ active \in [Outbounds -> Nat]
  /\ DOMAIN uses \subseteq Outbounds /\ uses \in [DOMAIN uses -> Servers]
  /\ pc \in [Refreshers -> {"idle", "fetch", "remap", "write", "group"}]
  /\ old \in [Refreshers -> Seq(Servers)]
  /\ fetched \in [Refreshers -> Seq(Servers)]
  /\ kept \in [Refreshers -> Seq(Nat)]
  /\ todo \in [Refreshers -> SUBSET Outbounds]
  /\ ref \in [Refreshers -> {<<>>} \union (Outbounds \X Nat)]
  /\ \A r \in Refreshers :
       /\ Range(kept[r]) \subseteq DOMAIN old[r]
       /\ pc[r] = "write" => ref[r] \in Outbounds \X (1 .. Len(NewList(r)))
  /\ target \in [Probers -> Nat]

(* "keeps subscription nodes that are currently selected by an outbound    *)
(* ... also remaps active outbound references when the same node moves     *)
(* index" (subscription.go:243): after a refresh every outbound still      *)
(* refers to the node it was given, wherever it is listed now.             *)
ActiveKept ==
  Idle => \A o \in DOMAIN uses :
            active[o] \in DOMAIN servers /\ SameNode(servers[active[o]], uses[o])

(* The group lists the whole subscription after a refresh, the nodes that  *)
(* were kept for an outbound included: else the next probe of the group    *)
(* would find the active node missing and switch away from it.             *)
GroupCoversActive ==
  Idle => listed = Len(servers) /\ \A o \in Outbounds : active[o] <= listed

(* "callers do not lose concurrent changes by reading an old snapshot and  *)
(* later replacing the whole item" (db.go:197): a result that a probe      *)
(* stored while the download ran is in the list that replaces the nodes.   *)
ResultsSurvive ==
  \A r \in Refreshers : Store(r) =>
    \A i \in DOMAIN servers, j \in DOMAIN servers' :
      /\ servers'[j].link = servers[i].link
      /\ \A k \in 1 .. i - 1 : servers[k].link # servers[i].link
      => servers'[j].latency = servers[i].latency
=============================================================================
