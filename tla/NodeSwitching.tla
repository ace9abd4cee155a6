---------------------------- MODULE NodeSwitching ----------------------------
(***************************************************************************)
(* Who changes the active node of an outbound that is bound to a group:    *)
(* the periodic round (probeAndUpdate) and the patrol of the active node   *)
(* (probeActiveOutboundWithGroup) of pkg/observatory, a group probed by    *)
(* hand (ApplyGroupProbeResults), the user who picks a node                *)
(* (setOutboundActiveNode) and the user who binds the outbound             *)
(* (connectOutbound), each in a goroutine of its own.                      *)
(*                                                                         *)
(* All but connectOutbound write inside UpdateAndRestart, one at a time.   *)
(* SetOutboundActiveNode reads the outbound's record and writes the whole  *)
(* record back, in two transactions.  A latency of 0 stands for a node     *)
(* that failed its probe or was never probed.                              *)
(***************************************************************************)
EXTENDS Naturals

CONSTANTS
  Nodes, NoNode,
  Background,   \* the goroutine that has the permit of background probes
  Appliers,     \* handlers that apply a group probe of the user
  Users,        \* handlers of setOutboundActiveNode
  Binders,      \* handlers of connectOutbound
  Modes,        \* the selection modes in use
  Slowest,      \* bound: latencies are 1 .. Slowest
  Threshold,    \* SwitchThresholdMs; the cooldown is positive
  WithPatrol,   \* ActiveNodeProbeEnabled
  WithEdits,    \* the group's members change
  WithReload,   \* settings change, which calls Reload
  NoActor

SwitchingAssumption ==
  /\ Background \notin Appliers \union Users \union Binders
  /\ Appliers \intersect (Users \union Binders) = {} /\ Users \intersect Binders = {}
  /\ NoActor \notin {Background} \union Appliers \union Users
  /\ NoNode \notin Nodes
  /\ Modes \subseteq {"manual", "leastping", "stable"}
  /\ Slowest \in Nat /\ Threshold \in Nat
  /\ WithPatrol \in BOOLEAN /\ WithEdits \in BOOLEAN
  /\ WithReload \in BOOLEAN

Writers == {Background} \union Appliers \union Users
Actors == Writers \union Binders
Latencies == 0 .. Slowest
Bindings == [on : BOOLEAN, mode : Modes]

VARIABLES
  bind,     \* Target: bound to the group?  in which mode?
  active,   \* Target.ActiveNodeRef
  members,  \* the group's servers
  saved,    \* the latency in each node's record
  hot,      \* lastSwitchAt is set and less than the cooldown ago
  lock,     \* who is inside UpdateAndRestart
  pc, mem   \* control point and locals of each actor

store == <<bind, active>>
vars == <<bind, active, members, saved, hot, lock, pc, mem>>

NoMem == [patrol |-> FALSE, bind |-> [on |-> FALSE, mode |-> CHOOSE m \in Modes : TRUE],
          cur |-> NoNode, pick |-> NoNode, grp |-> {}, todo |-> {}]

Init ==
  /\ bind \in Bindings /\ bind.on
  /\ members = Nodes
  /\ active \in members
  /\ saved = [n \in Nodes |-> 0]
  /\ hot = FALSE
  /\ lock = NoActor
  /\ pc = [a \in Actors |-> "idle"]
  /\ mem = [a \in Actors |-> NoMem]

Goto(a, label) == pc' = [pc EXCEPT ![a] = label]
Finish(a) == Goto(a, "idle") /\ mem' = [mem EXCEPT ![a] = NoMem]

-----------------------------------------------------------------------------
(* The switching rule.                                                     *)

Reachable(grp, lat) == {n \in grp : lat[n] > 0}

(* The nodes that may come first after the sort by latency.                *)
Fastest(grp, lat) ==
  {n \in Reachable(grp, lat) : \A m \in Reachable(grp, lat) : lat[n] <= lat[m]}

(* shouldSwitchWithSettings for a current node cur and a faster node best. *)
ShouldSwitch(mode, cur, best, grp, lat, isHot) ==
  IF cur \in Reachable(grp, lat)
  THEN mode = "leastping" /\ lat[cur] >= lat[best] + Threshold /\ ~ isHot
  ELSE mode # "manual"

(* Variant: manual mode forgotten when the current node has failed.        *)
SwitchToAnyMode(mode, cur, grp, lat, isHot) ==
  {n \in Fastest(grp, lat) :
     cur = NoNode \/ (n # cur /\ (cur \notin Reachable(grp, lat)
                                   \/ ShouldSwitch(mode, cur, n, grp, lat, isHot)))}

(* The node a round switches to, if any; with no current node, the fastest.*)
SwitchTo(mode, cur, grp, lat, isHot) ==
  {n \in Fastest(grp, lat) :
     cur = NoNode \/ (n # cur /\ ShouldSwitch(mode, cur, n, grp, lat, isHot))}

-----------------------------------------------------------------------------
(* probeAndUpdate: read the outbound and the group, probe every member,    *)
(* save the results, decide, and only then enter UpdateAndRestart.         *)

BeginRound(s) ==
  /\ pc[s] = "idle" /\ bind.on
  /\ mem' = [mem EXCEPT ![s] = [NoMem EXCEPT !.bind = bind, !.cur = active, !.grp = members]]
  /\ Goto(s, "round")
  /\ UNCHANGED <<store, members, saved, hot, lock>>

FinishRound(s) ==
  /\ pc[s] = "round"
  /\ \E res \in [mem[s].grp -> Latencies] :
       LET choice == SwitchTo(mem[s].bind.mode, mem[s].cur, mem[s].grp, res, hot)
       IN /\ saved' = [n \in Nodes |-> IF n \in mem[s].grp THEN res[n] ELSE saved[n]]
          /\ \/ choice = {} /\ Finish(s)
             \/ \E n \in choice : mem' = [mem EXCEPT ![s].pick = n] /\ Goto(s, "lock")
  /\ UNCHANGED <<store, members, hot, lock>>

-----------------------------------------------------------------------------
(* The patrol: collect the group, probe the active node, and when it fails *)
(* probe the other members one by one until one can replace it.            *)

CollectPatrol(s) ==
  /\ WithPatrol /\ pc[s] = "idle"
  /\ bind.on /\ active \in members
  /\ mem' = [mem EXCEPT ![s] = [NoMem EXCEPT !.patrol = TRUE, !.grp = members]]
  /\ Goto(s, "target")
  /\ UNCHANGED <<store, members, saved, hot, lock>>

BeginPatrol(s) ==
  /\ pc[s] = "target"
  /\ IF bind.on /\ active \in mem[s].grp
     THEN mem' = [mem EXCEPT ![s].cur = active] /\ Goto(s, "active")
     ELSE Finish(s)
  /\ UNCHANGED <<store, members, saved, hot, lock>>

ProbeActive(s) ==
  /\ pc[s] = "active"
  /\ \E lat \in Latencies :
       /\ saved' = [saved EXCEPT ![mem[s].cur] = lat]
       /\ IF lat > 0 THEN Finish(s)
          ELSE /\ mem' = [mem EXCEPT ![s].todo = mem[s].grp \ {mem[s].cur}]
               /\ Goto(s, "recheck")
  /\ UNCHANGED <<store, members, hot, lock>>

(* Before each candidate: is the failed node still the active one?         *)
NextCandidate(s) ==
  /\ pc[s] = "recheck"
  /\ \/ /\ mem[s].todo = {} \/ ~ bind.on \/ active # mem[s].cur
        /\ Finish(s)
     \/ /\ bind.on /\ active = mem[s].cur
        /\ \E n \in mem[s].todo :
             mem' = [mem EXCEPT ![s].pick = n, ![s].todo = @ \ {n}]
        /\ Goto(s, "candidate")
  /\ UNCHANGED <<store, members, saved, hot, lock>>

ProbeCandidate(s) ==
  /\ pc[s] = "candidate"
  /\ \E lat \in Latencies :
       /\ saved' = [saved EXCEPT ![mem[s].pick] = lat]
       /\ Goto(s, IF lat > 0 THEN "lock" ELSE "recheck")
  /\ UNCHANGED <<store, members, hot, lock, mem>>

(* Variant: no second look at the active node under the lock.              *)
ActivateFailoverBlind(s) ==
  /\ pc[s] = "decide" /\ s = Background
  /\ IF bind.on /\ mem[s].pick \in members
     THEN Goto(s, "get") /\ UNCHANGED <<mem, lock>>
     ELSE Finish(s) /\ lock' = NoActor
  /\ UNCHANGED <<store, members, saved, hot>>

(* activateFailoverNode: compare under the lock, then set.                 *)
ActivateFailover(s) ==
  /\ pc[s] = "decide" /\ s = Background
  /\ IF bind.on /\ active = mem[s].cur /\ mem[s].pick \in members
     THEN Goto(s, "get") /\ UNCHANGED <<mem, lock>>
     ELSE Finish(s) /\ lock' = NoActor
  /\ UNCHANGED <<store, members, saved, hot>>

-----------------------------------------------------------------------------
(* ApplyGroupProbeResults after the user probed the group.                 *)

ProbeGroup(h) ==
  /\ pc[h] = "idle"
  /\ \E res \in [members -> Latencies] :
       saved' = [n \in Nodes |-> IF n \in members THEN res[n] ELSE saved[n]]
  /\ Goto(h, "group")
  /\ UNCHANGED <<store, members, hot, lock, mem>>

(* The group is read before the lock and not again.                        *)
ReadGroup(h) ==
  /\ pc[h] = "group"
  /\ mem' = [mem EXCEPT ![h].grp = members]
  /\ Goto(h, "lock")
  /\ UNCHANGED <<store, members, saved, hot, lock>>

(* applyOutboundSwitch, with the outbound read under the lock.             *)
ApplySwitch(h) ==
  /\ pc[h] = "decide" /\ h \in Appliers
  /\ LET choice == SwitchTo(bind.mode, active, mem[h].grp, saved, hot)
     IN \/ /\ ~ bind.on \/ choice = {}
           /\ Finish(h) /\ lock' = NoActor
        \/ /\ bind.on
           /\ \E n \in choice : mem' = [mem EXCEPT ![h].pick = n, ![h].cur = active]
           /\ Goto(h, "get") /\ UNCHANGED lock
  /\ UNCHANGED <<store, members, saved, hot>>

-----------------------------------------------------------------------------
(* The users.                                                              *)

(* setOutboundActiveNode: checks first, then UpdateAndRestart.             *)
PickNode(u) ==
  /\ pc[u] = "idle" /\ bind.on
  /\ \E n \in members \ {active} : mem' = [mem EXCEPT ![u].pick = n]
  /\ Goto(u, "lock")
  /\ UNCHANGED <<store, members, saved, hot, lock>>

(* Variant: manual mode accepted without a node.                           *)
ConnectUnchecked(b) ==
  /\ pc[b] = "idle"
  /\ bind' \in Bindings
  /\ active' \in members \union {NoNode}
  /\ bind'.on \/ active' = NoNode
  /\ Goto(b, "select")
  /\ UNCHANGED <<members, saved, hot, lock, mem>>

(* connectOutbound writes the whole target and calls OnOutboundUpdated.    *)
Connect(b) ==
  /\ pc[b] = "idle"
  /\ bind' \in Bindings
  /\ active' \in members \union {NoNode}
  /\ bind'.on \/ active' = NoNode
  /\ bind'.on /\ bind'.mode = "manual" => active' # NoNode
  /\ Goto(b, "select")
  /\ UNCHANGED <<members, saved, hot, lock, mem>>

(* selectBestNodeFromExisting, when the outbound has no usable node.       *)
SelectExisting(b) ==
  /\ pc[b] = "select"
  /\ IF bind.on /\ active \notin members /\ Fastest(members, saved) # {}
     THEN /\ \E n \in Fastest(members, saved) : mem' = [mem EXCEPT ![b].pick = n]
          /\ Goto(b, "get")
     ELSE Finish(b)
  /\ UNCHANGED <<store, members, saved, hot, lock>>

EditGroup ==
  /\ WithEdits
  /\ members' \in SUBSET Nodes
  /\ UNCHANGED <<store, saved, hot, lock, pc, mem>>

(* Reload calls Stop, which forgets every switch it knew of.               *)
Reload ==
  /\ WithReload /\ hot
  /\ hot' = FALSE
  /\ UNCHANGED <<store, members, saved, lock, pc, mem>>

-----------------------------------------------------------------------------
(* SetOutboundActiveNode inside UpdateAndRestart.                          *)

IsRound(a) == a = Background /\ ~ mem[a].patrol

Lock(a) ==
  /\ pc[a] = "lock" /\ lock = NoActor
  /\ lock' = a
  /\ Goto(a, IF a \in Appliers \/ mem[a].patrol THEN "decide" ELSE "get")
  /\ UNCHANGED <<store, members, saved, hot, mem>>

GetRecord(a) ==
  /\ pc[a] = "get"
  /\ mem' = [mem EXCEPT ![a].bind = bind]
  /\ Goto(a, "put")
  /\ UNCHANGED <<store, members, saved, hot, lock>>

PutRecord(a) ==
  /\ pc[a] = "put"
  /\ bind' = mem[a].bind
  /\ active' = mem[a].pick
  /\ IF a \in Binders THEN Finish(a)
     ELSE Goto(a, IF IsRound(a) THEN "unlock" ELSE "mark") /\ UNCHANGED mem
  /\ UNCHANGED <<members, saved, hot, lock>>

(* markSwitched: inside the callback, but the periodic round marks its     *)
(* switch only when UpdateAndRestart, and so the restart, has returned.    *)
Mark(a) ==
  /\ pc[a] = "mark"
  /\ hot' = TRUE
  /\ IF IsRound(a) THEN Finish(a) ELSE Goto(a, "unlock") /\ UNCHANGED mem
  /\ UNCHANGED <<store, members, saved, lock>>

Unlock(a) ==
  /\ pc[a] = "unlock"
  /\ lock' = NoActor
  /\ IF IsRound(a) THEN Goto(a, "mark") /\ UNCHANGED mem ELSE Finish(a)
  /\ UNCHANGED <<store, members, saved, hot>>

(* The cooldown ends.                                                      *)
CoolDown ==
  /\ hot
  /\ hot' = FALSE
  /\ UNCHANGED <<store, members, saved, lock, pc, mem>>

-----------------------------------------------------------------------------
BackgroundStep ==
  \/ BeginRound(Background) \/ FinishRound(Background)
  \/ CollectPatrol(Background) \/ BeginPatrol(Background) \/ ProbeActive(Background)
  \/ NextCandidate(Background) \/ ProbeCandidate(Background)
  \/ ActivateFailover(Background)

Next ==
  \/ BackgroundStep
  \/ \E h \in Appliers : ProbeGroup(h) \/ ReadGroup(h) \/ ApplySwitch(h)
  \/ \E u \in Users : PickNode(u)
  \/ \E b \in Binders : Connect(b) \/ SelectExisting(b)
  \/ \E a \in Writers : Lock(a) \/ Mark(a) \/ Unlock(a)
  \/ \E a \in Actors : GetRecord(a) \/ PutRecord(a)
  \/ EditGroup \/ Reload \/ CoolDown

Spec == Init /\ [][Next]_vars

-----------------------------------------------------------------------------
Labels == {"idle", "round", "target", "active", "recheck", "candidate", "group",
           "select", "lock", "decide", "get", "put", "mark", "unlock"}
Locals == [patrol : BOOLEAN, bind : Bindings,
           cur : Nodes \union {NoNode}, pick : Nodes \union {NoNode},
           grp : SUBSET Nodes, todo : SUBSET Nodes]

TypeOK ==
  /\ bind \in Bindings
  /\ active \in Nodes \union {NoNode}
  /\ members \subseteq Nodes
  /\ saved \in [Nodes -> Latencies]
  /\ hot \in BOOLEAN
  /\ lock \in Writers \union {NoActor}
  /\ pc \in [Actors -> Labels]
  /\ mem \in [Actors -> Locals]
  /\ \A a \in Actors : pc[a] \in {"get", "put"} => mem[a].pick \in Nodes

Automatic == Writers \ Users

(* A manual binding always names a node (handlers.go:2635), also when the  *)
(* record is read, changed and written back by several goroutines.         *)
ManualHasNode == bind.on /\ bind.mode = "manual" => active # NoNode

(* Whoever decides inside UpdateAndRestart writes onto the outbound it     *)
(* decided about: the patrol replaces the node it found failing            *)
(* (observatory.go:804), a group probe the node it compared with, and no   *)
(* choice the user has made meanwhile.                                     *)
DecidedOnCurrent ==
  \A a \in Automatic : PutRecord(a) /\ ~ IsRound(a) => active = mem[a].cur

(* Manual mode, "当前节点不可用，但不会自动切换" (observatory.go:1199): neither a   *)
(* round nor a group probe switches a manual outbound, failed node or not, *)
(* as long as nobody binds it anew.  (The patrol does.)                    *)
ProbesKeepManual ==
  \A a \in Automatic :
    PutRecord(a) /\ ~ mem[a].patrol /\ bind.on /\ bind.mode = "manual"
      => active' = active

(* SetOutboundActiveNode "更新当前活跃节点" (outbound.go:261): it updates the    *)
(* active node; the binding and its mode stay as they are stored.          *)
BindingKept == [][\A a \in Writers : PutRecord(a) => bind' = bind]_vars
=============================================================================
