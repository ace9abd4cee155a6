------------------------------ MODULE NodeStore ------------------------------
(***************************************************************************)
(* The three lists of the store (own nodes, subscriptions, groups) and the *)
(* requests that change them.  A list is kept in one value of bolt, each   *)
(* call of package configure is one transaction, and nothing but its place *)
(* names an element: a reference of a group is the place of a node, in the *)
(* own list (<<0, i>>) or in a subscription (<<k, i>>).                    *)
(*                                                                         *)
(* A request is a row of transactions.  job[w].todo holds the ones that    *)
(* worker w (a handler, or the goroutine it leaves behind) has still to    *)
(* run, the other fields what it has read so far; the process may die      *)
(* between any two of them.                                                *)
(***************************************************************************)
EXTENDS Naturals, Sequences, SequencesExt, FiniteSets, Functions, Places

CONSTANTS
  Nodes,       \* configurations of a node, as sameServerConfig tells them apart
  Manual,      \* ids of the groups users create
  Subs,        \* ids of subscriptions; each also names the group made for it
  Workers,     \* requests and their goroutines that run at the same time
  MaxServers,  \* bound: own nodes
  MaxRefs,     \* bound: references in a group, for those that add some
  MaxGroups    \* bound: groups

StoreAssumption ==
  /\ {MaxServers, MaxGroups, MaxRefs} \subseteq Nat
  /\ "SERVER" \notin Manual \union Subs
  /\ Manual \intersect Subs = {}

VARIABLES
  servers,   \* touch/servers
  subs,      \* touch/subscriptions
  groups,    \* touch/groups
  job        \* what each worker is doing

lists == <<servers, subs, groups>>
vars == <<servers, subs, groups, job>>

NoSub == [id |-> "none", nodes |-> <<>>]
NoGroup == [id |-> "none", refs |-> {}]

Idle == [todo |-> <<>>, nodes |-> <<>>, place |-> 0, refs |-> {}, to |-> 0, from |-> 0,
         sub |-> NoSub, group |-> NoGroup, goal |-> "SERVER", ids |-> <<>>, drop |-> {}]

GroupIds == {"SERVER"} \union Manual \union Subs
Downloads == {<<>>} \union {<<n>> : n \in Nodes}

-----------------------------------------------------------------------------
ListRemove(list, places) == Pick(list, DOMAIN list \ places)

ListSet(list, i, value) == IF i \in DOMAIN list THEN [list EXCEPT ![i] = value] ELSE list

Place(list, id) ==
  IF \E i \in DOMAIN list : list[i].id = id
  THEN CHOOSE i \in DOMAIN list :
         list[i].id = id /\ \A j \in 1 .. i - 1 : list[j].id # id
  ELSE 0

(* What a reference stands for now: at most one node.                      *)
Snapshot(ref) ==
  IF ref[1] = 0
  THEN IF ref[2] \in DOMAIN servers THEN {servers[ref[2]]} ELSE {}
  ELSE IF ref[1] \in DOMAIN subs /\ ref[2] \in DOMAIN subs[ref[1]].nodes
       THEN {subs[ref[1]].nodes[ref[2]]} ELSE {}

Refs == {<<0, i>> : i \in DOMAIN servers} \union
        UNION {{<<k, i>> : i \in DOMAIN subs[k].nodes} : k \in DOMAIN subs}

GroupHas(i, node) == \E ref \in groups[i].refs : node \in Snapshot(ref)

(* Variant: one reference that is listed already stops the whole batch.    *)
AddToGroupStops(i, refs) ==
  IF i \notin DOMAIN groups \/ groups[i].refs \intersect refs # {} THEN groups
  ELSE [groups EXCEPT ![i].refs = @ \union refs]

AddToGroup(i, refs) ==
  IF i \in DOMAIN groups THEN [groups EXCEPT ![i].refs = @ \union refs] ELSE groups

(* There is room for more references, within the bound.                    *)
Room(i, refs) == Cardinality(groups[i].refs \union refs) <= MaxRefs

RemoveFromGroup(i, refs) ==
  IF i \in DOMAIN groups THEN [groups EXCEPT ![i].refs = @ \ refs] ELSE groups

-----------------------------------------------------------------------------
IsIdle(w) == job[w].todo = <<>>
At(w, label) == ~IsIdle(w) /\ Head(job[w].todo) = label

Begin(w, task) == job' = [job EXCEPT ![w] = task]
Leave(w) == job' = [job EXCEPT ![w] = Idle]

(* The worker has run its next transaction and knows what it has read.     *)
Done(w, known) ==
  job' = [job EXCEPT ![w] =
            IF Len(known.todo) = 1 THEN Idle ELSE [known EXCEPT !.todo = Tail(known.todo)]]

Init ==
  /\ servers \in {<<n>> : n \in Nodes}
  /\ \/ subs = <<>>
     \/ \E s \in Subs, n \in Nodes : subs = <<[id |-> s, nodes |-> <<n>>]>>
  /\ groups = <<[id |-> "SERVER", refs |-> {<<0, 1>>}]>> \o
              [k \in DOMAIN subs |-> [id |-> subs[k].id, refs |-> {<<k, 1>>}]]
  /\ job = [w \in Workers |-> Idle]

-----------------------------------------------------------------------------
(* Nodes are imported, or copied.                                          *)

ImportAuto(w, new, goal) ==
  /\ IsIdle(w) /\ Len(servers) + Len(new) <= MaxServers
  /\ Begin(w, [Idle EXCEPT !.todo = <<"count", "append", "find", "list">>,
                           !.nodes = new, !.goal = goal])
  /\ UNCHANGED lists

(* copyServerToGroup, and batchCopyServersToGroup, which reads the length  *)
(* a little earlier: nodes with a configuration the group has already, or  *)
(* the batch already, are left out; without clone the references are       *)
(* listed as they are.                                                     *)
CopyServersToGroup(w, from, goal, clone) ==
  LET i == Place(groups, goal)
      new == {n \in UNION {Snapshot(ref) : ref \in from} : ~GroupHas(i, n)}
  IN /\ IsIdle(w) /\ i # 0
     /\ Len(servers) + Cardinality(new) <= MaxServers
     /\ IF clone
        THEN /\ new # {} /\ \A ref \in from : Snapshot(ref) # {}
             /\ Begin(w, [Idle EXCEPT !.todo = <<"count", "append", "list">>,
                                      !.nodes = SetToSeq(new), !.to = i])
        ELSE /\ Room(i, from)
             /\ Begin(w, [Idle EXCEPT !.todo = <<"list">>, !.refs = from, !.to = i])
     /\ UNCHANGED lists

(* Variant: the place of the first new node is the length itself.          *)
CountServersOneLess(w) ==
  /\ At(w, "count")
  /\ LET n == Len(servers)
     IN Done(w, [job[w] EXCEPT !.place = n,
                   !.refs = {<<0, n + k - 1>> : k \in DOMAIN job[w].nodes}])
  /\ UNCHANGED lists

(* GetLenServers: where the new nodes are expected to be.                  *)
CountServers(w) ==
  /\ At(w, "count")
  /\ LET n == Len(servers)
     IN Done(w, [job[w] EXCEPT !.place = n,
                   !.refs = {<<0, n + k>> : k \in DOMAIN job[w].nodes}])
  /\ UNCHANGED lists

AppendServers(w) ==
  /\ At(w, "append")
  /\ servers' = servers \o job[w].nodes
  /\ Done(w, job[w])
  /\ UNCHANGED <<subs, groups>>

(* The group of an import; the built-in one is made when it is missing.    *)
FindGroup(w) ==
  LET i == Place(groups, job[w].goal)
  IN /\ At(w, "find")
     /\ \/ /\ i # 0
           /\ Done(w, [job[w] EXCEPT !.to = i])
        \/ /\ i = 0 /\ job[w].goal # "SERVER"
           /\ Leave(w)
        \/ /\ i = 0 /\ job[w].goal = "SERVER"
           /\ job' = [job EXCEPT ![w].todo = <<"create", "find", "list">>]
     /\ UNCHANGED lists

CreateServerGroup(w) ==
  /\ At(w, "create")
  /\ groups' = Append(groups, [id |-> "SERVER", refs |-> {}])
  /\ Done(w, job[w])
  /\ UNCHANGED <<servers, subs>>

(* AddServersToGroup, inside one transaction; a group that is not there is *)
(* an error, after which a move stops.  (An import lists its nodes one by  *)
(* one: the steps before the last only list fewer of them.)                *)
ListRefs(w) ==
  /\ At(w, "list")
  /\ groups' = AddToGroup(job[w].to, job[w].refs)
  /\ IF job[w].to \in DOMAIN groups THEN Done(w, job[w]) ELSE Leave(w)
  /\ UNCHANGED <<servers, subs>>

(* batchMoveServersToGroup: listed in the target first, then removed.      *)
MoveServersToGroup(w, refs, source, target) ==
  /\ IsIdle(w) /\ source # target
  /\ Place(groups, source) # 0 /\ Place(groups, target) # 0
  /\ Room(Place(groups, target), refs)
  /\ Begin(w, [Idle EXCEPT !.todo = <<"list", "unlist">>, !.refs = refs,
                           !.from = Place(groups, source), !.to = Place(groups, target)])
  /\ UNCHANGED lists

UnlistRefs(w) ==
  /\ At(w, "unlist")
  /\ groups' = RemoveFromGroup(job[w].from, job[w].refs)
  /\ Done(w, job[w])
  /\ UNCHANGED <<servers, subs>>

(* cleanupInvalidNodes of the scheduler, for one group: the references are *)
(* those of before the probes, the groups are looked up again after them;  *)
(* without a group to move to, the nodes that failed are only removed.     *)
CleanupInvalidNodes(w, i, refs, recycle) ==
  /\ IsIdle(w) /\ groups[i].id # recycle
  /\ Place(groups, recycle) # 0 => Room(Place(groups, recycle), refs)
  /\ Begin(w, [Idle EXCEPT !.todo = <<"relocate", "list", "unlist">>, !.refs = refs,
                           !.ids = <<groups[i].id>>, !.goal = recycle])
  /\ UNCHANGED lists

Relocate(w) ==
  LET source == Place(groups, job[w].ids[1])
      target == Place(groups, job[w].goal)
  IN /\ At(w, "relocate")
     /\ IF source = 0 THEN Leave(w)
        ELSE job' = [job EXCEPT ![w] = [job[w] EXCEPT
               !.from = source, !.to = target, !.ids = <<>>,
               !.todo = IF target = 0 THEN <<"unlist">> ELSE <<"list", "unlist">>]]
     /\ UNCHANGED lists

DeleteServers(w, places) ==
  /\ IsIdle(w) /\ places # {}
  /\ servers' = ListRemove(servers, places)
  /\ UNCHANGED <<subs, groups, job>>

(* saveNodeEdit of an own node: read, then stored at the same place.       *)
EditServer(w, i, node) ==
  /\ IsIdle(w) /\ i \in DOMAIN servers
  /\ Begin(w, [Idle EXCEPT !.todo = <<"putServer">>, !.place = i, !.nodes = <<node>>])
  /\ UNCHANGED lists

PutServer(w) ==
  /\ At(w, "putServer")
  /\ servers' = ListSet(servers, job[w].place, job[w].nodes[1])
  /\ Done(w, job[w])
  /\ UNCHANGED <<subs, groups>>

-----------------------------------------------------------------------------
(* Subscriptions.                                                          *)

(* addSubscription, and each address of an import: the group, then the     *)
(* subscription, then its place, with which the download is started.       *)
AddSubscription(w, s) ==
  /\ IsIdle(w) /\ Len(groups) < MaxGroups
  /\ Place(subs, s) = 0 /\ Place(groups, s) = 0
  /\ \A v \in Workers : job[v].sub.id # s
  /\ Begin(w, [Idle EXCEPT
       !.todo = <<"appendGroup", "appendSub", "place", "fetch", "putSub", "regroup", "putGroup">>,
       !.sub = [id |-> s, nodes |-> <<>>]])
  /\ UNCHANGED lists

AppendGroup(w) ==
  /\ At(w, "appendGroup")
  /\ groups' = Append(groups, [id |-> job[w].sub.id, refs |-> {}])
  /\ Done(w, job[w])
  /\ UNCHANGED <<servers, subs>>

AppendSubscription(w) ==
  /\ At(w, "appendSub")
  /\ subs' = Append(subs, job[w].sub)
  /\ Done(w, job[w])
  /\ UNCHANGED <<servers, groups>>

(* Variant: the length is one too many.                                    *)
TakePlaceBefore(w) ==
  /\ At(w, "place")
  /\ Done(w, [job[w] EXCEPT !.place = Len(subs) - 1])
  /\ UNCHANGED lists

TakePlace(w) ==
  /\ At(w, "place")
  /\ Done(w, [job[w] EXCEPT !.place = Len(subs)])
  /\ UNCHANGED lists

(* updateSubscriptionNodes.                                                *)
UpdateSubscriptionNodes(w, k) ==
  /\ IsIdle(w) /\ k \in DOMAIN subs
  /\ Begin(w, [Idle EXCEPT !.todo = <<"fetch", "putSub", "regroup", "putGroup">>,
                           !.place = k, !.sub = subs[k]])
  /\ UNCHANGED lists

(* fetchSubscription; what it does for results and for the nodes in use is *)
(* in SubscriptionRefresh.                                                 *)
Fetch(w) ==
  /\ At(w, "fetch")
  /\ \/ Leave(w)
     \/ \E new \in Downloads : Done(w, [job[w] EXCEPT !.sub.nodes = new])
  /\ UNCHANGED lists

(* SetSubscription replaces the record, whatever is at its place now; an   *)
(* error is ignored.                                                       *)
PutSubscription(w) ==
  /\ At(w, "putSub")
  /\ subs' = ListSet(subs, job[w].place, job[w].sub)
  /\ Done(w, job[w])
  /\ UNCHANGED <<servers, groups>>

Regroup(w) ==
  LET i == Place(groups, job[w].sub.id)
  IN /\ At(w, "regroup")
     /\ IF i = 0 THEN Leave(w)
        ELSE Done(w, [job[w] EXCEPT !.to = i,
               !.group = [id |-> groups[i].id,
                          refs |-> {<<job[w].place, j>> : j \in DOMAIN job[w].sub.nodes}]])
     /\ UNCHANGED lists

PutGroup(w) ==
  /\ At(w, "putGroup")
  /\ groups' = ListSet(groups, job[w].to, job[w].group)
  /\ Done(w, job[w])
  /\ UNCHANGED <<servers, subs>>

(* updateSubscription, and saveNodeEdit of a subscription's node.          *)
EditSubscription(w, k, nodes) ==
  /\ IsIdle(w) /\ k \in DOMAIN subs /\ Len(nodes) = Len(subs[k].nodes)
  /\ Begin(w, [Idle EXCEPT !.todo = <<"putSub">>, !.place = k,
                           !.sub = [id |-> subs[k].id, nodes |-> nodes]])
  /\ UNCHANGED lists

DeleteSubscription(w, k) ==
  /\ IsIdle(w) /\ k \in DOMAIN subs
  /\ Begin(w, [Idle EXCEPT !.todo = <<"dropGroups", "dropSub">>, !.place = k,
                           !.drop = {Place(groups, subs[k].id)} \ {0}])
  /\ UNCHANGED lists

DropSubscription(w) ==
  /\ At(w, "dropSub")
  /\ subs' = ListRemove(subs, {job[w].place})
  /\ Done(w, job[w])
  /\ UNCHANGED <<servers, groups>>

-----------------------------------------------------------------------------
(* Groups.                                                                 *)

(* createGroup and addServerToGroup are one transaction each and may come  *)
(* between the steps of any request.                                       *)
CreateGroup(g) ==
  /\ Place(groups, g) = 0 /\ Len(groups) < MaxGroups
  /\ groups' = Append(groups, [id |-> g, refs |-> {}])
  /\ UNCHANGED <<servers, subs, job>>

AddServerToGroup(i, ref) ==
  /\ i \in DOMAIN groups /\ Room(i, {ref})
  /\ groups' = AddToGroup(i, {ref})
  /\ UNCHANGED <<servers, subs, job>>

RemoveServersFromGroup(w, i, refs) ==
  /\ IsIdle(w) /\ i \in DOMAIN groups
  /\ groups' = RemoveFromGroup(i, refs)
  /\ UNCHANGED <<servers, subs, job>>

(* updateGroup writes the group it has read, under its new name.           *)
UpdateGroup(w, i) ==
  /\ IsIdle(w) /\ i \in DOMAIN groups /\ groups[i].id # "SERVER"
  /\ Begin(w, [Idle EXCEPT !.todo = <<"putGroup">>, !.to = i, !.group = groups[i]])
  /\ UNCHANGED lists

(* deleteGroup takes the subscription with it, or the own nodes listed.    *)
DeleteGroup(w, i) ==
  /\ IsIdle(w) /\ i \in DOMAIN groups /\ groups[i].id # "SERVER"
  /\ IF groups[i].id \in Subs
     THEN Begin(w, [Idle EXCEPT !.todo = <<"dropSub", "dropGroups">>, !.drop = {i},
                                !.place = Place(subs, groups[i].id)])
     ELSE Begin(w, [Idle EXCEPT !.todo = <<"dropNodes", "dropGroups">>, !.drop = {i},
                                !.refs = groups[i].refs])
  /\ UNCHANGED lists

DropNodes(w) ==
  /\ At(w, "dropNodes")
  /\ servers' = ListRemove(servers, {ref[2] : ref \in {r \in job[w].refs : r[1] = 0}})
  /\ Done(w, job[w])
  /\ UNCHANGED <<subs, groups>>

DropGroups(w) ==
  /\ At(w, "dropGroups")
  /\ groups' = ListRemove(groups, job[w].drop)
  /\ Done(w, job[w])
  /\ UNCHANGED <<servers, subs>>

(* cleanupOrphanGroups reads the groups, then the subscriptions.           *)
CleanupOrphanGroups(w) ==
  /\ IsIdle(w)
  /\ Begin(w, [Idle EXCEPT !.todo = <<"orphans", "dropGroups">>,
                           !.ids = [k \in DOMAIN groups |-> groups[k].id]])
  /\ UNCHANGED lists

(* Variant: every group without a subscription is an orphan.               *)
FindOrphansAll(w) ==
  LET orphan == {k \in DOMAIN job[w].ids : Place(subs, job[w].ids[k]) = 0}
  IN /\ At(w, "orphans")
     /\ IF orphan = {} THEN Leave(w)
        ELSE Done(w, [job[w] EXCEPT !.drop = orphan])
     /\ UNCHANGED lists

FindOrphans(w) ==
  LET orphan == {k \in DOMAIN job[w].ids :
                   job[w].ids[k] \in Subs /\ Place(subs, job[w].ids[k]) = 0}
  IN /\ At(w, "orphans")
     /\ IF orphan = {} THEN Leave(w)
        ELSE Done(w, [job[w] EXCEPT !.drop = orphan])
     /\ UNCHANGED lists

(* The process dies; what is stored stays.                                 *)
Crash ==
  /\ \E w \in Workers : ~IsIdle(w)
  /\ job' = [w \in Workers |-> Idle]
  /\ UNCHANGED lists

-----------------------------------------------------------------------------
Start(w) ==
  \/ \E n \in Nodes, g \in GroupIds \ Subs : ImportAuto(w, <<n>>, g)
  \/ \E n, m \in Nodes : ImportAuto(w, <<n, m>>, "SERVER")
  \/ \E g \in GroupIds, clone \in BOOLEAN, r, q \in Refs :
        CopyServersToGroup(w, {r, q}, g, clone)
  \/ \E i \in DOMAIN groups, target \in GroupIds, r, q \in Refs :
        {r, q} \subseteq groups[i].refs /\ MoveServersToGroup(w, {r, q}, groups[i].id, target)
  \/ \E i \in DOMAIN groups, recycle \in GroupIds, r, q \in Refs :
        {r, q} \subseteq groups[i].refs /\ CleanupInvalidNodes(w, i, {r, q}, recycle)
  \/ \E i, j \in DOMAIN servers : DeleteServers(w, {i, j})
  \/ \E i \in DOMAIN servers, n \in Nodes : EditServer(w, i, n)
  \/ \E s \in Subs : AddSubscription(w, s)
  \/ \E k \in DOMAIN subs :
       \/ UpdateSubscriptionNodes(w, k)
       \/ \E new \in Downloads : EditSubscription(w, k, new)
       \/ DeleteSubscription(w, k)
  \/ \E i \in DOMAIN groups :
       \/ \E ref \in groups[i].refs : RemoveServersFromGroup(w, i, {ref})
       \/ UpdateGroup(w, i) \/ DeleteGroup(w, i)
  \/ CleanupOrphanGroups(w)

Continue(w) ==
  \/ CountServers(w) \/ AppendServers(w) \/ FindGroup(w) \/ CreateServerGroup(w)
  \/ ListRefs(w) \/ UnlistRefs(w) \/ Relocate(w) \/ PutServer(w)
  \/ AppendGroup(w) \/ AppendSubscription(w) \/ TakePlace(w)
  \/ Fetch(w) \/ PutSubscription(w) \/ Regroup(w) \/ PutGroup(w)
  \/ DropSubscription(w) \/ DropNodes(w) \/ DropGroups(w) \/ FindOrphans(w)

Next ==
  \/ \E w \in Workers : Start(w) \/ Continue(w)
  \/ \E g \in Manual : CreateGroup(g)
  \/ \E i \in DOMAIN groups, ref \in Refs : AddServerToGroup(i, ref)
  \/ Crash

Spec == Init /\ [][Next]_vars

-----------------------------------------------------------------------------
TypeOK ==
  /\ servers \in Seq(Nodes)
  /\ \A k \in DOMAIN subs : subs[k].id \in Subs /\ subs[k].nodes \in Downloads
  /\ \A i \in DOMAIN groups :
       groups[i].id \in GroupIds /\ groups[i].refs \subseteq (Nat \X (Nat \ {0}))
  /\ \A w \in Workers : job[w].place \in Nat /\ job[w].nodes \in Seq(Nodes)

(* "never reuses an existing node" (handlers.go:1583): what an import or a *)
(* copy lists in a group are the nodes it has appended, though it has only *)
(* guessed their places from the length of the list.                       *)
NewRefsAreTheNewNodes ==
  \A w \in Workers : ListRefs(w) /\ job[w].nodes # <<>> =>
    \A k \in DOMAIN job[w].nodes :
      \E i \in DOMAIN servers :
        i = job[w].place + k /\ servers[i] = job[w].nodes[k] /\ <<0, i>> \in job[w].refs

Listed == UNION {groups[i].refs : i \in DOMAIN groups}

(* A move, of a user or of the cleanup (scheduler.go:154), lists its nodes *)
(* in the target before it takes them out of the source: whenever it       *)
(* stops, each node is listed somewhere.                                   *)
MoveLosesNothing ==
  \A w \in Workers :
    UnlistRefs(w) /\ job[w].to # 0 => Listed \subseteq Listed'

(* "groups of subscriptions that do not exist" (handlers.go:1993) are all  *)
(* that a cleanup removes, also after a crash half-way through an addition *)
(* or a deletion, and it removes every one of them.                        *)
CleanupIsExact ==
  \A w \in Workers : DropGroups(w) /\ job[w].ids # <<>> =>
    \A id \in GroupIds :
      Place(groups', id) # 0 <=>
        Place(groups, id) # 0 /\ ~(id \in Subs /\ Place(subs, id) = 0)

(* A subscription leaves the list only when it is the one being deleted: a *)
(* download is never stored over another (handlers.go:1926, 2094), and the *)
(* deletion of a group finds its own (handlers.go:2298).                   *)
SubscriptionsKept ==
  \A k \in DOMAIN subs :
    Place(subs', subs[k].id) = 0 =>
      \E w \in Workers : DropSubscription(w) /\ job[w].place = k
=============================================================================
