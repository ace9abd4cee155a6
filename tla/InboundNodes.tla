----------------------------- MODULE InboundNodes -----------------------------
(***************************************************************************)
(* Inbounds of the kinds cfdo and cfgoodnet run a local proxy inside the   *)
(* process (a sidecar) and appear as own nodes with their port.  A change  *)
(* of the inbounds stops and starts the sidecars, stores the ports they    *)
(* got, and rebuilds the list of own nodes: ordinary nodes first, then one *)
(* per sidecar, so that places move and every group has to be rewritten.   *)
(*                                                                         *)
(* A handler is a row of steps (job[h].todo), each one transaction of the  *)
(* store or one critical section of the table of sidecars.  A start of the *)
(* kernel stops and starts every sidecar again (engine.go:549, 669).  After *)
(* a crash the process boots: it parts nodes that groups share (once),     *)
(* starts the sidecars of the stored inbounds and rebuilds the list.       *)
(***************************************************************************)
EXTENDS Naturals, Sequences, SequencesExt, FiniteSets, Functions, Places

CONSTANTS
  Ordinary,      \* nodes users import
  Cfdo,          \* ids of inbounds of kind cfdo
  CfGoodNet,     \* ids of inbounds of kind cfgoodnet
  Ports,         \* ports a sidecar may get
  Lists,         \* the lists of inbounds users store, each with its port or without
  Handlers,      \* requests that change inbounds at the same time
  WithCrash,     \* the process may die and boot again
  MaxServers     \* bound: own nodes

Inbounds == Cfdo \union CfGoodNet
Groups == {"SERVER", "a"}
NoPort == 0

Rows == [id : Inbounds, port : Ports \union {NoPort}]

InboundAssumption ==
  /\ Ordinary \intersect Inbounds = {} /\ Cfdo \intersect CfGoodNet = {}
  /\ NoPort \notin Ports /\ MaxServers \in Nat /\ Lists \subseteq Seq(Rows)
  /\ Handlers \intersect {"boot", "kernel"} = {}

(* An inbound without an id is given a random one (setCustomInbounds), and *)
(* the client sends the others back with theirs: none is listed twice.     *)
Distinct(list) == \A m, n \in DOMAIN list : list[m].id = list[n].id => m = n

VARIABLES
  inbounds,   \* system/custom_inbounds
  servers,    \* touch/servers: [src, port] of each node
  refs,       \* the own nodes each group lists, by place
  entries,    \* the table of sidecars: port (NoPort: not known yet) and starter
  socks,      \* sockets that listen: id, port, and whether it is being closed
  job,        \* the handlers, "boot" and "kernel"
  up,         \* the process serves requests
  parted,     \* SharedNodesFixed
  member      \* history: what each group should list, by source

vars == <<inbounds, servers, refs, entries, socks, job, up, parted, member>>
lists == <<inbounds, servers, refs, parted, member>>
tables == <<entries, socks>>

Idle == [todo |-> <<>>, list |-> <<>>, gs |-> <<>>, old |-> <<>>, left |-> {},
         dead |-> FALSE, sock |-> NoPort]

Node(src, port) == [src |-> src, port |-> port]
FromInbound(node) == node.src \in Inbounds

(* ServerRaw.Source, with the node itself for an ordinary one: the port of *)
(* a cfdo node belongs to it, that of a cfgoodnet node does not.           *)
Source(node) == IF node.src \in Cfdo THEN <<node.src, node.port>> ELSE <<node.src>>
Sources(list) == {Source(list[i]) : i \in DOMAIN list}

-----------------------------------------------------------------------------
(* Variant: the nodes of inbounds are kept as they were.                   *)
NewServersKept(old, list) ==
  LET known == Pick(list, {k \in DOMAIN list :
                 list[k].port # NoPort /\ \A i \in DOMAIN old : old[i].src # list[k].id})
  IN old \o [k \in DOMAIN known |-> Node(known[k].id, known[k].port)]

OwnServers(list) == Pick(list, {i \in DOMAIN list : ~FromInbound(list[i])})
Running(list) ==
  LET known == Pick(list, {k \in DOMAIN list : list[k].port # NoPort})
  IN [k \in DOMAIN known |-> Node(known[k].id, known[k].port)]

(* Ordinary nodes in their order, then a node per inbound with a port.     *)
NewServers(old, list) == OwnServers(old) \o Running(list)

(* Variant: the nodes of inbounds are looked up by place like the others.  *)
NewPlaceByOrder(old, new, i) ==
  IF i \notin DOMAIN old THEN {}
  ELSE {Cardinality({k \in 1 .. i : ~FromInbound(old[k])})}

(* The place of an ordinary node is how many there are up to it, that of   *)
(* an inbound's node is found by its source; {} if there is none.          *)
NewPlace(old, new, i) ==
  IF i \notin DOMAIN old THEN {}
  ELSE IF FromInbound(old[i])
       THEN {k \in DOMAIN new : FromInbound(new[k]) /\ Source(new[k]) = Source(old[i])}
       ELSE {Cardinality({k \in 1 .. i : ~FromInbound(old[k])})}

(* A group that lists nothing is left alone, the built-in one included.    *)
NewRefs(g, listed, old, new) ==
  IF listed = {} THEN {}
  ELSE (UNION {NewPlace(old, new, i) : i \in listed}) \union
         IF g = "SERVER" THEN {k \in DOMAIN new : FromInbound(new[k])} ELSE {}

-----------------------------------------------------------------------------
At(h, label) == job[h].todo # <<>> /\ Head(job[h].todo) = label
Begin(h, task) == job' = [job EXCEPT ![h] = task]
Done(h, known) ==
  job' = [job EXCEPT ![h] = IF Len(known.todo) = 1 THEN Idle
                            ELSE [known EXCEPT !.todo = Tail(known.todo)]]

Init ==
  /\ inbounds = <<>>
  /\ servers \in {<<>>} \union {<<Node(n, NoPort)>> : n \in Ordinary}
  /\ refs = [g \in Groups |-> IF g = "SERVER" THEN DOMAIN servers ELSE {}]
  /\ member = [g \in Groups |-> IF g = "SERVER" THEN Sources(servers) ELSE {}]
  /\ entries = <<>>
  /\ socks = {}
  /\ job = [h \in Handlers \union {"boot", "kernel"} |-> Idle]
  /\ up = TRUE
  /\ parted \in {TRUE, ~WithCrash}

-----------------------------------------------------------------------------
(* The requests.                                                           *)

(* setCustomInbounds: the list is stored, the sidecars of each kind the    *)
(* old or the new list has are stopped, those of the new list started.     *)
SetCustomInbounds(h, list) ==
  /\ up /\ job[h] = Idle /\ job["kernel"] = Idle
  /\ inbounds' = list
  /\ LET all == inbounds \o list
         kinds == {K \in {Cfdo, CfGoodNet} : \E k \in DOMAIN all : all[k].id \in K}
     IN Begin(h, [Idle EXCEPT
          !.todo = <<"stop", "wait", "ensure", "store", "read", "servers", "groups">>,
          !.list = list, !.left = UNION kinds])
  /\ UNCHANGED <<servers, refs, tables, up, parted, member>>

(* restartBuiltinProxy: one of them is stopped and started.                *)
RestartBuiltinProxy(h, k) ==
  /\ up /\ job[h] = Idle /\ job["kernel"] = Idle /\ k \in DOMAIN inbounds
  /\ Begin(h, [Idle EXCEPT
       !.todo = <<"stop", "wait", "one", "store", "read", "servers", "groups">>,
       !.list = inbounds, !.left = {inbounds[k].id}])
  /\ UNCHANGED <<lists, tables, up>>

(* Stop, StopAll: out of the table and cancelled.                          *)
Stop(h) ==
  /\ At(h, "stop")
  /\ LET gone == job[h].left \intersect DOMAIN entries
     IN /\ entries' = Restrict(entries, DOMAIN entries \ gone)
        /\ socks' = {IF s.id \in gone /\ entries[s.id].port = s.port
                     THEN [s EXCEPT !.closing = TRUE] ELSE s : s \in socks}
        /\ job' = [g \in DOMAIN job |->
             IF g = h THEN [job[h] EXCEPT !.todo = Tail(job[h].todo)]
             ELSE IF \E i \in gone : entries[i] = [port |-> NoPort, by |-> g]
                  THEN [job[g] EXCEPT !.dead = TRUE] ELSE job[g]]
  /\ UNCHANGED <<lists, up>>

(* The three seconds it waits are enough for a socket to be closed.        *)
WaitForStops(h) ==
  /\ At(h, "wait")
  /\ \A s \in socks : ~(s.closing /\ s.id \in job[h].left)
  /\ Done(h, [job[h] EXCEPT !.left =
       {k \in DOMAIN job[h].list : job[h].list[k].id \in job[h].left \/ job[h].todo[2] # "one"}])
  /\ UNCHANGED <<lists, tables, up>>

(* A cancelled sidecar closes its socket; one of cfgoodnet then deletes    *)
(* the entry of its key, whosever it is.                                   *)
CloseSocket(s) ==
  /\ s \in socks /\ s.closing
  /\ socks' = socks \ {s}
  /\ entries' = IF s.id \in CfGoodNet THEN Restrict(entries, DOMAIN entries \ {s.id}) ELSE entries
  /\ UNCHANGED <<lists, job, up>>

-----------------------------------------------------------------------------
(* EnsureRunning, for one inbound after the other.                         *)

First(h) == CHOOSE k \in job[h].left : \A m \in job[h].left : k <= m
Starts(h) == At(h, "ensure") \/ At(h, "one") \/ At(h, "start")
Ensuring(h) == Starts(h) /\ job[h].left # {}
Id(h) == job[h].list[First(h)].id
Starting(h) == Ensuring(h) /\ job[h].sock # NoPort
Mine(h) == Id(h) \in DOMAIN entries /\ entries[Id(h)] = [port |-> NoPort, by |-> h]

(* One more inbound is dealt with; with port p if its sidecar runs.        *)
Next1(h, p) ==
  LET k == First(h)
      list == job[h].list
  IN Begin(h, [job[h] EXCEPT
       !.left = job[h].left \ {k}, !.dead = FALSE, !.sock = NoPort,
       !.list = IF p = NoPort THEN list
                ELSE [list EXCEPT ![k] = [id |-> list[k].id, port |-> p]]])

(* The entry is made before the socket; a key that has one is left alone.  *)
Register(h) ==
  /\ Ensuring(h) /\ job[h].sock = NoPort /\ ~Mine(h) /\ ~job[h].dead
  /\ IF Id(h) \in DOMAIN entries
     THEN Next1(h, entries[Id(h)].port) /\ UNCHANGED entries
     ELSE /\ entries' = [i \in DOMAIN entries \union {Id(h)} |->
                           IF i = Id(h) THEN [port |-> NoPort, by |-> h] ELSE entries[i]]
          /\ UNCHANGED job
  /\ UNCHANGED <<lists, socks, up>>

Free == Ports \ {s.port : s \in socks}

Listen(h) ==
  /\ Ensuring(h) /\ job[h].sock = NoPort /\ (Mine(h) \/ job[h].dead)
  /\ \E p \in Free :
       /\ job[h].list[First(h)].port \in {NoPort, p}
       /\ socks' = socks \union {[id |-> Id(h), port |-> p, closing |-> FALSE]}
       /\ Begin(h, [job[h] EXCEPT !.sock = p])
  /\ UNCHANGED <<lists, entries, up>>

(* Variant: the entry stays.                                               *)
ListenFailsKeeps(h) ==
  /\ Ensuring(h) /\ job[h].sock = NoPort /\ (Mine(h) \/ job[h].dead)
  /\ IF ~At(h, "ensure") THEN Begin(h, Idle) ELSE Next1(h, NoPort)
  /\ UNCHANGED <<lists, tables, up>>

(* The port is in use, by a socket of ours or of another program.  The     *)
(* entry of the key is deleted; a restart of one, or of the kernel, then   *)
(* gives up.                                                               *)
ListenFails(h) ==
  /\ Ensuring(h) /\ job[h].sock = NoPort /\ (Mine(h) \/ job[h].dead)
  /\ entries' = Restrict(entries, DOMAIN entries \ {Id(h)})
  /\ IF ~At(h, "ensure") THEN Begin(h, Idle) ELSE Next1(h, NoPort)
  /\ UNCHANGED <<lists, socks, up>>

(* updateInboundRuntimePort: a port the kernel's start was the first to    *)
(* learn is stored, and every inbound with a port gets its node: at the    *)
(* place of the one it has, or at the end (syncInboundProxyServers...).    *)
WithPort(id, p) == [k \in DOMAIN inbounds |->
  IF inbounds[k].id = id THEN [id |-> id, port |-> p] ELSE inbounds[k]]

SyncServers(list) ==
  LET known == {list[k] : k \in {k \in DOMAIN list : list[k].port # NoPort}}
      Of(ib) == Node(ib.id, ib.port)
      here == [i \in DOMAIN servers |->
        IF \E ib \in known : Source(Of(ib)) = Source(servers[i])
        THEN Of(CHOOSE ib \in known : Source(Of(ib)) = Source(servers[i])) ELSE servers[i]]
  IN here \o SetToSeq({Of(ib) : ib \in {ib \in known : Source(Of(ib)) \notin Sources(servers)}})

(* The address is put in the entry of the key, if there is one.            *)
SetAddr(h) ==
  /\ Starting(h)
  /\ IF At(h, "start") /\ WithPort(Id(h), job[h].sock) # inbounds
     THEN /\ inbounds' = WithPort(Id(h), job[h].sock)
          /\ servers' = SyncServers(inbounds')
     ELSE UNCHANGED <<inbounds, servers>>
  /\ entries' = IF Id(h) \in DOMAIN entries
                THEN [entries EXCEPT ![Id(h)].port = job[h].sock] ELSE entries
  /\ socks' = IF job[h].dead
              THEN {IF s.port = job[h].sock THEN [s EXCEPT !.closing = TRUE] ELSE s : s \in socks}
              ELSE socks
  /\ Next1(h, job[h].sock)
  /\ UNCHANGED <<refs, parted, member, up>>

EnsureDone(h) ==
  /\ Starts(h) /\ job[h].left = {}
  /\ Done(h, job[h])
  /\ UNCHANGED <<lists, tables, up>>

-----------------------------------------------------------------------------
(* rebuildInboundProxyServers.                                             *)

Store(h) ==
  /\ At(h, "store")
  /\ inbounds' = job[h].list
  /\ Done(h, job[h])
  /\ UNCHANGED <<servers, refs, tables, up, parted, member>>

(* GetGroups, then GetServers.                                             *)
Read(h) ==
  /\ At(h, "read")
  /\ Done(h, [job[h] EXCEPT !.gs = refs, !.old = servers])
  /\ UNCHANGED <<lists, tables, up>>

PutServers(h) ==
  LET new == NewServers(job[h].old, job[h].list)
  IN /\ At(h, "servers")
     /\ servers' = new
     /\ member' = [g \in Groups |->
          IF job[h].gs[g] = {} THEN {}
          ELSE (member[g] \intersect Sources(new)) \union
               IF g = "SERVER" THEN Sources(Running(job[h].list)) ELSE {}]
     /\ Done(h, [job[h] EXCEPT !.left = Groups])
     /\ UNCHANGED <<inbounds, refs, tables, up, parted>>

(* SetGroup for one group after the other; then the handler restarts the   *)
(* kernel, and a boot is over.                                             *)
PutGroup(h, g) ==
  /\ At(h, "groups") /\ g \in job[h].left
  /\ refs' = [refs EXCEPT ![g] =
       NewRefs(g, job[h].gs[g], job[h].old, NewServers(job[h].old, job[h].list))]
  /\ IF job[h].left = {g} THEN Begin(h, Idle)
     ELSE Begin(h, [job[h] EXCEPT !.left = job[h].left \ {g}])
  /\ up' = (up \/ (h = "boot" /\ job[h].left = {g}))
  /\ UNCHANGED <<inbounds, servers, tables, parted, member>>

-----------------------------------------------------------------------------
(* The user imports an ordinary node (into SERVER), and lists a node in a  *)
(* group.                                                                  *)
Quiet == \A h \in DOMAIN job : job[h] = Idle

(* Manager.Start: the sidecars of one kind, then those of the other.  It   *)
(* is not let in while a request is under way (see the README).            *)
StartKernel ==
  /\ up /\ Quiet
  /\ Begin("kernel", [Idle EXCEPT !.todo =
       <<"goodnet", "stop", "wait", "start", "cfdo", "stop", "wait", "start">>])
  /\ UNCHANGED <<lists, tables, up>>

TakeKind(kind, label) ==
  /\ At("kernel", label)
  /\ Done("kernel", [job["kernel"] EXCEPT !.left = kind,
       !.list = Pick(inbounds, {k \in DOMAIN inbounds : inbounds[k].id \in kind})])
  /\ UNCHANGED <<lists, tables, up>>

Import(n) ==
  /\ up /\ Quiet /\ Len(servers) < MaxServers
  /\ servers' = Append(servers, Node(n, NoPort))
  /\ refs' = [refs EXCEPT !["SERVER"] = @ \union {Len(servers) + 1}]
  /\ member' = [member EXCEPT !["SERVER"] = @ \union {<<n>>}]
  /\ UNCHANGED <<inbounds, tables, job, up, parted>>

ListNode(i) ==
  /\ up /\ Quiet /\ i \in DOMAIN servers
  /\ refs' = [refs EXCEPT !["a"] = @ \union {i}]
  /\ member' = [member EXCEPT !["a"] = @ \union {Source(servers[i])}]
  /\ UNCHANGED <<inbounds, servers, tables, job, up, parted>>

-----------------------------------------------------------------------------
(* The process dies, anywhere but between PutServers and the last PutGroup *)
(* (the groups that are not rewritten by then stay wrong: no boot can tell *)
(* the old places any more), and boots.                                    *)
Crash ==
  /\ WithCrash /\ \A h \in DOMAIN job : ~At(h, "groups")
  /\ entries' = <<>> /\ socks' = {}
  /\ up' = FALSE
  /\ job' = [h \in DOMAIN job |->
       IF h = "boot"
       THEN [Idle EXCEPT !.todo = IF parted THEN <<"load">> ELSE <<"part", "load">>]
       ELSE Idle]
  /\ UNCHANGED lists

(* fixSharedNodes: in the groups after the first that lists a node, it is  *)
(* replaced by a copy.  The groups are read once.                          *)
FindShared ==
  /\ At("boot", "part") /\ job["boot"].gs = <<>>
  /\ Begin("boot", [job["boot"] EXCEPT !.gs = refs,
       !.left = refs["SERVER"] \intersect refs["a"] \intersect DOMAIN servers])
  /\ UNCHANGED <<lists, tables, up>>

AppendCopy(i) ==
  /\ At("boot", "part") /\ i \in job["boot"].left /\ Len(servers) < MaxServers
  /\ servers' = Append(servers, servers[i])
  /\ LET t == job["boot"]
     IN Begin("boot", [t EXCEPT !.left = t.left \ {i}, !.todo = <<"copied", "part", "load">>,
          !.gs = [t.gs EXCEPT !["a"] = (t.gs["a"] \ {i}) \union {Len(servers) + 1}]])
  /\ UNCHANGED <<inbounds, refs, tables, up, parted, member>>

(* Variant: the group keeps the reference it had.                          *)
PutCopyKeeps ==
  /\ At("boot", "copied")
  /\ refs' = [refs EXCEPT !["a"] = @ \union job["boot"].gs["a"]]
  /\ Done("boot", job["boot"])
  /\ UNCHANGED <<inbounds, servers, tables, up, parted, member>>

PutCopy ==
  /\ At("boot", "copied")
  /\ refs' = [refs EXCEPT !["a"] = job["boot"].gs["a"]]
  /\ Done("boot", job["boot"])
  /\ UNCHANGED <<inbounds, servers, tables, up, parted, member>>

Parted ==
  /\ At("boot", "part") /\ job["boot"].gs # <<>> /\ job["boot"].left = {}
  /\ parted' = TRUE
  /\ Done("boot", [job["boot"] EXCEPT !.gs = <<>>])
  /\ UNCHANGED <<inbounds, servers, refs, tables, up, member>>

(* EnsureIndependentProxyInbounds.                                         *)
Load ==
  /\ At("boot", "load")
  /\ Begin("boot", [Idle EXCEPT !.todo = <<"ensure", "store", "read", "servers", "groups">>,
                                !.list = inbounds, !.left = DOMAIN inbounds])
  /\ UNCHANGED <<lists, tables, up>>

-----------------------------------------------------------------------------
Continue(h) ==
  \/ Stop(h) \/ WaitForStops(h) \/ Register(h) \/ Listen(h) \/ ListenFails(h)
  \/ SetAddr(h) \/ EnsureDone(h) \/ Store(h) \/ Read(h) \/ PutServers(h)
  \/ \E g \in Groups : PutGroup(h, g)

Next ==
  \/ \E h \in Handlers :
       \/ \E list \in {l \in Lists : Distinct(l)} \union {inbounds} : SetCustomInbounds(h, list)
       \/ \E k \in DOMAIN inbounds : RestartBuiltinProxy(h, k)
  \/ \E h \in DOMAIN job : Continue(h)
  \/ \E s \in socks : CloseSocket(s)
  \/ StartKernel \/ TakeKind(CfGoodNet, "goodnet") \/ TakeKind(Cfdo, "cfdo")
  \/ \E n \in Ordinary : Import(n)
  \/ \E i \in DOMAIN servers : ListNode(i)
  \/ Crash \/ FindShared \/ PutCopy \/ Parted \/ Load
  \/ \E i \in job["boot"].left : AppendCopy(i)

Spec == Init /\ [][Next]_vars

-----------------------------------------------------------------------------
TypeOK ==
  /\ inbounds \in Seq(Rows)
  /\ \A i \in DOMAIN servers : servers[i].src \in Ordinary \union Inbounds
  /\ \A g \in Groups : refs[g] \subseteq Nat \ {0}
  /\ DOMAIN entries \subseteq Inbounds
  /\ \A s \in socks : s.id \in Inbounds /\ s.port \in Ports
  /\ up \in BOOLEAN /\ parted \in BOOLEAN

(* The table tells what runs: whenever no request is under way, the        *)
(* sidecars that listen are those in the table, each once, on the port the *)
(* table says: else Stop would leave one behind on its port for good.      *)
TableMatchesSockets ==
  Quiet =>
    /\ {[id |-> s.id, port |-> s.port] : s \in socks} =
       {[id |-> i, port |-> entries[i].port] : i \in DOMAIN entries}
    /\ \A s, t \in socks : s.id = t.id => s = t

(* ... and every sidecar that runs can be used: the one own node of its    *)
(* inbound has the port it listens on, whatever it was configured with.    *)
SidecarsHaveNodes ==
  Quiet /\ up => \A i \in DOMAIN entries :
    {servers[k].port : k \in {k \in DOMAIN servers : servers[k].src = i}} = {entries[i].port}

(* A rebuild moves the places of nodes, never the nodes a group lists: the *)
(* ordinary ones and the surviving ones of inbounds, and in SERVER the new *)
(* ones; also after the copies made at boot (main.go:296).                 *)
GroupsKeepMembers ==
  Quiet /\ up => \A g \in Groups :
    /\ refs[g] \subseteq DOMAIN servers
    /\ {Source(servers[i]) : i \in refs[g]} = member[g]

(* "repair nodes shared between groups" (main.go:296): once the migration  *)
(* is over no own node is listed by two groups, a crash half-way included. *)
NodesParted == Parted => refs["SERVER"] \intersect refs["a"] \intersect DOMAIN servers = {}
=============================================================================
