-------------------------- MODULE InboundNodesProofs --------------------------
(***************************************************************************)
(* What the inbounds, their sidecars and the nodes made from them keep     *)
(* while one request at a time changes the inbounds, the kernel starts     *)
(* between requests, and the process dies and boots, for any inbounds,     *)
(* ports and nodes.                                                        *)
(***************************************************************************)
EXTENDS InboundNodes, FiniteSetTheorems, SequenceTheorems, WellFoundedInduction, TLAPS

(* Two requests write each other's entries (see the README): what is shown *)
(* here is of one at a time, which may die between any two steps.          *)
Single == \E h : Handlers = {h}

Actors == Handlers \union {"boot", "kernel"}

-----------------------------------------------------------------------------
(* The steps an actor may have left to run.                                *)
Rebuilding ==
  {<<"store", "read", "servers", "groups">>, <<"read", "servers", "groups">>,
   <<"servers", "groups">>, <<"groups">>}
Changing ==
  {<<"stop", "wait", "ensure", "store", "read", "servers", "groups">>,
   <<"wait", "ensure", "store", "read", "servers", "groups">>,
   <<"stop", "wait", "one", "store", "read", "servers", "groups">>,
   <<"wait", "one", "store", "read", "servers", "groups">>,
   <<"one", "store", "read", "servers", "groups">>}
Ensures == {<<"ensure", "store", "read", "servers", "groups">>}
Booting == {<<"part", "load">>, <<"copied", "part", "load">>, <<"load">>}
Kernels ==
  {<<"goodnet", "stop", "wait", "start", "cfdo", "stop", "wait", "start">>,
   <<"stop", "wait", "start", "cfdo", "stop", "wait", "start">>,
   <<"wait", "start", "cfdo", "stop", "wait", "start">>,
   <<"start", "cfdo", "stop", "wait", "start">>, <<"cfdo", "stop", "wait", "start">>,
   <<"stop", "wait", "start">>, <<"wait", "start">>, <<"start">>}

Plans(w) ==
  {<<>>} \union IF w = "kernel" THEN Kernels
                ELSE Rebuilding \union Ensures \union IF w = "boot" THEN Booting ELSE Changing

Nodes == [src : Ordinary \union Inbounds, port : Ports \union {NoPort}]
RefSets == SUBSET (Nat \ {0})

Ahead(t, label) == t.todo # <<>> /\ Head(t.todo) = label
AtStarts(t) == Ahead(t, "ensure") \/ Ahead(t, "one") \/ Ahead(t, "start")
Pending(t) == AtStarts(t) /\ t.left # {}
FirstOf(t) == CHOOSE k \in t.left : \A m \in t.left : k <= m
IdOf(t) == t.list[FirstOf(t)].id

(* The restart of one sidecar, up to the storing of its port.              *)
Restarts(t) ==
  \/ Ahead(t, "stop") /\ t.todo[3] = "one"
  \/ Ahead(t, "wait") /\ t.todo[2] = "one"
  \/ Ahead(t, "one")

IsTask(w, t) ==
  /\ t = [todo |-> t.todo, list |-> t.list, gs |-> t.gs, old |-> t.old, left |-> t.left,
          dead |-> t.dead, sock |-> t.sock]
  /\ t.dead = FALSE
  /\ t.todo \in Plans(w) /\ (t.todo = <<>> => t = Idle)
  /\ t.list \in Seq(Rows) /\ Distinct(t.list)
  /\ t.gs # <<>> => t.gs \in [Groups -> RefSets]
  /\ t.old \in Seq(Nodes)
  /\ t.sock \in Ports \union {NoPort}
  /\ Ahead(t, "stop") \/ Ahead(t, "wait") => t.left \subseteq Inbounds
  /\ AtStarts(t) => t.left \subseteq DOMAIN t.list
  /\ Ahead(t, "groups") => t.left \subseteq Groups /\ t.left # {}
  /\ Ahead(t, "servers") \/ Ahead(t, "groups") => t.gs # <<>>

ListsTyped ==
  /\ inbounds \in Seq(Rows) /\ Distinct(inbounds)
  /\ servers \in Seq(Nodes)
  /\ refs \in [Groups -> RefSets]
  /\ member = [g \in Groups |-> member[g]]
  /\ entries = [i \in DOMAIN entries |-> entries[i]] /\ DOMAIN entries \subseteq Inbounds
  /\ \A i \in DOMAIN entries : entries[i] \in [port : Ports \union {NoPort}, by : Actors]
  /\ socks \subseteq [id : Inbounds, port : Ports, closing : BOOLEAN]
  /\ up \in BOOLEAN /\ parted \in BOOLEAN
Typed == ListsTyped /\ job = [w \in Actors |-> job[w]]

-----------------------------------------------------------------------------
(* The table of sidecars and the sockets, while w has t to do: each socket *)
(* that is not being closed has its entry, and each entry its socket, but  *)
(* for the one that is being started.                                      *)
Open(i, p) == [id |-> i, port |-> p, closing |-> FALSE]
TableOf(w, t) ==
  /\ \A r, s \in socks : r.port = s.port => r = s
  /\ \A s \in socks : s.closing => Ahead(t, "wait") /\ s.id \in t.left /\ s.id \notin DOMAIN entries
  /\ \A s \in socks : ~s.closing =>
       /\ s.id \in DOMAIN entries
       /\ entries[s.id].port = s.port \/ (entries[s.id].port = NoPort /\ t.sock = s.port)
  /\ \A i \in DOMAIN entries :
       IF entries[i].port = NoPort THEN Pending(t) /\ i = IdOf(t) /\ entries[i].by = w
       ELSE Open(i, entries[i].port) \in socks
  /\ t.sock # NoPort =>
       /\ Pending(t) /\ IdOf(t) \in DOMAIN entries /\ t.list[FirstOf(t)].port \in {NoPort, t.sock}
       /\ entries[IdOf(t)] = [port |-> NoPort, by |-> w] /\ Open(IdOf(t), t.sock) \in socks

(* The port of an entry is in the list: the stored one, or the one about   *)
(* to be stored.                                                           *)
Shown(list) ==
  \A i \in DOMAIN entries : entries[i].port # NoPort =>
    \E m \in DOMAIN list : list[m] = [id |-> i, port |-> entries[i].port]
PortsOf(w, t) ==
  /\ t.todo = <<>> \/ w = "kernel" => Shown(inbounds)
  /\ t.todo # <<>> /\ w # "kernel" =>
       IF Ahead(t, "stop") /\ t.todo[3] = "ensure" THEN DOMAIN entries \subseteq t.left
       ELSE Shown(t.list)
  /\ \/ Ahead(t, "read") \/ Ahead(t, "servers") \/ Ahead(t, "groups")
     \/ Restarts(t) /\ (Ahead(t, "one") => t.left # {})
     => inbounds = t.list
  /\ Restarts(t) => \A m, n \in t.left : m = n
  /\ w = "kernel" /\ (Ahead(t, "stop") \/ Ahead(t, "wait")) =>
       \A k \in DOMAIN t.list : \E m \in DOMAIN inbounds : inbounds[m] = t.list[k]
  /\ Ahead(t, "start") => \A k \in t.left : \E m \in DOMAIN inbounds : inbounds[m] = t.list[k]
  /\ Ahead(t, "part") \/ Ahead(t, "copied") \/ Ahead(t, "load") => DOMAIN entries = {}
  /\ up <=> ~(w = "boot" /\ t.todo # <<>>)

(* The nodes of inbounds are those of the stored ports.                    *)
Fits(list) ==
  /\ \A k \in DOMAIN servers : FromInbound(servers[k]) =>
       \E m \in DOMAIN list : list[m].port # NoPort /\ servers[k] = Node(list[m].id, list[m].port)
  /\ \A m \in DOMAIN list : list[m].port # NoPort =>
       \E k \in DOMAIN servers : servers[k] = Node(list[m].id, list[m].port)
NodesOf(w, t) ==
  t.todo = <<>> \/ w = "kernel" \/ Restarts(t) \/ Ahead(t, "groups") => Fits(inbounds)

(* The groups list their members, and those that are still to be rewritten *)
(* will: the task has read what is still so, or has just replaced it.      *)
ListsMembers(g, places) ==
  places \subseteq DOMAIN servers /\ {Source(servers[i]) : i \in places} = member[g]
MembersOf(t) ==
  /\ ~Ahead(t, "groups") => \A g \in Groups : ListsMembers(g, refs[g])
  /\ Ahead(t, "servers") => t.gs = refs /\ t.old = servers
  /\ Ahead(t, "groups") =>
       /\ servers = NewServers(t.old, t.list)
       /\ \A g \in Groups :
            ListsMembers(g, IF g \in t.left THEN NewRefs(g, t.gs[g], t.old, servers) ELSE refs[g])

(* The migration at boot knows which nodes are still shared.               *)
CopiesOf(t) ==
  /\ Ahead(t, "part") => IF t.gs = <<>> THEN t.left = {} ELSE t.gs = refs
  /\ Ahead(t, "copied") =>
       t.gs # <<>> /\ t.gs["SERVER"] = refs["SERVER"] /\ ListsMembers("a", t.gs["a"])
  /\ (Ahead(t, "part") \/ Ahead(t, "copied")) /\ t.gs # <<>> =>
       t.left = t.gs["SERVER"] \intersect t.gs["a"] \intersect DOMAIN servers

Known(w, t) ==
  IsTask(w, t) /\ TableOf(w, t) /\ PortsOf(w, t) /\ NodesOf(w, t) /\ MembersOf(t) /\ CopiesOf(t)

(* One actor at most has something to do.                                  *)
Turn(w) == (\A v \in Actors \ {w} : job[v] = Idle) /\ Known(w, job[w])
IInv == Typed /\ \E w \in Actors : Turn(w)
-----------------------------------------------------------------------------
(* Of two places of a set, fewer come before the earlier one: every number *)
(* up to the size of the set is the rank of just one place.                *)
Rank(S, i) == Cardinality({m \in S : m < i}) + 1

(* The places of a set, in order, are numbered by their ranks.             *)
LEMMA Ranks ==
  ASSUME NEW S \in SUBSET Nat, IsFiniteSet(S)
  PROVE  /\ Cardinality(S) \in Nat
         /\ \A k \in 1 .. Cardinality(S) : Nth(S, k) \in S /\ Rank(S, Nth(S, k)) = k
         /\ \A i \in S : Rank(S, i) \in 1 .. Cardinality(S) /\ Nth(S, Rank(S, i)) = i
<1> DEFINE n == Cardinality(S)
           before(i) == {m \in S : m < i}
           rank == [i \in S |-> Cardinality(before(i)) + 1]
<1>1. n \in Nat
  BY FS_CardinalityType
<1>2. ASSUME NEW i \in S
      PROVE  IsFiniteSet(before(i)) /\ Cardinality(before(i)) \in Nat /\ rank[i] \in 1 .. n
  <2>1. before(i) \in SUBSET S /\ before(i) # S
    OBVIOUS
  <2>2. /\ IsFiniteSet(before(i)) /\ Cardinality(before(i)) <= n
        /\ n = Cardinality(before(i)) => S = before(i)
    BY <2>1, FS_Subset
  <2>3. Cardinality(before(i)) \in Nat
    BY <2>2, FS_CardinalityType
  <2> HIDE DEF before
  <2> QED BY <1>1, <2>1, <2>2, <2>3
<1>3. ASSUME NEW i \in S, NEW j \in S, i < j
      PROVE  rank[i] # rank[j]
  <2>1. before(i) \in SUBSET before(j) /\ i \in before(j) /\ i \notin before(i)
    <3>1. \A m \in S : m \in Nat
      OBVIOUS
    <3>2. \A m \in S : m < i => m < j
      BY <1>3, <3>1
    <3>3. before(i) \subseteq before(j)
      BY <3>2
    <3>4. i \in before(j) /\ ~(i < i)
      BY <1>3, <3>1
    <3> QED BY <3>3, <3>4
  <2>2. Cardinality(before(j)) = Cardinality(before(i)) => before(j) = before(i)
    BY <1>2, <2>1, FS_Subset
  <2>3. rank[i] = Cardinality(before(i)) + 1 /\ rank[j] = Cardinality(before(j)) + 1
    OBVIOUS
  <2>4. Cardinality(before(i)) \in Nat /\ Cardinality(before(j)) \in Nat
    BY <1>2
  <2> HIDE DEF before, rank
  <2> QED BY <2>1, <2>2, <2>3, <2>4
<1>4. rank \in Injection(S, 1 .. n)
  <2>1. rank \in [S -> 1 .. n]
    BY <1>2
  <2>2. ASSUME NEW i \in S, NEW j \in S, rank[i] = rank[j]
        PROVE  i = j
    <3>1. i < j \/ j < i \/ i = j
      OBVIOUS
    <3> HIDE DEF rank
    <3> QED BY <1>3, <2>2, <3>1
  <2> HIDE DEF rank
  <2> QED BY <2>1, <2>2 DEF Injection, IsInjective
<1>5. IsFiniteSet(1 .. n) /\ Cardinality(1 .. n) = n
  BY <1>1, FS_Interval
<1>6. rank \in Surjection(S, 1 .. n)
  BY <1>4, <1>5, FS_Injection
<1>7. \A k \in 1 .. n : \E i \in S : rank[i] = k
  BY <1>6 DEF Surjection
<1>8. \A i \in S : rank[i] = Cardinality(before(i)) + 1
  OBVIOUS
<1>9. \A k \in 1 .. n, i \in S : rank[i] = k <=> Cardinality(before(i)) = k - 1
  BY <1>1, <1>2, <1>8
<1>10. \A k \in 1 .. n : Nth(S, k) \in S /\ Cardinality(before(Nth(S, k))) = k - 1
  <2> SUFFICES ASSUME NEW k \in 1 .. n
               PROVE  Nth(S, k) \in S /\ Cardinality(before(Nth(S, k))) = k - 1
    OBVIOUS
  <2>1. \E i \in S : Cardinality(before(i)) = k - 1
    BY <1>7, <1>9
  <2> QED BY <2>1, Zenon DEF Nth
<1>11. ASSUME NEW i \in S PROVE rank[i] \in 1 .. n /\ Nth(S, rank[i]) = i
  <2>1. rank[i] \in 1 .. n
    BY <1>2
  <2>2. Nth(S, rank[i]) \in S /\ rank[Nth(S, rank[i])] = rank[i]
    BY <1>9, <1>10, <2>1
  <2> HIDE DEF rank, n
  <2> QED BY <1>4, <2>1, <2>2 DEF Injection, IsInjective
<1>12. \A i \in S : rank[i] = Rank(S, i)
  BY <1>8, Zenon DEF Rank
<1>13. \A k \in 1 .. n : Nth(S, k) \in S /\ rank[Nth(S, k)] = k
  BY <1>9, <1>10
<1> HIDE DEF rank
<1> QED BY <1>1, <1>11, <1>12, <1>13

(* What is picked of a list are the elements at the places.                *)
LEMMA Picked ==
  ASSUME NEW T, NEW list \in Seq(T), NEW S \in SUBSET DOMAIN list
  PROVE  /\ Pick(list, S) \in Seq(T) /\ DOMAIN Pick(list, S) = 1 .. Cardinality(S)
         /\ Cardinality(S) \in Nat
         /\ \A k \in DOMAIN Pick(list, S) :
              Nth(S, k) \in S /\ Pick(list, S)[k] = list[Nth(S, k)] /\ Rank(S, Nth(S, k)) = k
         /\ \A i \in S : Rank(S, i) \in DOMAIN Pick(list, S) /\ Pick(list, S)[Rank(S, i)] = list[i]
<1>1. DOMAIN list = 1 .. Len(list) /\ Len(list) \in Nat
  OBVIOUS
<1>2. S \in SUBSET Nat /\ IsFiniteSet(S)
  <2>1. IsFiniteSet(1 .. Len(list))
    BY <1>1, FS_Interval
  <2> QED BY <1>1, <2>1, FS_Subset
<1>3. /\ Cardinality(S) \in Nat
      /\ \A k \in 1 .. Cardinality(S) : Nth(S, k) \in S /\ Rank(S, Nth(S, k)) = k
      /\ \A i \in S : Rank(S, i) \in 1 .. Cardinality(S) /\ Nth(S, Rank(S, i)) = i
  BY <1>2, Ranks
<1>4. Pick(list, S) = [k \in 1 .. Cardinality(S) |-> list[Nth(S, k)]]
  BY DEF Pick
<1>5. \A i \in S : list[i] \in T
  OBVIOUS
<1>6. Pick(list, S) \in Seq(T)
  BY <1>3, <1>4, <1>5
<1> QED BY <1>3, <1>4, <1>6

(* The first inbound that is left.                                         *)
LEMMA FirstIsLeft ==
  ASSUME NEW list \in Seq(Rows), NEW t, t.left \subseteq DOMAIN list, t.left # {}
  PROVE  FirstOf(t) \in t.left
<1>1. t.left \subseteq Nat
  OBVIOUS
<1>2. PICK i \in t.left : \A k \in t.left : <<k, i>> \notin OpToRel(<, Nat)
  BY <1>1, NatLessThanWellFounded, WFMin
<1>3. \A k \in t.left : ~(k < i)
  BY <1>1, <1>2 DEF OpToRel
<1>4. \A k \in t.left : i <= k
  BY <1>1, <1>3
<1> QED BY <1>4, Zenon DEF FirstOf

-----------------------------------------------------------------------------
(* The source tells the nodes of inbounds apart: a cfdo node with its      *)
(* port.                                                                   *)
LEMMA Sourced ==
  ASSUME NEW m, NEW n, Source(m) = Source(n)
  PROVE  m.src = n.src /\ (m.src \in Cfdo => m.port = n.port)
<1>1. CASE m.src \in Cfdo /\ n.src \in Cfdo
  BY <1>1 DEF Source
<1>2. CASE m.src \notin Cfdo /\ n.src \notin Cfdo
  BY <1>2 DEF Source
<1>3. CASE m.src \in Cfdo /\ n.src \notin Cfdo
  BY <1>3 DEF Source
<1>4. CASE m.src \notin Cfdo /\ n.src \in Cfdo
  BY <1>4 DEF Source
<1> QED BY <1>1, <1>2, <1>3, <1>4

(* The rebuilt list: ordinary nodes as they come, then a node for every    *)
(* inbound that has a port.                                                *)
LEMMA Rebuilt ==
  ASSUME InboundAssumption, NEW old \in Seq(Nodes), NEW list \in Seq(Rows)
  PROVE  LET new == NewServers(old, list)
             plain == {i \in DOMAIN old : ~FromInbound(old[i])}
         IN  /\ new \in Seq(Nodes) /\ DOMAIN new \subseteq Nat \ {0}
             /\ \A i \in plain : Rank(plain, i) \in DOMAIN new /\ new[Rank(plain, i)] = old[i]
             /\ \A k \in DOMAIN new : FromInbound(new[k]) =>
                  \E m \in DOMAIN list : list[m].port # NoPort /\ new[k] = Node(list[m].id, list[m].port)
             /\ \A m \in DOMAIN list : list[m].port # NoPort =>
                  \E k \in DOMAIN new : new[k] = Node(list[m].id, list[m].port)
             /\ {Source(new[k]) : k \in {k \in DOMAIN new : FromInbound(new[k])}} = Sources(Running(list))
<1> DEFINE new == NewServers(old, list)
           plain == {i \in DOMAIN old : ~FromInbound(old[i])}
           known == {k \in DOMAIN list : list[k].port # NoPort}
           users == Pick(old, plain)
           rows == Pick(list, known)
           running == [k \in DOMAIN rows |-> Node(rows[k].id, rows[k].port)]
<1>1. /\ users \in Seq(Nodes) /\ DOMAIN users = 1 .. Cardinality(plain) /\ Cardinality(plain) \in Nat
      /\ \A k \in DOMAIN users : Nth(plain, k) \in plain /\ users[k] = old[Nth(plain, k)]
      /\ \A i \in plain : Rank(plain, i) \in DOMAIN users /\ users[Rank(plain, i)] = old[i]
  <2>1. plain \in SUBSET DOMAIN old
    OBVIOUS
  <2> HIDE DEF plain
  <2> QED BY <2>1, Picked
<1>2. /\ rows \in Seq(Rows) /\ DOMAIN rows = 1 .. Cardinality(known) /\ Cardinality(known) \in Nat
      /\ \A k \in DOMAIN rows : Nth(known, k) \in known /\ rows[k] = list[Nth(known, k)]
      /\ \A i \in known : Rank(known, i) \in DOMAIN rows /\ rows[Rank(known, i)] = list[i]
  <2>1. known \in SUBSET DOMAIN list
    OBVIOUS
  <2> HIDE DEF known
  <2> QED BY <2>1, Picked
<1>3. new = users \o running /\ Running(list) = running
  BY DEF NewServers, OwnServers, Running
<1>4. running \in Seq(Nodes) /\ DOMAIN running = DOMAIN rows
  <2>1. ASSUME NEW k \in DOMAIN rows PROVE Node(rows[k].id, rows[k].port) \in Nodes
    <3>1. rows[k] \in Rows
      BY <1>2
    <3> HIDE DEF rows
    <3> QED BY <3>1 DEF Rows, Node, Nodes
  <2>2. DOMAIN rows = 1 .. Cardinality(known) /\ Cardinality(known) \in Nat
    BY <1>2
  <2> HIDE DEF rows, known
  <2> QED BY <2>1, <2>2
<1>5. /\ \A k \in DOMAIN users : ~FromInbound(users[k])
      /\ \A k \in DOMAIN running : FromInbound(running[k])
  <2>1. ASSUME NEW k \in DOMAIN users PROVE ~FromInbound(users[k])
    BY <1>1
  <2>2. ASSUME NEW k \in DOMAIN running PROVE FromInbound(running[k])
    <3>1. rows[k] \in Rows /\ running[k] = Node(rows[k].id, rows[k].port)
      BY <1>2
    <3> HIDE DEF rows, running
    <3> QED BY <3>1 DEF Rows, Node, FromInbound
  <2> QED BY <2>1, <2>2
<1> HIDE DEF users, rows, running
<1>6. /\ new \in Seq(Nodes) /\ Len(new) = Len(users) + Len(running)
      /\ \A k \in 1 .. Len(users) : new[k] = users[k]
      /\ \A k \in 1 .. Len(running) : new[Len(users) + k] = running[k]
      /\ \A k \in Len(users) + 1 .. Len(new) : new[k] = running[k - Len(users)]
  BY <1>1, <1>3, <1>4
<1> HIDE DEF new, plain
<1>7. DOMAIN new = 1 .. Len(new) /\ DOMAIN users = 1 .. Len(users) /\ DOMAIN running = 1 .. Len(running)
      /\ Len(users) \in Nat /\ Len(running) \in Nat
  BY <1>1, <1>4, <1>6
<1>8. \A i \in plain : Rank(plain, i) \in DOMAIN new /\ new[Rank(plain, i)] = old[i]
  BY <1>1, <1>6, <1>7
<1>9. \A k \in DOMAIN new : FromInbound(new[k]) =>
        \E j \in DOMAIN running : k = Len(users) + j /\ new[k] = running[j]
  <2> SUFFICES ASSUME NEW k \in DOMAIN new, FromInbound(new[k])
               PROVE  \E j \in DOMAIN running : k = Len(users) + j /\ new[k] = running[j]
    OBVIOUS
  <2>1. k \notin 1 .. Len(users)
    BY <1>5, <1>6, <1>7
  <2>2. k - Len(users) \in DOMAIN running /\ k \in Len(users) + 1 .. Len(new)
    BY <1>6, <1>7, <2>1
  <2> QED BY <1>6, <1>7, <2>2
<1>10. \A j \in DOMAIN running :
         Len(users) + j \in DOMAIN new /\ new[Len(users) + j] = running[j] /\ FromInbound(running[j])
  BY <1>5, <1>6, <1>7
<1>11. \A j \in DOMAIN running : \E m \in known : running[j] = Node(list[m].id, list[m].port)
  BY <1>2, <1>4 DEF running
<1>12. \A m \in known : \E j \in DOMAIN running : running[j] = Node(list[m].id, list[m].port)
  BY <1>2, <1>4 DEF running
<1>13. \A k \in DOMAIN new : FromInbound(new[k]) =>
         \E m \in DOMAIN list : list[m].port # NoPort /\ new[k] = Node(list[m].id, list[m].port)
  <2>1. \A m \in known : m \in DOMAIN list /\ list[m].port # NoPort
    OBVIOUS
  <2> HIDE DEF known
  <2> QED BY <1>9, <1>11, <2>1
<1>14. \A m \in DOMAIN list : list[m].port # NoPort =>
         \E k \in DOMAIN new : new[k] = Node(list[m].id, list[m].port)
  <2>1. \A m \in DOMAIN list : list[m].port # NoPort => m \in known
    OBVIOUS
  <2> HIDE DEF known
  <2> QED BY <1>10, <1>12, <2>1
<1>15. {Source(new[k]) : k \in {k \in DOMAIN new : FromInbound(new[k])}} = Sources(running)
  BY <1>9, <1>10 DEF Sources
<1>16. DOMAIN new \subseteq Nat \ {0}
  BY <1>6, <1>7
<1> QED BY <1>3, <1>6, <1>8, <1>13, <1>14, <1>15, <1>16 DEF new, plain

(* The place of an ordinary node is its rank among them.                   *)
LEMMA PlaceByOrder ==
  ASSUME NEW old \in Seq(Nodes), NEW new, NEW i \in DOMAIN old, ~FromInbound(old[i])
  PROVE  NewPlace(old, new, i) = {Rank({k \in DOMAIN old : ~FromInbound(old[k])}, i)}
<1> DEFINE plain == {k \in DOMAIN old : ~FromInbound(old[k])}
           before == {m \in plain : m < i}
           upto == {k \in 1 .. i : ~FromInbound(old[k])}
<1>1. DOMAIN old = 1 .. Len(old) /\ Len(old) \in Nat /\ i \in Nat
  OBVIOUS
<1>2. upto = before \union {i} /\ i \notin before
  BY <1>1
<1>3. IsFiniteSet(before)
  <2>1. IsFiniteSet(1 .. Len(old)) /\ before \subseteq 1 .. Len(old)
    BY <1>1, FS_Interval
  <2> HIDE DEF before
  <2> QED BY <2>1, FS_Subset
<1>4. Cardinality(upto) = Cardinality(before) + 1
  <2> HIDE DEF before, upto
  <2> QED BY <1>2, <1>3, FS_AddElement
<1>5. NewPlace(old, new, i) = {Cardinality(upto)}
  BY DEF NewPlace
<1> HIDE DEF upto
<1> QED BY <1>4, <1>5 DEF Rank

(* A group that lists nodes lists, after a rebuild, what is left of them,  *)
(* and the built-in one every node of an inbound.                          *)
Following(g, sources, list, new) ==
  (sources \intersect Sources(new)) \union IF g = "SERVER" THEN Sources(Running(list)) ELSE {}

(* The places a rebuild gives a group hold what it should list, and no more. *)
LEMMA Moved ==
  ASSUME InboundAssumption, NEW old \in Seq(Nodes), NEW list \in Seq(Rows), NEW g,
         NEW listed \in SUBSET DOMAIN old, listed # {}
  PROVE  LET new == NewServers(old, list)
             places == NewRefs(g, listed, old, new)
         IN  /\ places \subseteq DOMAIN new
             /\ {Source(new[k]) : k \in places} =
                  Following(g, {Source(old[i]) : i \in listed}, list, new)
<1> DEFINE new == NewServers(old, list)
           plain == {i \in DOMAIN old : ~FromInbound(old[i])}
           made == {k \in DOMAIN new : FromInbound(new[k])}
           same(i) == {k \in DOMAIN new : FromInbound(new[k]) /\ Source(new[k]) = Source(old[i])}
           places == NewRefs(g, listed, old, new)
<1>1. /\ \A i \in plain : Rank(plain, i) \in DOMAIN new /\ new[Rank(plain, i)] = old[i]
      /\ {Source(new[k]) : k \in made} = Sources(Running(list))
  BY Rebuilt
<1>2. \A i \in listed : NewPlace(old, new, i) = IF i \in plain THEN {Rank(plain, i)} ELSE same(i)
  <2> SUFFICES ASSUME NEW i \in listed
               PROVE  NewPlace(old, new, i) = IF i \in plain THEN {Rank(plain, i)} ELSE same(i)
    OBVIOUS
  <2>1. CASE i \in plain
    <3>1. ~FromInbound(old[i])
      BY <2>1
    <3>2. NewPlace(old, new, i) = {Rank(plain, i)}
      BY <3>1, PlaceByOrder
    <3> HIDE DEF plain
    <3> QED BY <2>1, <3>2
  <2>2. CASE i \notin plain
    <3>1. FromInbound(old[i])
      BY <2>2
    <3>2. NewPlace(old, new, i) = same(i)
      BY <3>1 DEF NewPlace
    <3> HIDE DEF plain, same
    <3> QED BY <2>2, <3>2
  <2> QED BY <2>1, <2>2
<1>3. \A k : k \in places <=> (\E i \in listed : k \in NewPlace(old, new, i)) \/ (g = "SERVER" /\ k \in made)
  <2> DEFINE all == UNION {NewPlace(old, new, i) : i \in listed}
             more == IF g = "SERVER" THEN made ELSE {}
  <2>1. places = all \union more
    BY DEF NewRefs
  <2>2. \A k : k \in all <=> \E i \in listed : k \in NewPlace(old, new, i)
    OBVIOUS
  <2>3. \A k : k \in more <=> g = "SERVER" /\ k \in made
    OBVIOUS
  <2> HIDE DEF all, more, places
  <2> QED BY <2>1, <2>2, <2>3
<1>4. \A i \in listed : i \notin plain => FromInbound(old[i])
  OBVIOUS
<1>5. \A i \in listed, k \in DOMAIN new :
        i \notin plain /\ Source(new[k]) = Source(old[i]) => k \in same(i)
  <2> SUFFICES ASSUME NEW i \in listed, NEW k \in DOMAIN new, i \notin plain,
                      Source(new[k]) = Source(old[i])
               PROVE  FromInbound(new[k])
    OBVIOUS
  <2>1. new[k].src = old[i].src
    BY Sourced
  <2> HIDE DEF plain, new
  <2> QED BY <1>4, <2>1 DEF FromInbound
<1>6. \A i \in listed : \A k \in same(i) : k \in DOMAIN new /\ Source(new[k]) = Source(old[i])
  OBVIOUS
<1>7. made \subseteq DOMAIN new
  OBVIOUS
<1> HIDE DEF new, plain, made, same, places
<1>8. \A i \in listed : \A k \in NewPlace(old, new, i) :
        k \in DOMAIN new /\ Source(new[k]) = Source(old[i])
  <2> SUFFICES ASSUME NEW i \in listed, NEW k \in NewPlace(old, new, i)
               PROVE  k \in DOMAIN new /\ Source(new[k]) = Source(old[i])
    OBVIOUS
  <2>1. CASE i \in plain
    BY <1>1, <1>2, <2>1
  <2>2. CASE i \notin plain
    BY <1>2, <1>6, <2>2
  <2> QED BY <2>1, <2>2
<1>9. \A i \in listed, k \in DOMAIN new :
        Source(new[k]) = Source(old[i]) => \E m \in NewPlace(old, new, i) : Source(new[m]) = Source(old[i])
  <2> SUFFICES ASSUME NEW i \in listed, NEW k \in DOMAIN new, Source(new[k]) = Source(old[i])
               PROVE  \E m \in NewPlace(old, new, i) : Source(new[m]) = Source(old[i])
    OBVIOUS
  <2>1. CASE i \in plain
    BY <1>1, <1>2, <2>1
  <2>2. CASE i \notin plain
    BY <1>2, <1>5, <2>2
  <2> QED BY <2>1, <2>2
<1>10. \A s : s \in Following(g, {Source(old[i]) : i \in listed}, list, new) <=>
        \/ \E i \in listed, k \in DOMAIN new : s = Source(old[i]) /\ s = Source(new[k])
        \/ g = "SERVER" /\ \E k \in made : s = Source(new[k])
  <2>1. \A s : s \in {Source(new[k]) : k \in made} <=> \E k \in made : s = Source(new[k])
    OBVIOUS
  <2> QED BY <1>1, <2>1 DEF Following, Sources
<1>11. places \subseteq DOMAIN new
  BY <1>7, <1>8, <1>3
<1>12. ASSUME NEW k \in places
       PROVE  Source(new[k]) \in Following(g, {Source(old[i]) : i \in listed}, list, new)
  BY <1>8, <1>3, <1>10
<1>13. ASSUME NEW s \in Following(g, {Source(old[i]) : i \in listed}, list, new)
       PROVE  \E k \in places : Source(new[k]) = s
  BY <1>9, <1>3, <1>10
<1>14. {Source(new[k]) : k \in places} = Following(g, {Source(old[i]) : i \in listed}, list, new)
  BY <1>12, <1>13
<1> QED BY <1>11, <1>14 DEF new, places

(* A finite set as a list: its elements, each of them.                     *)
LEMMA ListOfSet ==
  ASSUME NEW S, IsFiniteSet(S)
  PROVE  SetToSeq(S) \in Seq(S) /\ \A x \in S : \E k \in DOMAIN SetToSeq(S) : SetToSeq(S)[k] = x
<1> DEFINE n == Cardinality(S)
           f == SetToSeq(S)
<1>1. n \in Nat /\ ExistsBijection(1 .. n, S)
  BY FS_CardinalityType
<1>2. \E b \in [1 .. n -> S] : IsInjective(b)
  BY <1>1 DEF ExistsBijection, Bijection, Injection
<1>3. f \in [1 .. n -> S] /\ IsInjective(f)
  <2> HIDE DEF n
  <2>1. \E b \in [1 .. Cardinality(S) -> S] : IsInjective(b)
    BY <1>2 DEF n
  <2> QED BY <2>1, Zenon DEF SetToSeq, n
<1> HIDE DEF f
<1>4. f \in Injection(1 .. n, S)
  BY <1>3 DEF Injection
<1>5. Cardinality(1 .. n) = n
  BY <1>1, FS_Interval
<1>6. f \in Surjection(1 .. n, S)
  BY <1>4, <1>5, FS_Injection
<1>7. \A x \in S : \E k \in 1 .. n : f[k] = x
  BY <1>6 DEF Surjection
<1>8. DOMAIN f = 1 .. n /\ f \in Seq(S)
  BY <1>1, <1>3
<1> QED BY <1>7, <1>8 DEF f

(* The start of the kernel puts the nodes of inbounds in the list: each at *)
(* the place of the one with its source, or at the end.                    *)
LEMMA Synced ==
  ASSUME InboundAssumption, servers \in Seq(Nodes), NEW list \in Seq(Rows), Distinct(list)
  PROVE  LET new == SyncServers(list)
         IN  /\ new \in Seq(Nodes) /\ DOMAIN servers \subseteq DOMAIN new
             /\ \A i \in DOMAIN servers : Source(new[i]) = Source(servers[i])
             /\ \A k \in DOMAIN new :
                  \/ \E m \in DOMAIN list : list[m].port # NoPort /\ new[k] = Node(list[m].id, list[m].port)
                  \/ /\ k \in DOMAIN servers /\ new[k] = servers[k]
                     /\ \A m \in DOMAIN list : list[m].port # NoPort =>
                          Source(Node(list[m].id, list[m].port)) # Source(servers[k])
             /\ \A m \in DOMAIN list : list[m].port # NoPort =>
                  \E k \in DOMAIN new : new[k] = Node(list[m].id, list[m].port)
<1> DEFINE known == {list[k] : k \in {k \in DOMAIN list : list[k].port # NoPort}}
           Of(ib) == Node(ib.id, ib.port)
           hit(i, ib) == Source(Of(ib)) = Source(servers[i])
           here == [i \in DOMAIN servers |->
             IF \E ib \in known : hit(i, ib)
             THEN Of(CHOOSE ib \in known : hit(i, ib)) ELSE servers[i]]
           added == {Of(ib) : ib \in {ib \in known : Source(Of(ib)) \notin Sources(servers)}}
           new == here \o SetToSeq(added)
<1>1. SyncServers(list) = new
  BY DEF SyncServers
<1>2. /\ \A ib \in known : \E m \in DOMAIN list : ib = list[m] /\ ib.port # NoPort /\ ib \in Rows
      /\ \A m \in DOMAIN list : list[m].port # NoPort => list[m] \in known
  OBVIOUS
<1>3. \A ib \in known : Of(ib) \in Nodes
  <2> HIDE DEF known
  <2> QED BY <1>2 DEF Rows, Node, Nodes
<1>4. \A ib \in known, jb \in known : Source(Of(ib)) = Source(Of(jb)) => ib = jb
  <2> SUFFICES ASSUME NEW ib \in known, NEW jb \in known, Source(Of(ib)) = Source(Of(jb))
               PROVE  ib = jb
    OBVIOUS
  <2>1. ib.id = jb.id
    BY Sourced DEF Node
  <2> HIDE DEF known
  <2> QED BY <1>2, <2>1 DEF Distinct
<1>5. IsFiniteSet(added)
  <2> DEFINE f == [m \in DOMAIN list |-> Of(list[m])]
             all == {f[m] : m \in DOMAIN list}
  <2>1. IsFiniteSet(DOMAIN list)
    <3>1. DOMAIN list = 1 .. Len(list) /\ Len(list) \in Nat
      OBVIOUS
    <3> QED BY <3>1, FS_Interval
  <2>2. f \in Surjection(DOMAIN list, all)
    BY DEF Surjection
  <2>3. IsFiniteSet(all)
    <3> HIDE DEF f, all
    <3> QED BY <2>1, <2>2, FS_Surjection
  <2>4. added \subseteq all
    <3> SUFFICES ASSUME NEW ib \in known PROVE Of(ib) \in all
      OBVIOUS
    <3>1. PICK m \in DOMAIN list : ib = list[m]
      BY <1>2
    <3>2. Of(ib) = f[m]
      BY <3>1
    <3> QED BY <3>2
  <2> HIDE DEF added, all
  <2> QED BY <2>3, <2>4, FS_Subset
<1>6. SetToSeq(added) \in Seq(added) /\ \A x \in added : \E k \in DOMAIN SetToSeq(added) : SetToSeq(added)[k] = x
  <2> HIDE DEF added
  <2> QED BY <1>5, ListOfSet
<1>7. \A x \in added : \E ib \in known : x = Of(ib)
  OBVIOUS
<1>8. \A ib \in known : Of(ib) \in added \/ \E i \in DOMAIN servers : hit(i, ib)
  BY DEF Sources
<1>9. \A i \in DOMAIN servers :
        IF \E ib \in known : hit(i, ib) THEN \E ib \in known : hit(i, ib) /\ here[i] = Of(ib)
        ELSE here[i] = servers[i]
  <2> HIDE DEF known, hit, Of
  <2> QED OBVIOUS
<1>10. \A i \in DOMAIN servers, ib \in known : hit(i, ib) => here[i] = Of(ib)
  <2> SUFFICES ASSUME NEW i \in DOMAIN servers, NEW ib \in known, hit(i, ib)
               PROVE  here[i] = Of(ib)
    OBVIOUS
  <2>1. PICK jb \in known : hit(i, jb) /\ here[i] = Of(jb)
    <3> HIDE DEF known, hit, Of, here
    <3> QED BY <1>9
  <2>2. Source(Of(ib)) = Source(Of(jb))
    BY <2>1
  <2> HIDE DEF known, Of, here
  <2> QED BY <1>4, <2>1, <2>2
<1>11. /\ here \in Seq(Nodes) /\ DOMAIN here = DOMAIN servers
       /\ \A i \in DOMAIN servers : Source(here[i]) = Source(servers[i])
  <2>1. DOMAIN here = DOMAIN servers
    OBVIOUS
  <2>2. \A i \in DOMAIN servers : here[i] \in Nodes /\ Source(here[i]) = Source(servers[i])
    <3>1. \A i \in DOMAIN servers : servers[i] \in Nodes
      OBVIOUS
    <3>2. \A i \in DOMAIN servers, ib \in known : hit(i, ib) => Source(Of(ib)) = Source(servers[i])
      OBVIOUS
    <3> HIDE DEF known, hit, Of, here
    <3> QED BY <1>3, <1>9, <3>1, <3>2
  <2>3. DOMAIN servers = 1 .. Len(servers) /\ Len(servers) \in Nat
    OBVIOUS
  <2>4. here = [i \in 1 .. Len(servers) |-> here[i]]
    BY <2>3
  <2> HIDE DEF here
  <2> QED BY <2>1, <2>2, <2>3, <2>4
<1> DEFINE more == SetToSeq(added)
<1>12. /\ more \in Seq(Nodes)
       /\ \A k \in DOMAIN more : \E ib \in known : more[k] = Of(ib)
       /\ \A x \in added : \E k \in DOMAIN more : more[k] = x
  <2>1. added \subseteq Nodes
    <3> HIDE DEF added, known, Of
    <3> QED BY <1>3, <1>7
  <2> HIDE DEF added, known, Of
  <2> QED BY <1>6, <1>7, <2>1
<1>13. new = here \o more
  OBVIOUS
<1> HIDE DEF here, more, added, new
<1>14. /\ new \in Seq(Nodes) /\ DOMAIN new = 1 .. Len(here) + Len(more)
       /\ Len(here) \in Nat /\ Len(more) \in Nat /\ DOMAIN here = 1 .. Len(here) /\ DOMAIN more = 1 .. Len(more)
       /\ \A k \in 1 .. Len(here) : new[k] = here[k]
       /\ \A k \in 1 .. Len(more) : new[Len(here) + k] = more[k]
       /\ \A k \in Len(here) + 1 .. Len(here) + Len(more) : new[k] = more[k - Len(here)]
  BY <1>11, <1>12, <1>13
<1>15. DOMAIN servers \subseteq DOMAIN new /\ \A i \in DOMAIN servers : new[i] = here[i]
  BY <1>11, <1>14
<1>16. \A k \in DOMAIN new : k \in DOMAIN servers \/ \E ib \in known : new[k] = Of(ib)
  <2> SUFFICES ASSUME NEW k \in DOMAIN new, k \notin DOMAIN servers
               PROVE  \E ib \in known : new[k] = Of(ib)
    OBVIOUS
  <2>1. k \in Len(here) + 1 .. Len(here) + Len(more) /\ k - Len(here) \in DOMAIN more
    BY <1>11, <1>14
  <2> HIDE DEF known, Of
  <2> QED BY <1>12, <1>14, <2>1
<1>17. \A ib \in known : \E k \in DOMAIN new : new[k] = Of(ib)
  <2> SUFFICES ASSUME NEW ib \in known PROVE \E k \in DOMAIN new : new[k] = Of(ib)
    OBVIOUS
  <2>1. CASE \E i \in DOMAIN servers : hit(i, ib)
    BY <1>10, <1>15, <2>1
  <2>2. CASE Of(ib) \in added
    <3>1. PICK k \in DOMAIN more : more[k] = Of(ib)
      BY <1>12, <2>2
    <3>2. Len(here) + k \in DOMAIN new /\ new[Len(here) + k] = more[k]
      BY <1>14
    <3> QED BY <3>1, <3>2
  <2> QED BY <1>8, <2>1, <2>2
<1>18. \A k \in DOMAIN new : ~(\E ib \in known : new[k] = Of(ib)) =>
         k \in DOMAIN servers /\ new[k] = servers[k] /\ ~\E ib \in known : hit(k, ib)
  <2> HIDE DEF known, hit, Of
  <2> QED BY <1>10, <1>9, <1>15, <1>16
<1>19. \A m \in DOMAIN list : list[m].port # NoPort => Of(list[m]) = Node(list[m].id, list[m].port)
  OBVIOUS
<1>20. \A i \in DOMAIN servers : Source(new[i]) = Source(servers[i])
  BY <1>11, <1>15
<1>21. \A k \in DOMAIN new :
         \/ \E m \in DOMAIN list : list[m].port # NoPort /\ new[k] = Node(list[m].id, list[m].port)
         \/ /\ k \in DOMAIN servers /\ new[k] = servers[k]
            /\ \A m \in DOMAIN list : list[m].port # NoPort =>
                 Source(Node(list[m].id, list[m].port)) # Source(servers[k])
  <2> SUFFICES ASSUME NEW k \in DOMAIN new,
                      ~\E m \in DOMAIN list : list[m].port # NoPort /\ new[k] = Node(list[m].id, list[m].port)
               PROVE  /\ k \in DOMAIN servers /\ new[k] = servers[k]
                      /\ \A m \in DOMAIN list : list[m].port # NoPort =>
                           Source(Node(list[m].id, list[m].port)) # Source(servers[k])
    OBVIOUS
  <2>1. ~\E ib \in known : new[k] = Of(ib)
    OBVIOUS
  <2>2. k \in DOMAIN servers /\ new[k] = servers[k] /\ ~\E ib \in known : hit(k, ib)
    <3> HIDE DEF known, hit, Of
    <3> QED BY <1>18, <2>1
  <2> QED BY <1>2, <2>2
<1>22. \A m \in DOMAIN list : list[m].port # NoPort =>
         \E k \in DOMAIN new : new[k] = Node(list[m].id, list[m].port)
  BY <1>2, <1>17
<1> QED BY <1>1, <1>14, <1>15, <1>20, <1>21, <1>22 DEF new

-----------------------------------------------------------------------------
(* What is left of a plan once its first step has run.                     *)
Follows(w, s) ==
  /\ Head(s) \in {"stop", "wait", "ensure", "one", "store", "read", "servers", "groups",
                  "part", "copied", "load", "goodnet", "cfdo", "start"}
  /\ Len(s) # 1 => Tail(s) \in Plans(w) /\ Tail(s) # <<>>
  /\ Len(s) = 1 => Head(s) \in {"groups", "load", "start"}
  /\ Head(s) = "stop" =>
       /\ Head(Tail(s)) = "wait" /\ Tail(s)[2] = s[3] /\ w # "boot"
       /\ s[3] \in {"ensure", "one", "start"} /\ (s[3] = "start" <=> w = "kernel")
  /\ Head(s) = "wait" =>
       /\ Head(Tail(s)) = s[2] /\ w # "boot"
       /\ s[2] \in {"ensure", "one", "start"} /\ (s[2] = "start" <=> w = "kernel")
  /\ Head(s) \in {"ensure", "one"} => Head(Tail(s)) = "store" /\ w # "kernel"
  /\ Head(s) = "one" => w # "boot"
  /\ Head(s) = "start" => w = "kernel" /\ (Len(s) # 1 => Head(Tail(s)) = "cfdo")
  /\ Head(s) \in {"goodnet", "cfdo"} => Head(Tail(s)) = "stop" /\ Tail(s)[3] = "start" /\ w = "kernel"
  /\ Head(s) = "store" => Head(Tail(s)) = "read" /\ w # "kernel"
  /\ Head(s) = "read" => Head(Tail(s)) = "servers" /\ w # "kernel"
  /\ Head(s) = "servers" => Head(Tail(s)) = "groups" /\ w # "kernel"
  /\ Head(s) = "groups" => w # "kernel"
  /\ Head(s) = "copied" => Tail(s) = <<"part", "load">> /\ w = "boot"
  /\ Head(s) = "part" => s = <<"part", "load">> /\ Tail(s) = <<"load">> /\ w = "boot"
  /\ Head(s) = "load" => w = "boot"

(* What each plan says of the step it starts with and of what remains.     *)
LEMMA PlanSteps ==
  ASSUME NEW w, NEW s \in Plans(w), s # <<>>
  PROVE  Follows(w, s)
<1>1. CASE s = <<"store", "read", "servers", "groups">>
  BY <1>1 DEF Plans, Rebuilding, Ensures, Changing, Booting, Kernels, Follows
<1>2. CASE s = <<"read", "servers", "groups">>
  BY <1>2 DEF Plans, Rebuilding, Ensures, Changing, Booting, Kernels, Follows
<1>3. CASE s = <<"servers", "groups">>
  BY <1>3 DEF Plans, Rebuilding, Ensures, Changing, Booting, Kernels, Follows
<1>4. CASE s = <<"groups">>
  BY <1>4 DEF Plans, Rebuilding, Ensures, Changing, Booting, Kernels, Follows
<1>5. CASE s = <<"stop", "wait", "ensure", "store", "read", "servers", "groups">>
  BY <1>5 DEF Plans, Rebuilding, Ensures, Changing, Booting, Kernels, Follows
<1>6. CASE s = <<"wait", "ensure", "store", "read", "servers", "groups">>
  BY <1>6 DEF Plans, Rebuilding, Ensures, Changing, Booting, Kernels, Follows
<1>7. CASE s = <<"ensure", "store", "read", "servers", "groups">>
  BY <1>7 DEF Plans, Rebuilding, Ensures, Changing, Booting, Kernels, Follows
<1>8. CASE s = <<"stop", "wait", "one", "store", "read", "servers", "groups">>
  BY <1>8 DEF Plans, Rebuilding, Ensures, Changing, Booting, Kernels, Follows
<1>9. CASE s = <<"wait", "one", "store", "read", "servers", "groups">>
  BY <1>9 DEF Plans, Rebuilding, Ensures, Changing, Booting, Kernels, Follows
<1>10. CASE s = <<"one", "store", "read", "servers", "groups">>
  BY <1>10 DEF Plans, Rebuilding, Ensures, Changing, Booting, Kernels, Follows
<1>11. CASE s = <<"part", "load">>
  BY <1>11 DEF Plans, Rebuilding, Ensures, Changing, Booting, Kernels, Follows
<1>12. CASE s = <<"copied", "part", "load">>
  BY <1>12 DEF Plans, Rebuilding, Ensures, Changing, Booting, Kernels, Follows
<1>13. CASE s = <<"load">>
  BY <1>13 DEF Plans, Rebuilding, Ensures, Changing, Booting, Kernels, Follows
<1>14. CASE s = <<"goodnet", "stop", "wait", "start", "cfdo", "stop", "wait", "start">>
  BY <1>14 DEF Plans, Rebuilding, Ensures, Changing, Booting, Kernels, Follows
<1>15. CASE s = <<"stop", "wait", "start", "cfdo", "stop", "wait", "start">>
  BY <1>15 DEF Plans, Rebuilding, Ensures, Changing, Booting, Kernels, Follows
<1>16. CASE s = <<"wait", "start", "cfdo", "stop", "wait", "start">>
  BY <1>16 DEF Plans, Rebuilding, Ensures, Changing, Booting, Kernels, Follows
<1>17. CASE s = <<"start", "cfdo", "stop", "wait", "start">>
  BY <1>17 DEF Plans, Rebuilding, Ensures, Changing, Booting, Kernels, Follows
<1>18. CASE s = <<"cfdo", "stop", "wait", "start">>
  BY <1>18 DEF Plans, Rebuilding, Ensures, Changing, Booting, Kernels, Follows
<1>19. CASE s = <<"stop", "wait", "start">>
  BY <1>19 DEF Plans, Rebuilding, Ensures, Changing, Booting, Kernels, Follows
<1>20. CASE s = <<"wait", "start">>
  BY <1>20 DEF Plans, Rebuilding, Ensures, Changing, Booting, Kernels, Follows
<1>21. CASE s = <<"start">>
  BY <1>21 DEF Plans, Rebuilding, Ensures, Changing, Booting, Kernels, Follows
<1>22. s \in {<<"store", "read", "servers", "groups">>,
  <<"read", "servers", "groups">>,
  <<"servers", "groups">>,
  <<"groups">>,
  <<"stop", "wait", "ensure", "store", "read", "servers", "groups">>,
  <<"wait", "ensure", "store", "read", "servers", "groups">>,
  <<"ensure", "store", "read", "servers", "groups">>,
  <<"stop", "wait", "one", "store", "read", "servers", "groups">>,
  <<"wait", "one", "store", "read", "servers", "groups">>,
  <<"one", "store", "read", "servers", "groups">>,
  <<"part", "load">>,
  <<"copied", "part", "load">>,
  <<"load">>,
  <<"goodnet", "stop", "wait", "start", "cfdo", "stop", "wait", "start">>,
  <<"stop", "wait", "start", "cfdo", "stop", "wait", "start">>,
  <<"wait", "start", "cfdo", "stop", "wait", "start">>,
  <<"start", "cfdo", "stop", "wait", "start">>,
  <<"cfdo", "stop", "wait", "start">>,
  <<"stop", "wait", "start">>,
  <<"wait", "start">>,
  <<"start">>}
  BY DEF Plans, Rebuilding, Ensures, Changing, Booting, Kernels
<1> HIDE DEF Follows
<1> QED
  BY <1>1, <1>2, <1>3, <1>4, <1>5, <1>6, <1>7, <1>8, <1>9, <1>10, <1>11, <1>12, <1>13, <1>14, <1>15, <1>16, <1>17, <1>18, <1>19, <1>20, <1>21, <1>22

-----------------------------------------------------------------------------
(* The actor that takes a step has the turn.                               *)
LEMMA Working ==
  ASSUME IInv, NEW w \in DOMAIN job, NEW label, At(w, label)
  PROVE  /\ w \in Actors /\ ListsTyped /\ job = [v \in Actors |-> job[v]]
         /\ \A v \in Actors \ {w} : job[v] = Idle
         /\ Known(w, job[w]) /\ Ahead(job[w], label) /\ job[w].todo # <<>>
         /\ job[w].todo \in Plans(w) /\ Follows(w, job[w].todo)
<1>1. w \in Actors /\ ListsTyped /\ job = [v \in Actors |-> job[v]]
  BY DEF IInv, Typed
<1>2. Ahead(job[w], label) /\ job[w].todo # <<>>
  BY DEF At, Ahead
<1>3. job[w] # Idle
  BY <1>2 DEF Idle
<1>4. (\A v \in Actors \ {w} : job[v] = Idle) /\ Known(w, job[w])
  BY <1>1, <1>3 DEF IInv, Turn
<1>5. job[w].todo \in Plans(w)
  BY <1>4 DEF Known, IsTask
<1>6. Follows(w, job[w].todo)
  BY <1>2, <1>5, PlanSteps
<1> QED BY <1>1, <1>2, <1>4, <1>5, <1>6

(* An actor with nothing to do knows what any other would.                 *)
LEMMA IdleTask ==
  /\ Idle.todo = <<>> /\ Idle.sock = NoPort /\ Idle.list = <<>> /\ Idle.left = {} /\ Idle.gs = <<>>
  /\ \A label : ~Ahead(Idle, label)
  /\ ~AtStarts(Idle) /\ ~Pending(Idle) /\ ~Restarts(Idle)
  BY DEF Idle, Ahead, AtStarts, Pending, Restarts

(* Having nothing to do is a task of any actor.                            *)
LEMMA IdleIsTask ==
  ASSUME NEW w
  PROVE  IsTask(w, Idle)
<1>1. Idle = [todo |-> Idle.todo, list |-> Idle.list, gs |-> Idle.gs, old |-> Idle.old,
              left |-> Idle.left, dead |-> Idle.dead, sock |-> Idle.sock]
  BY DEF Idle
<1>2. Idle.list \in Seq(Rows) /\ Idle.old \in Seq(Nodes) /\ Distinct(Idle.list) /\ Idle.gs = <<>>
      /\ Idle.dead = FALSE
  BY DEF Idle, Distinct
<1> QED BY <1>1, <1>2, IdleTask DEF IsTask, Plans

(* What an idle actor knows, every idle actor knows.                       *)
LEMMA IdleKnown ==
  ASSUME NEW w, NEW v, Known(w, Idle)
  PROVE  Known(v, Idle)
<1>1. IsTask(v, Idle)
  BY IdleIsTask
<1>2. TableOf(v, Idle)
  BY IdleTask DEF Known, TableOf
<1>3. PortsOf(v, Idle)
  BY IdleTask DEF Known, PortsOf
<1>4. NodesOf(v, Idle)
  BY IdleTask DEF Known, NodesOf
<1> QED BY <1>1, <1>2, <1>3, <1>4 DEF Known

(* Between requests every actor is idle and the process serves.            *)
LEMMA Resting ==
  ASSUME IInv, Quiet
  PROVE  /\ ListsTyped /\ job = [v \in Actors |-> job[v]] /\ up
         /\ \A w \in Actors : job[w] = Idle /\ Known(w, Idle)
<1>1. ListsTyped /\ job = [v \in Actors |-> job[v]]
  BY DEF IInv, Typed
<1>2. \A w \in Actors : job[w] = Idle
  BY <1>1 DEF Quiet
<1>3. PICK w \in Actors : Known(w, Idle)
  BY <1>2 DEF IInv, Turn
<1>4. up
  BY <1>3, IdleTask DEF Known, PortsOf
<1> QED BY <1>1, <1>2, <1>3, <1>4, IdleKnown

(* Where a request or a start of the kernel may begin, nobody is at work.  *)
LEMMA Serving ==
  ASSUME InboundAssumption, Single, IInv, NEW h \in Handlers, up, job[h] = Idle, job["kernel"] = Idle
  PROVE  Quiet /\ h \in Actors
<1>1. job = [v \in Actors |-> job[v]] /\ Actors = {h, "boot", "kernel"}
  BY DEF IInv, Typed, Actors, Single
<1>2. PICK w \in Actors : Turn(w)
  BY DEF IInv
<1>3. job["boot"] = Idle
  <2>1. CASE w = "boot"
    BY <1>2, <2>1 DEF Turn, Known, PortsOf, IsTask
  <2>2. CASE w # "boot"
    BY <1>1, <1>2, <2>2 DEF Turn
  <2> QED BY <2>1, <2>2
<1> QED BY <1>1, <1>3 DEF Quiet

(* The end of a step of w, which goes on with u.                           *)
LEMMA Ends ==
  ASSUME job = [v \in Actors |-> job[v]], NEW w \in Actors, NEW u,
         \A v \in Actors \ {w} : job[v] = Idle, job' = [job EXCEPT ![w] = u],
         ListsTyped', Known(w, u)'
  PROVE  IInv'
<1>1. job' = [v \in Actors |-> job'[v]] /\ job'[w] = u /\ \A v \in Actors \ {w} : job'[v] = Idle
  BY DEF Actors
<1>2. Known(w, job[w])'
  BY <1>1 DEF Known, IsTask, TableOf, PortsOf, NodesOf, MembersOf, CopiesOf, Shown, Fits, ListsMembers
<1> QED BY <1>1, <1>2 DEF IInv, Typed, Turn, Actors

(* What does not change is known as it was.                                *)
LEMMA Kept ==
  ASSUME NEW w, NEW u
  PROVE  /\ UNCHANGED tables => (TableOf(w, u)' <=> TableOf(w, u))
         /\ UNCHANGED <<inbounds, tables, up>> => (PortsOf(w, u)' <=> PortsOf(w, u))
         /\ UNCHANGED <<inbounds, servers>> => (NodesOf(w, u)' <=> NodesOf(w, u))
         /\ UNCHANGED <<servers, refs, member>> => (MembersOf(u)' <=> MembersOf(u))
         /\ UNCHANGED <<servers, refs, member>> => (CopiesOf(u)' <=> CopiesOf(u))
         /\ UNCHANGED <<lists, tables, up>> => (ListsTyped' <=> ListsTyped)
<1>1. UNCHANGED tables => (TableOf(w, u)' <=> TableOf(w, u))
  BY DEF tables, TableOf
<1>2. UNCHANGED <<inbounds, tables, up>> => (PortsOf(w, u)' <=> PortsOf(w, u))
  BY DEF tables, PortsOf, Shown
<1>3. UNCHANGED <<inbounds, servers>> => (NodesOf(w, u)' <=> NodesOf(w, u))
  BY DEF NodesOf, Fits
<1>4. UNCHANGED <<servers, refs, member>> => (MembersOf(u)' <=> MembersOf(u))
  BY DEF MembersOf, ListsMembers
<1>5. UNCHANGED <<servers, refs, member>> => (CopiesOf(u)' <=> CopiesOf(u))
  BY DEF CopiesOf, ListsMembers
<1>6. UNCHANGED <<lists, tables, up>> => (ListsTyped' <=> ListsTyped)
  BY DEF ListsTyped, lists, tables
<1> QED BY <1>1, <1>2, <1>3, <1>4, <1>5, <1>6

(* The task a step goes on with: the rest of the plan.                     *)
Rest(t) == [t EXCEPT !.todo = Tail(t.todo)]

(* A step that is not the last leaves the rest of the plan.                *)
LEMMA Proceeds ==
  ASSUME NEW w, NEW t, Len(t.todo) # 1, Done(w, t)
  PROVE  job' = [job EXCEPT ![w] = Rest(t)]
  BY DEF Done, Rest

(* Only the plan differs.                                                  *)
LEMMA RestFields ==
  ASSUME NEW k, k = [todo |-> k.todo, list |-> k.list, gs |-> k.gs, old |-> k.old, left |-> k.left,
                     dead |-> k.dead, sock |-> k.sock]
  PROVE  Rest(k) = [todo |-> Tail(k.todo), list |-> k.list, gs |-> k.gs, old |-> k.old,
                    left |-> k.left, dead |-> k.dead, sock |-> k.sock]
<1>1. ASSUME NEW x
      PROVE  [k EXCEPT !.todo = x] = [todo |-> x, list |-> k.list, gs |-> k.gs, old |-> k.old,
                                      left |-> k.left, dead |-> k.dead, sock |-> k.sock]
  OBVIOUS
<1> QED BY <1>1, Zenon DEF Rest

(* A task that is about to take the next step of its plan.                 *)
Ready(w, k) ==
  /\ Follows(w, k.todo) /\ Len(k.todo) # 1
  /\ k = [todo |-> k.todo, list |-> k.list, gs |-> k.gs, old |-> k.old, left |-> k.left,
          dead |-> k.dead, sock |-> k.sock]
  /\ k.dead = FALSE /\ k.list \in Seq(Rows) /\ Distinct(k.list)
  /\ k.gs # <<>> => k.gs \in [Groups -> RefSets]
  /\ k.old \in Seq(Nodes) /\ k.sock \in Ports \union {NoPort}
  /\ Head(Tail(k.todo)) \in {"stop", "wait"} => k.left \subseteq Inbounds
  /\ Head(Tail(k.todo)) \in {"ensure", "one", "start"} => k.left \subseteq DOMAIN k.list
  /\ Head(Tail(k.todo)) = "groups" => k.left \subseteq Groups /\ k.left # {}
  /\ Head(Tail(k.todo)) \in {"servers", "groups"} => k.gs # <<>>

(* The fields of a task that has read what the groups share.               *)
LEMMA ShareFields ==
  ASSUME NEW t, t = [todo |-> t.todo, list |-> t.list, gs |-> t.gs, old |-> t.old, left |-> t.left,
                     dead |-> t.dead, sock |-> t.sock], NEW x, NEW y
  PROVE  [t EXCEPT !.gs = x, !.left = y] =
           [todo |-> t.todo, list |-> t.list, gs |-> x, old |-> t.old, left |-> y,
            dead |-> t.dead, sock |-> t.sock]
<1> DEFINE k == [t EXCEPT !.gs = x]
<1>1. k = [todo |-> t.todo, list |-> t.list, gs |-> x, old |-> t.old, left |-> t.left,
           dead |-> t.dead, sock |-> t.sock]
  OBVIOUS
<1> HIDE DEF k
<1>2. [k EXCEPT !.left = y] = [todo |-> t.todo, list |-> t.list, gs |-> x, old |-> t.old, left |-> y,
                              dead |-> t.dead, sock |-> t.sock]
  BY <1>1
<1>3. [k EXCEPT !.left = y] = [t EXCEPT !.gs = x, !.left = y]
  BY Zenon DEF k
<1> QED BY <1>2, <1>3

(* The fields of a task that has read the groups and the nodes.            *)
LEMMA ReadFields ==
  ASSUME NEW t, t = [todo |-> t.todo, list |-> t.list, gs |-> t.gs, old |-> t.old, left |-> t.left,
                     dead |-> t.dead, sock |-> t.sock], NEW x, NEW y
  PROVE  [t EXCEPT !.gs = x, !.old = y] =
           [todo |-> t.todo, list |-> t.list, gs |-> x, old |-> y, left |-> t.left,
            dead |-> t.dead, sock |-> t.sock]
<1> DEFINE k == [t EXCEPT !.gs = x]
<1>1. k = [todo |-> t.todo, list |-> t.list, gs |-> x, old |-> t.old, left |-> t.left,
           dead |-> t.dead, sock |-> t.sock]
  OBVIOUS
<1> HIDE DEF k
<1>2. [k EXCEPT !.old = y] = [todo |-> t.todo, list |-> t.list, gs |-> x, old |-> y, left |-> t.left,
                              dead |-> t.dead, sock |-> t.sock]
  BY <1>1
<1>3. [k EXCEPT !.old = y] = [t EXCEPT !.gs = x, !.old = y]
  BY Zenon DEF k
<1> QED BY <1>2, <1>3

(* The fields of a task that has taken the inbounds of one kind.           *)
LEMMA KindFields ==
  ASSUME NEW t, t = [todo |-> t.todo, list |-> t.list, gs |-> t.gs, old |-> t.old, left |-> t.left,
                     dead |-> t.dead, sock |-> t.sock], NEW x, NEW y
  PROVE  [t EXCEPT !.left = x, !.list = y] =
           [todo |-> t.todo, list |-> y, gs |-> t.gs, old |-> t.old, left |-> x,
            dead |-> t.dead, sock |-> t.sock]
<1> DEFINE k == [t EXCEPT !.left = x]
<1>1. k = [todo |-> t.todo, list |-> t.list, gs |-> t.gs, old |-> t.old, left |-> x,
           dead |-> t.dead, sock |-> t.sock]
  OBVIOUS
<1> HIDE DEF k
<1>2. [k EXCEPT !.list = y] = [todo |-> t.todo, list |-> y, gs |-> t.gs, old |-> t.old, left |-> x,
                              dead |-> t.dead, sock |-> t.sock]
  BY <1>1
<1>3. [k EXCEPT !.list = y] = [t EXCEPT !.left = x, !.list = y]
  BY Zenon DEF k
<1> QED BY <1>2, <1>3

(* A task that is ready goes on to a task.                                 *)
LEMMA Resumed ==
  ASSUME NEW w, NEW k, Ready(w, k)
  PROVE  /\ IsTask(w, Rest(k)) /\ Rest(k).todo = Tail(k.todo) /\ Rest(k).todo # <<>>
         /\ Rest(k).list = k.list /\ Rest(k).gs = k.gs /\ Rest(k).old = k.old
         /\ Rest(k).left = k.left /\ Rest(k).sock = k.sock
<1>1. Rest(k) = [todo |-> Tail(k.todo), list |-> k.list, gs |-> k.gs, old |-> k.old, left |-> k.left,
                 dead |-> k.dead, sock |-> k.sock]
  BY Zenon, RestFields DEF Ready
<1>2. Tail(k.todo) \in Plans(w) /\ Tail(k.todo) # <<>>
  BY DEF Ready, Follows
<1> DEFINE u == Rest(k)
<1>3. /\ u.todo = Tail(k.todo) /\ u.list = k.list /\ u.gs = k.gs /\ u.old = k.old
      /\ u.left = k.left /\ u.sock = k.sock /\ u.dead = k.dead
  BY <1>1
<1>4. u = [todo |-> u.todo, list |-> u.list, gs |-> u.gs, old |-> u.old, left |-> u.left,
           dead |-> u.dead, sock |-> u.sock]
  <2> HIDE DEF u
  <2> QED BY <1>1, <1>3 DEF u
<1> HIDE DEF u
<1>5. IsTask(w, u)
  BY <1>2, <1>3, <1>4 DEF Ready, IsTask, Ahead, AtStarts
<1> QED BY <1>2, <1>3, <1>5 DEF u

(* A step that only changes what its actor has to do.                      *)
LEMMA Thinks ==
  ASSUME job = [v \in Actors |-> job[v]], ListsTyped, NEW w \in Actors, NEW u,
         \A v \in Actors \ {w} : job[v] = Idle, job' = [job EXCEPT ![w] = u],
         UNCHANGED <<lists, tables, up>>, Known(w, u)
  PROVE  IInv'
<1>1. UNCHANGED <<inbounds, servers, refs, member>>
  BY DEF lists
<1>2. Known(w, u)'
  <2>1. IsTask(w, u)' <=> IsTask(w, u)
    BY DEF IsTask
  <2> QED BY <1>1, <2>1, Kept DEF Known
<1>3. ListsTyped'
  BY Kept
<1> QED BY <1>2, <1>3, Ends

-----------------------------------------------------------------------------
(* The steps that only change what their actor has to do.                  *)
LEMMA EnsureDoneKeeps ==
  ASSUME IInv, NEW w \in DOMAIN job, EnsureDone(w)
  PROVE  IInv'
<1> DEFINE t == job[w]
<1>1. PICK label \in {"ensure", "one", "start"} : At(w, label)
  BY DEF EnsureDone, Starts
<1>2. /\ w \in Actors /\ ListsTyped /\ job = [v \in Actors |-> job[v]]
      /\ \A v \in Actors \ {w} : job[v] = Idle
      /\ Known(w, t) /\ Ahead(t, label) /\ t.todo # <<>> /\ Follows(w, t.todo)
  BY <1>1, Working
<1>3. t.left = {} /\ Done(w, t) /\ UNCHANGED <<lists, tables, up>>
  BY DEF EnsureDone
<1>4. Head(t.todo) = label /\ ~Pending(t) /\ t.sock = NoPort
  BY <1>2, <1>3 DEF Ahead, Pending, Known, TableOf
<1>5. /\ t = [todo |-> t.todo, list |-> t.list, gs |-> t.gs, old |-> t.old, left |-> t.left,
              dead |-> t.dead, sock |-> t.sock]
      /\ t.dead = FALSE /\ t.list \in Seq(Rows) /\ Distinct(t.list) /\ (t.gs # <<>> => t.gs \in [Groups -> RefSets])
      /\ t.old \in Seq(Nodes)
  BY <1>2 DEF Known, IsTask
<1> HIDE DEF t
<1>6. CASE Len(t.todo) # 1
  <2> DEFINE u == Rest(t)
  <2>1. Head(Tail(t.todo)) \in {"store", "cfdo"}
    BY <1>1, <1>2, <1>4, <1>6 DEF Follows
  <2>2. /\ IsTask(w, u) /\ u.todo = Tail(t.todo) /\ u.todo # <<>>
        /\ u.list = t.list /\ u.gs = t.gs /\ u.old = t.old /\ u.left = {} /\ u.sock = NoPort
    <3>1. Ready(w, t)
      BY <1>2, <1>3, <1>4, <1>5, <1>6, <2>1 DEF Ready
    <3> QED BY <1>3, <1>4, <3>1, Resumed
  <2>3. job' = [job EXCEPT ![w] = u]
    BY <1>3, <1>6, Proceeds
  <2> HIDE DEF u
  <2>4. /\ \A l \in {"stop", "wait", "ensure", "one", "start", "read", "servers", "groups",
                     "part", "copied", "load"} : ~Ahead(u, l)
        /\ ~Pending(u) /\ ~Restarts(u)
    BY <2>1, <2>2 DEF Ahead, Pending, AtStarts, Restarts
  <2>5. \A l \in {"stop", "wait", "groups"} : ~Ahead(t, l)
    BY <1>1, <1>4 DEF Ahead
  <2>6. TableOf(w, u)
    BY <1>2, <1>4, <2>2, <2>4, <2>5 DEF Known, TableOf
  <2>7. PortsOf(w, u)
    BY <1>2, <2>2, <2>4, <2>5 DEF Known, PortsOf
  <2>8. NodesOf(w, u)
    BY <1>2, <2>2, <2>4 DEF Known, NodesOf
  <2>9. MembersOf(u) /\ CopiesOf(u)
    BY <1>2, <2>4, <2>5 DEF Known, MembersOf, CopiesOf
  <2> QED BY <1>2, <1>3, <2>2, <2>3, <2>6, <2>7, <2>8, <2>9, Thinks DEF Known
<1>7. CASE Len(t.todo) = 1
  <2>1. label = "start" /\ w = "kernel"
    BY <1>1, <1>2, <1>4, <1>7 DEF Follows
  <2>2. job' = [job EXCEPT ![w] = Idle]
    BY <1>3, <1>7 DEF Done
  <2>3. \A l \in {"stop", "wait", "groups"} : ~Ahead(t, l)
    BY <1>1, <1>4 DEF Ahead
  <2>4. IsTask(w, Idle)
    BY IdleIsTask
  <2>5. TableOf(w, Idle)
    BY <1>2, <1>4, <2>3, IdleTask DEF Known, TableOf
  <2>6. PortsOf(w, Idle)
    BY <1>2, <2>1, IdleTask DEF Known, PortsOf
  <2>7. NodesOf(w, Idle)
    BY <1>2, <2>1 DEF Known, NodesOf
  <2>8. MembersOf(Idle) /\ CopiesOf(Idle)
    BY <1>2, <2>3, IdleTask DEF Known, MembersOf, CopiesOf
  <2> QED BY <1>2, <1>3, <2>2, <2>4, <2>5, <2>6, <2>7, <2>8, Thinks DEF Known
<1> QED BY <1>6, <1>7

(* A value for every group is not empty.                                   *)
LEMMA GroupsAreSome ==
  ASSUME NEW T, NEW f \in [Groups -> T]
  PROVE  f # <<>>
<1>1. "a" \in DOMAIN f
  BY DEF Groups
<1>2. DOMAIN <<>> = {}
  OBVIOUS
<1> QED BY <1>1, <1>2

(* The groups, then the nodes, are read.                                   *)
LEMMA ReadKeeps ==
  ASSUME IInv, NEW w \in DOMAIN job, Read(w)
  PROVE  IInv'
<1> DEFINE t == job[w]
           k == [t EXCEPT !.gs = refs, !.old = servers]
           u == Rest(k)
<1>1. At(w, "read") /\ Done(w, k) /\ UNCHANGED <<lists, tables, up>>
  BY DEF Read
<1>2. /\ w \in Actors /\ ListsTyped /\ job = [v \in Actors |-> job[v]]
      /\ \A v \in Actors \ {w} : job[v] = Idle
      /\ Known(w, t) /\ Ahead(t, "read") /\ t.todo # <<>> /\ Follows(w, t.todo)
  BY <1>1, Working
<1>3. Head(t.todo) = "read" /\ Len(t.todo) # 1 /\ Head(Tail(t.todo)) = "servers" /\ w # "kernel"
  BY <1>2 DEF Ahead, Follows
<1>4. /\ t = [todo |-> t.todo, list |-> t.list, gs |-> t.gs, old |-> t.old, left |-> t.left,
              dead |-> t.dead, sock |-> t.sock]
      /\ t.dead = FALSE /\ t.list \in Seq(Rows) /\ Distinct(t.list)
      /\ t.sock \in Ports \union {NoPort}
  BY <1>2 DEF Known, IsTask
<1> HIDE DEF t
<1>5. /\ k = [todo |-> k.todo, list |-> k.list, gs |-> k.gs, old |-> k.old, left |-> k.left,
              dead |-> k.dead, sock |-> k.sock]
      /\ k.todo = t.todo /\ k.list = t.list /\ k.gs = refs /\ k.old = servers /\ k.dead = t.dead
      /\ k.sock = t.sock
  <2>1. k = [todo |-> t.todo, list |-> t.list, gs |-> refs, old |-> servers, left |-> t.left,
             dead |-> t.dead, sock |-> t.sock]
    <3>1. \A x, y : [t EXCEPT !.gs = x, !.old = y] =
            [todo |-> t.todo, list |-> t.list, gs |-> x, old |-> y, left |-> t.left,
             dead |-> t.dead, sock |-> t.sock]
      BY <1>4, ReadFields
    <3> QED BY <3>1
  <2> HIDE DEF k
  <2> QED BY <2>1
<1>6. refs \in [Groups -> RefSets] /\ servers \in Seq(Nodes) /\ refs # <<>>
  BY <1>2, GroupsAreSome DEF ListsTyped
<1> HIDE DEF k
<1>7. /\ IsTask(w, u) /\ u.todo = Tail(t.todo) /\ u.todo # <<>>
      /\ u.list = t.list /\ u.gs = refs /\ u.old = servers /\ u.sock = t.sock
  <2>1. Ready(w, k)
    BY <1>2, <1>3, <1>4, <1>5, <1>6 DEF Ready
  <2> QED BY <1>5, <1>6, <2>1, Resumed
<1>8. job' = [job EXCEPT ![w] = u]
  BY <1>1, <1>3, <1>5, Proceeds
<1> HIDE DEF u
<1>9. /\ \A l \in {"stop", "wait", "ensure", "one", "start", "groups", "part", "copied", "load"} :
           ~Ahead(u, l) /\ ~Ahead(t, l)
      /\ ~Pending(u) /\ ~Restarts(u) /\ ~Pending(t) /\ ~Restarts(t)
  BY <1>3, <1>7 DEF Ahead, Pending, AtStarts, Restarts
<1>10. TableOf(w, u)
  BY <1>2, <1>7, <1>9 DEF Known, TableOf
<1>11. PortsOf(w, u)
  BY <1>2, <1>3, <1>7, <1>9 DEF Known, PortsOf
<1>12. NodesOf(w, u)
  BY <1>3, <1>7, <1>9 DEF NodesOf
<1>13. MembersOf(u) /\ CopiesOf(u)
  BY <1>2, <1>7, <1>9 DEF Known, MembersOf, CopiesOf
<1> QED BY <1>1, <1>2, <1>7, <1>8, <1>10, <1>11, <1>12, <1>13, Thinks DEF Known

(* Nothing is being closed any more.                                       *)
LEMMA WaitForStopsKeeps ==
  ASSUME IInv, NEW w \in DOMAIN job, WaitForStops(w)
  PROVE  IInv'
<1> DEFINE t == job[w]
           all == {m \in DOMAIN t.list : t.list[m].id \in t.left \/ t.todo[2] # "one"}
           k == [t EXCEPT !.left = all]
           u == Rest(k)
<1>1. At(w, "wait") /\ Done(w, k) /\ UNCHANGED <<lists, tables, up>>
      /\ \A s \in socks : ~(s.closing /\ s.id \in t.left)
  BY DEF WaitForStops
<1>2. /\ w \in Actors /\ ListsTyped /\ job = [v \in Actors |-> job[v]]
      /\ \A v \in Actors \ {w} : job[v] = Idle
      /\ Known(w, t) /\ Ahead(t, "wait") /\ t.todo # <<>> /\ Follows(w, t.todo)
  BY <1>1, Working
<1>3. /\ Head(t.todo) = "wait" /\ Len(t.todo) # 1 /\ Head(Tail(t.todo)) = t.todo[2] /\ w # "boot"
      /\ t.todo[2] \in {"ensure", "one", "start"} /\ (t.todo[2] = "start" <=> w = "kernel")
  BY <1>2 DEF Ahead, Follows
<1>4. /\ t = [todo |-> t.todo, list |-> t.list, gs |-> t.gs, old |-> t.old, left |-> t.left,
              dead |-> t.dead, sock |-> t.sock]
      /\ t.dead = FALSE /\ t.list \in Seq(Rows) /\ Distinct(t.list)
      /\ t.sock \in Ports \union {NoPort} /\ (t.gs # <<>> => t.gs \in [Groups -> RefSets])
      /\ t.old \in Seq(Nodes)
  BY <1>2 DEF Known, IsTask
<1> HIDE DEF t
<1>5. all \subseteq DOMAIN t.list
  OBVIOUS
<1>14. Restarts(t) => \A m, n \in all : m = n
  <2> SUFFICES ASSUME Restarts(t), NEW m \in all, NEW n \in all PROVE m = n
    OBVIOUS
  <2>1. t.todo[2] = "one"
    BY <1>3 DEF Restarts, Ahead
  <2>2. t.list[m].id \in t.left /\ t.list[n].id \in t.left
    BY <2>1
  <2>3. t.list[m].id = t.list[n].id
    BY <1>2, <2>2 DEF Known, PortsOf
  <2> QED BY <1>4, <1>5, <2>3 DEF Distinct
<1> HIDE DEF all
<1>6. /\ k = [todo |-> k.todo, list |-> k.list, gs |-> k.gs, old |-> k.old, left |-> k.left,
              dead |-> k.dead, sock |-> k.sock]
      /\ k.todo = t.todo /\ k.list = t.list /\ k.gs = t.gs /\ k.old = t.old /\ k.dead = t.dead
      /\ k.sock = t.sock /\ k.left = all
  BY <1>4
<1> HIDE DEF k
<1>7. /\ IsTask(w, u) /\ u.todo = Tail(t.todo) /\ u.todo # <<>>
      /\ u.list = t.list /\ u.gs = t.gs /\ u.sock = t.sock /\ u.left = all
  <2>1. Ready(w, k)
    BY <1>2, <1>3, <1>4, <1>5, <1>6 DEF Ready
  <2> QED BY <1>5, <1>6, <2>1, Resumed
<1>8. job' = [job EXCEPT ![w] = u]
  BY <1>1, <1>3, <1>6, Proceeds
<1> HIDE DEF u
<1>9. /\ \A l \in {"stop", "wait", "read", "servers", "groups", "part", "copied", "load"} : ~Ahead(u, l)
      /\ \A l \in {"stop", "groups"} : ~Ahead(t, l)
      /\ ~Pending(t) /\ (Ahead(u, "start") <=> w = "kernel") /\ (Restarts(u) => Restarts(t) /\ ~Ahead(t, "one"))
  BY <1>3, <1>7 DEF Ahead, Pending, AtStarts, Restarts
<1>10. TableOf(w, u)
  BY <1>1, <1>2, <1>7, <1>9 DEF Known, TableOf
<1>11. PortsOf(w, u)
  <2>1. w = "kernel" => \A m \in all : \E j \in DOMAIN inbounds : inbounds[j] = t.list[m]
    BY <1>2, <1>5 DEF Known, PortsOf
  <2> QED BY <1>2, <1>3, <1>7, <1>9, <1>14, <2>1 DEF Known, PortsOf
<1>12. NodesOf(w, u)
  BY <1>2, <1>7, <1>9 DEF Known, NodesOf
<1>13. MembersOf(u) /\ CopiesOf(u)
  BY <1>2, <1>7, <1>9 DEF Known, MembersOf, CopiesOf
<1> QED BY <1>1, <1>2, <1>7, <1>8, <1>10, <1>11, <1>12, <1>13, Thinks DEF Known

(* The start of the kernel takes the inbounds of a kind.                   *)
LEMMA TakeKindKeeps ==
  ASSUME InboundAssumption, IInv, NEW kind \in SUBSET Inbounds, NEW label \in {"goodnet", "cfdo"},
         TakeKind(kind, label)
  PROVE  IInv'
<1> DEFINE w == "kernel"
           t == job[w]
           places == {m \in DOMAIN inbounds : inbounds[m].id \in kind}
           mine == Pick(inbounds, places)
           k == [t EXCEPT !.left = kind, !.list = mine]
           u == Rest(k)
<1>1. At("kernel", label) /\ Done("kernel", k) /\ UNCHANGED <<lists, tables, up>>
  BY DEF TakeKind
<1>2. "kernel" \in DOMAIN job
  BY DEF IInv, Typed, Actors
<1>3. /\ w \in Actors /\ ListsTyped /\ job = [v \in Actors |-> job[v]]
      /\ \A v \in Actors \ {w} : job[v] = Idle
      /\ Known(w, t) /\ Ahead(t, label) /\ t.todo # <<>> /\ Follows(w, t.todo)
  BY <1>1, <1>2, Working
<1>4. /\ Head(t.todo) = label /\ Len(t.todo) # 1 /\ Head(Tail(t.todo)) = "stop"
      /\ Tail(t.todo)[3] = "start"
  BY <1>3 DEF Ahead, Follows
<1>5. /\ t = [todo |-> t.todo, list |-> t.list, gs |-> t.gs, old |-> t.old, left |-> t.left,
              dead |-> t.dead, sock |-> t.sock]
      /\ t.dead = FALSE /\ t.sock \in Ports \union {NoPort} /\ (t.gs # <<>> => t.gs \in [Groups -> RefSets])
      /\ t.old \in Seq(Nodes)
  BY <1>3 DEF Known, IsTask
<1> HIDE DEF t
<1>6. /\ mine \in Seq(Rows) /\ Distinct(mine)
      /\ \A m \in DOMAIN mine : \E j \in DOMAIN inbounds : inbounds[j] = mine[m]
  <2>1. inbounds \in Seq(Rows) /\ Distinct(inbounds) /\ places \in SUBSET DOMAIN inbounds
    BY <1>3 DEF ListsTyped
  <2> HIDE DEF places
  <2>2. /\ mine \in Seq(Rows)
        /\ \A m \in DOMAIN mine : /\ Nth(places, m) \in places /\ mine[m] = inbounds[Nth(places, m)]
                                  /\ Rank(places, Nth(places, m)) = m
    BY <2>1, Picked
  <2> HIDE DEF mine
  <2>3. Distinct(mine)
    BY <2>1, <2>2 DEF Distinct
  <2> QED BY <2>1, <2>2, <2>3
<1> HIDE DEF mine
<1>7. /\ k = [todo |-> k.todo, list |-> k.list, gs |-> k.gs, old |-> k.old, left |-> k.left,
              dead |-> k.dead, sock |-> k.sock]
      /\ k.todo = t.todo /\ k.list = mine /\ k.gs = t.gs /\ k.old = t.old /\ k.dead = t.dead
      /\ k.sock = t.sock /\ k.left = kind
  <2>1. k = [todo |-> t.todo, list |-> mine, gs |-> t.gs, old |-> t.old, left |-> kind,
             dead |-> t.dead, sock |-> t.sock]
    BY <1>5, KindFields, Zenon
  <2> HIDE DEF k
  <2> QED BY <2>1
<1> HIDE DEF k
<1>8. /\ IsTask(w, u) /\ u.todo = Tail(t.todo) /\ u.todo # <<>>
      /\ u.list = mine /\ u.gs = t.gs /\ u.sock = t.sock /\ u.left = kind
  <2>1. Ready(w, k)
    BY <1>3, <1>4, <1>5, <1>6, <1>7 DEF Ready
  <2> QED BY <1>6, <1>7, <2>1, Resumed
<1>9. job' = [job EXCEPT ![w] = u]
  BY <1>1, <1>4, <1>7, Proceeds
<1> HIDE DEF u
<1>10. /\ \A l \in {"wait", "ensure", "one", "start", "read", "servers", "groups", "part", "copied", "load"} : ~Ahead(u, l)
       /\ \A l \in {"wait", "groups"} : ~Ahead(t, l)
       /\ ~Pending(t) /\ ~Pending(u) /\ ~Restarts(u)
  BY <1>4, <1>8 DEF Ahead, Pending, AtStarts, Restarts
<1>11. TableOf(w, u)
  BY <1>3, <1>8, <1>10 DEF Known, TableOf
<1>12. PortsOf(w, u)
  BY <1>3, <1>6, <1>8, <1>10 DEF Known, PortsOf
<1>13. NodesOf(w, u)
  BY <1>3, <1>8, <1>10 DEF Known, NodesOf
<1>14. MembersOf(u) /\ CopiesOf(u)
  BY <1>3, <1>8, <1>10 DEF Known, MembersOf, CopiesOf
<1> QED BY <1>1, <1>3, <1>8, <1>9, <1>11, <1>12, <1>13, <1>14, Thinks DEF Known

(* The tasks that begin.                                                   *)
LEMMA BeginFields ==
  /\ Idle.dead = FALSE /\ Idle.list = <<>> /\ Idle.gs = <<>> /\ Idle.old = <<>> /\ Idle.left = {}
  /\ Idle.sock = NoPort
  /\ \A x : [Idle EXCEPT !.todo = x] =
       [todo |-> x, list |-> Idle.list, gs |-> Idle.gs, old |-> Idle.old, left |-> Idle.left,
        dead |-> Idle.dead, sock |-> Idle.sock]
  /\ \A x, y, z : [Idle EXCEPT !.todo = x, !.list = y, !.left = z] =
       [todo |-> x, list |-> y, gs |-> Idle.gs, old |-> Idle.old, left |-> z,
        dead |-> Idle.dead, sock |-> Idle.sock]
<1>1. /\ Idle.dead = FALSE /\ Idle.list = <<>> /\ Idle.gs = <<>> /\ Idle.old = <<>> /\ Idle.left = {}
      /\ Idle.sock = NoPort
  BY DEF Idle
<1>2. Idle = [todo |-> Idle.todo, list |-> Idle.list, gs |-> Idle.gs, old |-> Idle.old,
              left |-> Idle.left, dead |-> Idle.dead, sock |-> Idle.sock]
  BY DEF Idle
<1>3. \A x : [Idle EXCEPT !.todo = x] =
        [todo |-> x, list |-> Idle.list, gs |-> Idle.gs, old |-> Idle.old, left |-> Idle.left,
         dead |-> Idle.dead, sock |-> Idle.sock]
  BY <1>2
<1>4. ASSUME NEW x, NEW y, NEW z
      PROVE  [Idle EXCEPT !.todo = x, !.list = y, !.left = z] =
               [todo |-> x, list |-> y, gs |-> Idle.gs, old |-> Idle.old, left |-> z,
                dead |-> Idle.dead, sock |-> Idle.sock]
  <2> DEFINE k == [Idle EXCEPT !.todo = x]
             n == [k EXCEPT !.list = y]
  <2>1. k = [todo |-> x, list |-> Idle.list, gs |-> Idle.gs, old |-> Idle.old, left |-> Idle.left,
             dead |-> Idle.dead, sock |-> Idle.sock]
    BY <1>3
  <2> HIDE DEF k
  <2>2. n = [todo |-> x, list |-> y, gs |-> Idle.gs, old |-> Idle.old, left |-> Idle.left,
             dead |-> Idle.dead, sock |-> Idle.sock]
    BY <2>1
  <2> HIDE DEF n
  <2>3. [n EXCEPT !.left = z] = [todo |-> x, list |-> y, gs |-> Idle.gs, old |-> Idle.old, left |-> z,
                                 dead |-> Idle.dead, sock |-> Idle.sock]
    BY <2>2
  <2>4. [n EXCEPT !.left = z] = [Idle EXCEPT !.todo = x, !.list = y, !.left = z]
    BY Zenon DEF k, n
  <2> QED BY <2>3, <2>4
<1> QED BY <1>1, <1>3, <1>4

(* An actor that begins a task had nothing to do.                          *)
LEMMA Begins ==
  ASSUME IInv, Quiet, NEW w \in Actors, NEW u, Begin(w, u), UNCHANGED <<lists, tables, up>>,
         Known(w, u)
  PROVE  IInv'
<1>1. /\ ListsTyped /\ job = [v \in Actors |-> job[v]] /\ \A v \in Actors \ {w} : job[v] = Idle
  BY Resting
<1>2. job' = [job EXCEPT ![w] = u]
  BY DEF Begin
<1> QED BY <1>1, <1>2, Thinks

(* The start of the kernel is let in between requests.                     *)
LEMMA StartKernelKeeps ==
  ASSUME IInv, StartKernel
  PROVE  IInv'
<1> DEFINE plan == <<"goodnet", "stop", "wait", "start", "cfdo", "stop", "wait", "start">>
           u == [Idle EXCEPT !.todo = plan]
<1>1. Quiet /\ Begin("kernel", u) /\ UNCHANGED <<lists, tables, up>>
  BY DEF StartKernel
<1>2. "kernel" \in Actors /\ Known("kernel", Idle)
  BY <1>1, Resting DEF Actors
<1>3. /\ u = [todo |-> plan, list |-> Idle.list, gs |-> Idle.gs, old |-> Idle.old, left |-> Idle.left,
              dead |-> Idle.dead, sock |-> Idle.sock]
      /\ Idle.dead = FALSE /\ Idle.list = <<>> /\ Idle.gs = <<>> /\ Idle.old = <<>> /\ Idle.left = {}
      /\ Idle.sock = NoPort
  BY BeginFields
<1>4. plan \in Plans("kernel") /\ plan # <<>> /\ Head(plan) = "goodnet"
  BY DEF Plans, Kernels
<1> HIDE DEF plan, u
<1>5. /\ u.todo = plan /\ u.list = <<>> /\ u.gs = <<>> /\ u.old = <<>> /\ u.left = {}
      /\ u.dead = FALSE /\ u.sock = NoPort
  BY <1>3
<1>6. u = [todo |-> u.todo, list |-> u.list, gs |-> u.gs, old |-> u.old, left |-> u.left,
           dead |-> u.dead, sock |-> u.sock]
  BY <1>3
<1>7. /\ \A l \in {"stop", "wait", "ensure", "one", "start", "read", "servers", "groups",
                   "part", "copied", "load"} : ~Ahead(u, l)
      /\ ~Pending(u) /\ ~Restarts(u) /\ ~AtStarts(u)
  BY <1>4, <1>5 DEF Ahead, Pending, AtStarts, Restarts
<1>8. IsTask("kernel", u)
  BY <1>4, <1>5, <1>6, <1>7 DEF IsTask, Distinct
<1>9. TableOf("kernel", u)
  BY <1>2, <1>5, <1>7, IdleTask DEF Known, TableOf
<1>10. PortsOf("kernel", u)
  BY <1>2, <1>7, IdleTask DEF Known, PortsOf
<1>11. NodesOf("kernel", u)
  BY <1>2, IdleTask DEF Known, NodesOf
<1>12. MembersOf(u) /\ CopiesOf(u)
  BY <1>2, <1>7, IdleTask DEF Known, MembersOf, CopiesOf
<1> QED BY <1>1, <1>2, <1>8, <1>9, <1>10, <1>11, <1>12, Begins DEF Known

(* A restart of one sidecar begins with the stored inbounds.               *)
LEMMA RestartKeeps ==
  ASSUME InboundAssumption, Single, IInv, NEW h \in Handlers, NEW n \in DOMAIN inbounds,
         RestartBuiltinProxy(h, n)
  PROVE  IInv'
<1> DEFINE plan == <<"stop", "wait", "one", "store", "read", "servers", "groups">>
           left == {inbounds[n].id}
           u == [Idle EXCEPT !.todo = plan, !.list = inbounds, !.left = left]
<1>1. /\ up /\ job[h] = Idle /\ job["kernel"] = Idle
      /\ Begin(h, u) /\ UNCHANGED <<lists, tables, up>>
  BY DEF RestartBuiltinProxy
<1>2. Quiet /\ h \in Actors /\ h # "kernel" /\ h # "boot"
  BY <1>1, Serving DEF InboundAssumption
<1>3. ListsTyped /\ Known(h, Idle)
  BY <1>2, Resting
<1>4. /\ u = [todo |-> plan, list |-> inbounds, gs |-> Idle.gs, old |-> Idle.old, left |-> left,
              dead |-> Idle.dead, sock |-> Idle.sock]
      /\ Idle.dead = FALSE /\ Idle.gs = <<>> /\ Idle.old = <<>> /\ Idle.sock = NoPort
  BY BeginFields
<1>5. plan \in Plans(h) /\ plan # <<>> /\ Head(plan) = "stop" /\ plan[3] = "one"
  BY <1>2 DEF Plans, Changing
<1>6. inbounds \in Seq(Rows) /\ Distinct(inbounds) /\ left \subseteq Inbounds
  <2>1. inbounds \in Seq(Rows) /\ Distinct(inbounds)
    BY <1>3 DEF ListsTyped
  <2>2. inbounds[n] \in Rows
    BY <2>1
  <2>3. inbounds[n].id \in Inbounds
    BY <2>2 DEF Rows
  <2> QED BY <2>1, <2>3
<1>15. \A i, j \in left : i = j
  OBVIOUS
<1> HIDE DEF plan, u, left
<1>7. /\ u.todo = plan /\ u.list = inbounds /\ u.gs = <<>> /\ u.old = <<>> /\ u.left = left
      /\ u.dead = FALSE /\ u.sock = NoPort
  BY <1>4
<1>8. u = [todo |-> u.todo, list |-> u.list, gs |-> u.gs, old |-> u.old, left |-> u.left,
           dead |-> u.dead, sock |-> u.sock]
  BY <1>4
<1>9. /\ \A l \in {"wait", "ensure", "one", "start", "read", "servers", "groups",
                   "part", "copied", "load"} : ~Ahead(u, l)
      /\ ~Pending(u) /\ ~AtStarts(u)
  BY <1>5, <1>7 DEF Ahead, Pending, AtStarts
<1>10. IsTask(h, u)
  BY <1>5, <1>6, <1>7, <1>8, <1>9 DEF IsTask
<1>11. TableOf(h, u)
  BY <1>3, <1>7, <1>9, IdleTask DEF Known, TableOf
<1>12. PortsOf(h, u)
  BY <1>2, <1>3, <1>5, <1>7, <1>9, <1>15, IdleTask DEF Known, PortsOf
<1>13. NodesOf(h, u)
  BY <1>3, IdleTask DEF Known, NodesOf
<1>14. MembersOf(u) /\ CopiesOf(u)
  BY <1>3, <1>9, IdleTask DEF Known, MembersOf, CopiesOf
<1> QED BY <1>1, <1>2, <1>10, <1>11, <1>12, <1>13, <1>14, Begins DEF Known

(* A boot loads the stored inbounds, while no sidecar runs.                *)
LEMMA LoadKeeps ==
  ASSUME IInv, Load
  PROVE  IInv'
<1> DEFINE w == "boot"
           t == job[w]
           plan == <<"ensure", "store", "read", "servers", "groups">>
           u == [Idle EXCEPT !.todo = plan, !.list = inbounds, !.left = DOMAIN inbounds]
<1>1. At("boot", "load") /\ job' = [job EXCEPT !["boot"] = u] /\ UNCHANGED <<lists, tables, up>>
  BY DEF Load, Begin
<1>2. "boot" \in DOMAIN job
  BY DEF IInv, Typed, Actors
<1>3. /\ w \in Actors /\ ListsTyped /\ job = [v \in Actors |-> job[v]]
      /\ \A v \in Actors \ {w} : job[v] = Idle
      /\ Known(w, t) /\ Ahead(t, "load") /\ t.todo # <<>>
  BY <1>1, <1>2, Working
<1>4. /\ u = [todo |-> plan, list |-> inbounds, gs |-> Idle.gs, old |-> Idle.old,
              left |-> DOMAIN inbounds, dead |-> Idle.dead, sock |-> Idle.sock]
      /\ Idle.dead = FALSE /\ Idle.gs = <<>> /\ Idle.old = <<>> /\ Idle.sock = NoPort
  BY BeginFields
<1>5. plan \in Plans(w) /\ plan # <<>> /\ Head(plan) = "ensure"
  BY DEF Plans, Ensures
<1>6. inbounds \in Seq(Rows) /\ Distinct(inbounds)
  BY <1>3 DEF ListsTyped
<1> HIDE DEF plan, u, t
<1>7. /\ u.todo = plan /\ u.list = inbounds /\ u.gs = <<>> /\ u.old = <<>> /\ u.left = DOMAIN inbounds
      /\ u.dead = FALSE /\ u.sock = NoPort
  BY <1>4
<1>8. u = [todo |-> u.todo, list |-> u.list, gs |-> u.gs, old |-> u.old, left |-> u.left,
           dead |-> u.dead, sock |-> u.sock]
  BY <1>4
<1>9. /\ \A l \in {"stop", "wait", "one", "start", "read", "servers", "groups", "part", "copied"} :
           ~Ahead(u, l) /\ ~Ahead(t, l)
      /\ ~Ahead(u, "load")
      /\ ~Pending(t) /\ ~Restarts(u)
  BY <1>3, <1>5, <1>7 DEF Ahead, Pending, AtStarts, Restarts
<1>10. IsTask(w, u)
  BY <1>5, <1>6, <1>7, <1>8, <1>9 DEF IsTask
<1>11. TableOf(w, u)
  BY <1>3, <1>7, <1>9 DEF Known, TableOf
<1>12. PortsOf(w, u)
  <2>1. DOMAIN entries = {}
    BY <1>3 DEF Known, PortsOf
  <2>2. Shown(inbounds)
    BY <2>1 DEF Shown
  <2> QED BY <1>3, <1>5, <1>7, <1>9, <2>2 DEF Known, PortsOf
<1>13. NodesOf(w, u)
  BY <1>5, <1>7, <1>9 DEF NodesOf
<1>14. MembersOf(u) /\ CopiesOf(u)
  BY <1>3, <1>9 DEF Known, MembersOf, CopiesOf
<1> QED BY <1>1, <1>3, <1>10, <1>11, <1>12, <1>13, <1>14, Thinks DEF Known

(* The migration finds the nodes that are shared.                          *)
LEMMA FindSharedKeeps ==
  ASSUME IInv, FindShared
  PROVE  IInv'
<1> DEFINE w == "boot"
           t == job[w]
           left == refs["SERVER"] \intersect refs["a"] \intersect DOMAIN servers
           u == [t EXCEPT !.gs = refs, !.left = left]
<1>1. /\ At("boot", "part") /\ job' = [job EXCEPT !["boot"] = u] /\ UNCHANGED <<lists, tables, up>>
  BY DEF FindShared, Begin
<1>2. "boot" \in DOMAIN job
  BY DEF IInv, Typed, Actors
<1>3. /\ w \in Actors /\ ListsTyped /\ job = [v \in Actors |-> job[v]]
      /\ \A v \in Actors \ {w} : job[v] = Idle
      /\ Known(w, t) /\ Ahead(t, "part") /\ t.todo # <<>> /\ t.todo \in Plans(w)
  BY <1>1, <1>2, Working
<1>4. /\ t = [todo |-> t.todo, list |-> t.list, gs |-> t.gs, old |-> t.old, left |-> t.left,
              dead |-> t.dead, sock |-> t.sock]
      /\ t.dead = FALSE /\ t.list \in Seq(Rows) /\ Distinct(t.list)
      /\ t.sock \in Ports \union {NoPort} /\ t.old \in Seq(Nodes)
  BY <1>3 DEF Known, IsTask
<1>5. refs \in [Groups -> RefSets]
  BY <1>3 DEF ListsTyped
<1> HIDE DEF t, left
<1>6. /\ u.todo = t.todo /\ u.list = t.list /\ u.gs = refs /\ u.old = t.old /\ u.left = left
      /\ u.dead = FALSE /\ u.sock = t.sock
      /\ u = [todo |-> u.todo, list |-> u.list, gs |-> u.gs, old |-> u.old, left |-> u.left,
              dead |-> u.dead, sock |-> u.sock]
  <2>1. \A x, y : [t EXCEPT !.gs = x, !.left = y] =
          [todo |-> t.todo, list |-> t.list, gs |-> x, old |-> t.old, left |-> y,
           dead |-> t.dead, sock |-> t.sock]
    BY <1>4, ShareFields
  <2>2. u = [todo |-> t.todo, list |-> t.list, gs |-> refs, old |-> t.old, left |-> left,
             dead |-> t.dead, sock |-> t.sock]
    BY <2>1
  <2> HIDE DEF u
  <2> QED BY <1>4, <2>2
<1> HIDE DEF u
<1>7. /\ \A l \in {"stop", "wait", "ensure", "one", "start", "read", "servers", "groups", "copied"} :
           ~Ahead(u, l) /\ ~Ahead(t, l)
      /\ ~Pending(t) /\ ~Restarts(u) /\ ~Pending(u) /\ ~AtStarts(u)
  BY <1>3, <1>6 DEF Ahead, Pending, AtStarts, Restarts
<1>8. IsTask(w, u)
  BY <1>3, <1>4, <1>5, <1>6, <1>7 DEF IsTask
<1>9. TableOf(w, u)
  BY <1>3, <1>6, <1>7 DEF Known, TableOf
<1>10. PortsOf(w, u)
  BY <1>3, <1>6, <1>7 DEF Known, PortsOf
<1>11. NodesOf(w, u)
  BY <1>3, <1>6, <1>7 DEF NodesOf
<1>12. MembersOf(u) /\ CopiesOf(u)
  <2>1. u.gs # <<>>
    BY <1>5, <1>6, GroupsAreSome
  <2> QED BY <1>3, <1>6, <1>7, <2>1 DEF Known, MembersOf, CopiesOf, left
<1> QED BY <1>1, <1>3, <1>8, <1>9, <1>10, <1>11, <1>12, Thinks DEF Known

-----------------------------------------------------------------------------
(* The rebuilding of the list of nodes.                                    *)
LEMMA StoreKeeps ==
  ASSUME IInv, NEW w \in DOMAIN job, Store(w)
  PROVE  IInv'
<1> DEFINE t == job[w]
<1>1. At(w, "store") /\ Done(w, t) /\ inbounds' = t.list
      /\ UNCHANGED <<servers, refs, tables, up, parted, member>>
  BY DEF Store
<1>2. /\ w \in Actors /\ ListsTyped /\ job = [v \in Actors |-> job[v]]
      /\ \A v \in Actors \ {w} : job[v] = Idle
      /\ Known(w, t) /\ Ahead(t, "store") /\ t.todo # <<>> /\ Follows(w, t.todo)
  BY <1>1, Working
<1>3. Head(t.todo) = "store" /\ Len(t.todo) # 1 /\ Head(Tail(t.todo)) = "read" /\ w # "kernel"
  BY <1>2 DEF Ahead, Follows
<1>4. IsTask(w, t)
  BY <1>2 DEF Known
<1> HIDE DEF t
<1>5. Ready(w, t)
  BY <1>2, <1>3, <1>4 DEF Ready, IsTask
<1>6. job' = [job EXCEPT ![w] = Rest(t)]
  BY <1>1, <1>3, Proceeds
<1>7. PICK u : /\ job' = [job EXCEPT ![w] = u]
               /\ IsTask(w, u) /\ u.todo = Tail(t.todo) /\ u.todo # <<>>
               /\ u.list = t.list /\ u.gs = t.gs /\ u.sock = t.sock
  BY <1>5, <1>6, Resumed
<1>8. /\ \A l \in {"stop", "wait", "ensure", "one", "start", "groups", "servers",
                   "part", "copied", "load"} : ~Ahead(u, l) /\ ~Ahead(t, l)
      /\ ~Pending(u) /\ ~Restarts(u) /\ ~Pending(t)
  BY <1>3, <1>7 DEF Ahead, Pending, AtStarts, Restarts
<1>9. ListsTyped'
  BY <1>1, <1>2, <1>4 DEF ListsTyped, IsTask, tables, Distinct
<1>10. TableOf(w, u)'
  <2>1. TableOf(w, u)
    BY <1>2, <1>7, <1>8 DEF Known, TableOf
  <2> QED BY <1>1, <2>1, Kept
<1>11. PortsOf(w, u)'
  <2>1. Shown(u.list)
    BY <1>2, <1>3, <1>7, <1>8 DEF Known, PortsOf
  <2>2. Shown(u.list)'
    BY <1>1, <2>1 DEF Shown, tables
  <2>3. up <=> ~(w = "boot" /\ t.todo # <<>>)
    BY <1>2 DEF Known, PortsOf
  <2> QED BY <1>1, <1>2, <1>3, <1>7, <1>8, <2>2, <2>3 DEF PortsOf
<1>12. NodesOf(w, u)'
  BY <1>3, <1>7, <1>8 DEF NodesOf
<1>13. MembersOf(u)' /\ CopiesOf(u)'
  <2>1. MembersOf(u) /\ CopiesOf(u)
    BY <1>2, <1>8 DEF Known, MembersOf, CopiesOf
  <2> QED BY <1>1, <2>1, Kept
<1>14. IsTask(w, u)'
  BY <1>7 DEF IsTask
<1> QED BY <1>2, <1>7, <1>9, <1>10, <1>11, <1>12, <1>13, <1>14, Ends DEF Known

(* The nodes are replaced: the groups that are still to be rewritten will  *)
(* list what they should.                                                  *)
LEMMA PutServersKeeps ==
  ASSUME InboundAssumption, IInv, NEW w \in DOMAIN job, PutServers(w)
  PROVE  IInv'
<1> DEFINE t == job[w]
           new == NewServers(t.old, t.list)
           k == [t EXCEPT !.left = Groups]
<1>1. /\ At(w, "servers") /\ Done(w, k) /\ servers' = new
      /\ member' = [g \in Groups |->
           IF t.gs[g] = {} THEN {}
           ELSE (member[g] \intersect Sources(new)) \union
                IF g = "SERVER" THEN Sources(Running(t.list)) ELSE {}]
      /\ UNCHANGED <<inbounds, refs, tables, up, parted>>
  BY DEF PutServers
<1>2. /\ w \in Actors /\ ListsTyped /\ job = [v \in Actors |-> job[v]]
      /\ \A v \in Actors \ {w} : job[v] = Idle
      /\ Known(w, t) /\ Ahead(t, "servers") /\ t.todo # <<>> /\ Follows(w, t.todo)
  BY <1>1, Working
<1>3. Head(t.todo) = "servers" /\ Len(t.todo) # 1 /\ Head(Tail(t.todo)) = "groups" /\ w # "kernel"
  BY <1>2 DEF Ahead, Follows
<1>4. IsTask(w, t)
  BY <1>2 DEF Known
<1> HIDE DEF t
<1>5. t = [todo |-> t.todo, list |-> t.list, gs |-> t.gs, old |-> t.old, left |-> t.left,
           dead |-> t.dead, sock |-> t.sock]
  BY <1>4 DEF IsTask
<1>6. /\ k = [todo |-> k.todo, list |-> k.list, gs |-> k.gs, old |-> k.old, left |-> k.left,
              dead |-> k.dead, sock |-> k.sock]
      /\ k.todo = t.todo /\ k.list = t.list /\ k.gs = t.gs /\ k.old = t.old /\ k.dead = t.dead
      /\ k.sock = t.sock /\ k.left = Groups
  BY <1>5
<1> HIDE DEF k
<1>7. Ready(w, k)
  BY <1>2, <1>3, <1>4, <1>6 DEF Ready, IsTask, Ahead, Groups
<1>8. job' = [job EXCEPT ![w] = Rest(k)]
  BY <1>1, <1>3, <1>6, Proceeds
<1>9. PICK u : /\ job' = [job EXCEPT ![w] = u]
               /\ IsTask(w, u) /\ u.todo = Tail(t.todo) /\ u.todo # <<>>
               /\ u.list = t.list /\ u.gs = t.gs /\ u.sock = t.sock /\ u.old = t.old /\ u.left = Groups
  <2>1. /\ IsTask(w, Rest(k)) /\ Rest(k).todo = Tail(k.todo) /\ Rest(k).todo # <<>>
        /\ Rest(k).list = k.list /\ Rest(k).gs = k.gs /\ Rest(k).old = k.old
        /\ Rest(k).left = k.left /\ Rest(k).sock = k.sock
    BY <1>7, Resumed
  <2> QED BY <1>6, <1>8, <2>1
<1>10. /\ \A l \in {"stop", "wait", "ensure", "one", "start", "read", "servers",
                    "part", "copied", "load"} : ~Ahead(u, l)
       /\ \A l \in {"stop", "wait", "groups"} : ~Ahead(t, l)
       /\ ~Pending(u) /\ ~Restarts(u) /\ ~Pending(t) /\ Ahead(u, "groups")
  BY <1>3, <1>9 DEF Ahead, Pending, AtStarts, Restarts
<1>11. t.gs = refs /\ t.old = servers /\ t.old \in Seq(Nodes) /\ t.list \in Seq(Rows) /\ inbounds = t.list
  BY <1>2, <1>4 DEF Known, MembersOf, IsTask, PortsOf
<1>12. /\ new \in Seq(Nodes)
       /\ \A m \in DOMAIN new : FromInbound(new[m]) =>
            \E j \in DOMAIN t.list : t.list[j].port # NoPort /\ new[m] = Node(t.list[j].id, t.list[j].port)
       /\ \A j \in DOMAIN t.list : t.list[j].port # NoPort =>
            \E m \in DOMAIN new : new[m] = Node(t.list[j].id, t.list[j].port)
  BY <1>11, Rebuilt
<1> HIDE DEF new
<1>13. ListsTyped'
  <2>1. member' = [g \in Groups |-> member'[g]]
    BY <1>1
  <2> QED BY <1>1, <1>2, <1>12, <2>1 DEF ListsTyped, tables, Distinct
<1>14. TableOf(w, u)'
  <2>1. TableOf(w, u)
    BY <1>2, <1>9, <1>10 DEF Known, TableOf
  <2> QED BY <1>1, <2>1, Kept
<1>15. PortsOf(w, u)'
  <2>1. PortsOf(w, u)
    BY <1>2, <1>3, <1>9, <1>10, <1>11 DEF Known, PortsOf
  <2> QED BY <1>1, <2>1, Kept
<1>16. NodesOf(w, u)'
  <2>1. Fits(inbounds)'
    BY <1>1, <1>11, <1>12 DEF Fits
  <2> QED BY <2>1 DEF NodesOf
<1>17. MembersOf(u)'
  <2>1. servers' = NewServers(u.old, u.list)
    BY <1>1, <1>9 DEF new
  <2>2. ASSUME NEW g \in Groups
        PROVE  ListsMembers(g, NewRefs(g, u.gs[g], u.old, servers))'
    <3> DEFINE places == NewRefs(g, refs[g], servers, new)
    <3>1. ListsMembers(g, refs[g])
      BY <1>2, <1>10 DEF Known, MembersOf
    <3>2. CASE refs[g] = {}
      <4>1. places = {} /\ member'[g] = {}
        BY <1>1, <1>11, <3>2 DEF NewRefs
      <4> HIDE DEF places
      <4>2. places \subseteq DOMAIN servers' /\ {Source(servers'[i]) : i \in places} = member'[g]
        BY <4>1
      <4> QED BY <1>1, <1>9, <1>11, <4>2 DEF ListsMembers, places
    <3>3. CASE refs[g] # {}
      <4>1. refs[g] \in SUBSET DOMAIN servers /\ {Source(servers[i]) : i \in refs[g]} = member[g]
        BY <3>1 DEF ListsMembers
      <4>2. /\ places \subseteq DOMAIN new
            /\ {Source(new[m]) : m \in places} = Following(g, {Source(servers[i]) : i \in refs[g]}, t.list, new)
        <5>1. servers \in Seq(Nodes) /\ NewServers(servers, t.list) = new
          BY <1>11 DEF new
        <5>2. LET m == NewServers(servers, t.list)
                  ps == NewRefs(g, refs[g], servers, m)
              IN  /\ ps \subseteq DOMAIN m
                  /\ {Source(m[i]) : i \in ps} = Following(g, {Source(servers[i]) : i \in refs[g]}, t.list, m)
          <6>1. servers \in Seq(Nodes) /\ t.list \in Seq(Rows)
            BY <1>11
          <6>2. refs[g] \in SUBSET DOMAIN servers /\ refs[g] # {}
            BY <3>3, <4>1
          <6> QED BY <6>1, <6>2, Moved, Zenon
        <5> QED BY <5>1, <5>2
      <4>3. member'[g] = Following(g, member[g], t.list, new)
        BY <1>1, <1>11, <3>3 DEF Following
      <4> HIDE DEF places
      <4>4. places \subseteq DOMAIN servers' /\ {Source(servers'[i]) : i \in places} = member'[g]
        BY <1>1, <4>1, <4>2, <4>3
      <4> QED BY <1>1, <1>9, <1>11, <4>4 DEF ListsMembers, places
    <3> QED BY <3>2, <3>3
  <2> QED BY <1>9, <1>10, <2>1, <2>2 DEF MembersOf
<1>18. CopiesOf(u)'
  BY <1>10 DEF CopiesOf
<1>19. IsTask(w, u)'
  BY <1>9 DEF IsTask
<1> QED BY <1>2, <1>9, <1>13, <1>14, <1>15, <1>16, <1>17, <1>18, <1>19, Ends DEF Known

(* A group is rewritten.  With the last one the task is over.              *)
LEMMA PutGroupKeeps ==
  ASSUME InboundAssumption, IInv, NEW w \in DOMAIN job, NEW g \in Groups, PutGroup(w, g)
  PROVE  IInv'
<1> DEFINE t == job[w]
           places == NewRefs(g, t.gs[g], t.old, servers)
<1>1. /\ At(w, "groups") /\ g \in t.left
      /\ refs' = [refs EXCEPT ![g] = NewRefs(g, t.gs[g], t.old, NewServers(t.old, t.list))]
      /\ IF t.left = {g} THEN job' = [job EXCEPT ![w] = Idle]
         ELSE job' = [job EXCEPT ![w] = [t EXCEPT !.left = t.left \ {g}]]
      /\ up' = (up \/ (w = "boot" /\ t.left = {g}))
      /\ UNCHANGED <<inbounds, servers, tables, parted, member>>
  BY DEF PutGroup, Begin
<1>2. /\ w \in Actors /\ ListsTyped /\ job = [v \in Actors |-> job[v]]
      /\ \A v \in Actors \ {w} : job[v] = Idle
      /\ Known(w, t) /\ Ahead(t, "groups") /\ t.todo # <<>> /\ t.todo \in Plans(w) /\ Follows(w, t.todo)
  BY <1>1, Working
<1>3. Head(t.todo) = "groups" /\ w # "kernel"
  BY <1>2 DEF Ahead, Follows
<1>4. IsTask(w, t)
  BY <1>2 DEF Known
<1> HIDE DEF t
<1>5. /\ servers = NewServers(t.old, t.list) /\ inbounds = t.list /\ Shown(t.list) /\ Fits(inbounds)
      /\ \A x \in Groups :
           ListsMembers(x, IF x \in t.left THEN NewRefs(x, t.gs[x], t.old, servers) ELSE refs[x])
      /\ t.sock = NoPort
  BY <1>2, <1>3 DEF Known, MembersOf, PortsOf, NodesOf, TableOf, Pending, AtStarts, Ahead
<1>6. refs' = [refs EXCEPT ![g] = places]
  BY <1>1, <1>5
<1>7. ListsMembers(g, places)
  BY <1>1, <1>5
<1> HIDE DEF places
<1>8. ListsTyped'
  <2>1. places \in RefSets
    <3>1. DOMAIN servers \subseteq Nat \ {0}
      BY <1>2 DEF ListsTyped
    <3> QED BY <1>7, <3>1 DEF ListsMembers, RefSets
  <2>2. refs' \in [Groups -> RefSets] /\ up' \in BOOLEAN
    BY <1>1, <1>2, <1>6, <2>1 DEF ListsTyped
  <2> QED BY <1>1, <1>2, <2>2 DEF ListsTyped, tables, Distinct
<1>9. refs'[g] = places /\ \A x \in Groups \ {g} : refs'[x] = refs[x]
  BY <1>2, <1>6 DEF ListsTyped
<1>10. ASSUME NEW x \in Groups, NEW ps, ListsMembers(x, ps)
       PROVE  ListsMembers(x, ps)'
  BY <1>1, <1>10 DEF ListsMembers
<1>11. ASSUME t.left = {g} PROVE IInv'
  <2>1. job' = [job EXCEPT ![w] = Idle]
    BY <1>1, <1>11
  <2>2. IsTask(w, Idle)'
    BY IdleIsTask DEF IsTask
  <2>3. TableOf(w, Idle)'
    <3>1. TableOf(w, Idle)
      BY <1>2, <1>3, IdleTask DEF Known, TableOf, Pending, AtStarts, Ahead
    <3> QED BY <1>1, <3>1, Kept
  <2>4. PortsOf(w, Idle)'
    <3>1. Shown(inbounds)'
      BY <1>1, <1>5 DEF Shown, tables
    <3>2. up'
      BY <1>1, <1>2, <1>11 DEF Known, PortsOf
    <3> QED BY <3>1, <3>2, IdleTask DEF PortsOf
  <2>5. NodesOf(w, Idle)'
    <3>1. Fits(inbounds)'
      BY <1>1, <1>5 DEF Fits
    <3> QED BY <3>1 DEF NodesOf
  <2>6. MembersOf(Idle)'
    <3>1. ASSUME NEW x \in Groups PROVE ListsMembers(x, refs[x])'
      <4>1. ListsMembers(x, refs'[x])
        BY <1>5, <1>7, <1>9, <1>11
      <4> QED BY <1>1, <4>1 DEF ListsMembers
    <3> QED BY <3>1, IdleTask DEF MembersOf
  <2>7. CopiesOf(Idle)'
    BY IdleTask DEF CopiesOf
  <2> QED BY <1>2, <1>8, <2>1, <2>2, <2>3, <2>4, <2>5, <2>6, <2>7, Ends DEF Known
<1>12. ASSUME t.left # {g} PROVE IInv'
  <2> DEFINE n == [t EXCEPT !.left = t.left \ {g}]
  <2>1. job' = [job EXCEPT ![w] = n]
    BY <1>1, <1>12
  <2>2. /\ n = [todo |-> n.todo, list |-> n.list, gs |-> n.gs, old |-> n.old, left |-> n.left,
                dead |-> n.dead, sock |-> n.sock]
        /\ n.todo = t.todo /\ n.list = t.list /\ n.gs = t.gs /\ n.old = t.old /\ n.dead = t.dead
        /\ n.sock = t.sock /\ n.left = t.left \ {g}
    <3>1. t = [todo |-> t.todo, list |-> t.list, gs |-> t.gs, old |-> t.old, left |-> t.left,
               dead |-> t.dead, sock |-> t.sock]
      BY <1>4 DEF IsTask
    <3> QED BY <3>1
  <2> HIDE DEF n
  <2>3. IsTask(w, n)
    BY <1>1, <1>2, <1>3, <1>4, <1>12, <2>2 DEF IsTask, Ahead, AtStarts
  <2>4. PICK u : /\ job' = [job EXCEPT ![w] = u] /\ IsTask(w, u)
                 /\ u.todo = t.todo /\ u.list = t.list /\ u.gs = t.gs /\ u.old = t.old
                 /\ u.sock = NoPort /\ u.left = t.left \ {g}
    BY <1>5, <2>1, <2>2, <2>3
  <2>5. /\ \A l \in {"stop", "wait", "ensure", "one", "start", "read", "servers",
                     "part", "copied", "load"} : ~Ahead(u, l) /\ ~Ahead(t, l)
        /\ ~Pending(u) /\ ~Restarts(u) /\ ~Pending(t) /\ Ahead(u, "groups") /\ u.todo # <<>>
    BY <1>2, <1>3, <2>4 DEF Ahead, Pending, AtStarts, Restarts
  <2>6. TableOf(w, u)'
    <3>1. TableOf(w, u)
      BY <1>2, <2>4, <2>5 DEF Known, TableOf
    <3> QED BY <1>1, <3>1, Kept
  <2>7. PortsOf(w, u)'
    <3>1. up' = up
      BY <1>1, <1>2, <1>12 DEF ListsTyped
    <3>2. PortsOf(w, u)
      BY <1>2, <1>3, <1>5, <2>4, <2>5 DEF Known, PortsOf
    <3> QED BY <1>1, <3>1, <3>2, Kept
  <2>8. NodesOf(w, u)'
    <3>1. Fits(inbounds)'
      BY <1>1, <1>5 DEF Fits
    <3> QED BY <3>1 DEF NodesOf
  <2>9. MembersOf(u)'
    <3>1. ASSUME NEW x \in Groups
          PROVE  ListsMembers(x, IF x \in u.left THEN NewRefs(x, u.gs[x], u.old, servers) ELSE refs[x])'
      <4>1. CASE x \in u.left
        <5> DEFINE ps == NewRefs(x, t.gs[x], t.old, servers)
        <5>1. ListsMembers(x, ps)
          BY <1>5, <2>4, <4>1
        <5> HIDE DEF ps
        <5>2. ps \subseteq DOMAIN servers' /\ {Source(servers'[i]) : i \in ps} = member'[x]
          BY <1>1, <5>1 DEF ListsMembers
        <5> QED BY <1>1, <2>4, <4>1, <5>2 DEF ListsMembers, ps
      <4>2. CASE x \notin u.left
        <5>1. ListsMembers(x, refs'[x])
          BY <1>5, <1>7, <1>9, <2>4, <4>2
        <5>2. ListsMembers(x, refs[x])'
          BY <1>1, <5>1 DEF ListsMembers
        <5> QED BY <4>2, <5>2 DEF ListsMembers
      <4> QED BY <4>1, <4>2
    <3>2. servers' = NewServers(u.old, u.list)
      BY <1>1, <1>5, <2>4
    <3> QED BY <2>5, <3>1, <3>2 DEF MembersOf
  <2>10. CopiesOf(u)'
    BY <2>5 DEF CopiesOf
  <2>11. IsTask(w, u)'
    BY <2>4 DEF IsTask
  <2> QED BY <1>2, <1>8, <2>4, <2>6, <2>7, <2>8, <2>9, <2>10, <2>11, Ends DEF Known
<1> QED BY <1>11, <1>12

-----------------------------------------------------------------------------
(* A change of the inbounds begins with the new list: every sidecar that   *)
(* runs is of a kind that is stopped.                                      *)
LEMMA SetKeeps ==
  ASSUME InboundAssumption, Single, IInv, NEW h \in Handlers, NEW list \in Seq(Rows), Distinct(list),
         SetCustomInbounds(h, list)
  PROVE  IInv'
<1> DEFINE plan == <<"stop", "wait", "ensure", "store", "read", "servers", "groups">>
           all == inbounds \o list
           kinds == {K \in {Cfdo, CfGoodNet} : \E m \in DOMAIN all : all[m].id \in K}
           left == UNION kinds
           new == [Idle EXCEPT !.todo = plan, !.list = list, !.left = left]
<1>1. /\ up /\ job[h] = Idle /\ job["kernel"] = Idle
      /\ inbounds' = list /\ job' = [job EXCEPT ![h] = new]
      /\ UNCHANGED <<servers, refs, tables, up, parted, member>>
  BY DEF SetCustomInbounds, Begin
<1>2. Quiet /\ h \in Actors /\ h # "kernel" /\ h # "boot"
  BY <1>1, Serving DEF InboundAssumption
<1>3. /\ ListsTyped /\ Known(h, Idle) /\ job = [v \in Actors |-> job[v]]
      /\ \A v \in Actors \ {h} : job[v] = Idle
  BY <1>2, Resting
<1>4. left \subseteq Inbounds
  BY DEF Inbounds
<1>5. DOMAIN entries \subseteq left
  <2> SUFFICES ASSUME NEW i \in DOMAIN entries PROVE i \in left
    OBVIOUS
  <2>1. entries[i].port # NoPort /\ Shown(inbounds)
    BY <1>3, IdleTask DEF Known, TableOf, PortsOf
  <2>2. PICK m \in DOMAIN inbounds : inbounds[m] = [id |-> i, port |-> entries[i].port]
    BY <2>1 DEF Shown
  <2>3. inbounds \in Seq(Rows) /\ i \in Inbounds
    BY <1>3 DEF ListsTyped
  <2>4. m \in DOMAIN all /\ all[m] = inbounds[m]
    BY <2>3
  <2>5. all[m].id = i
    BY <2>2, <2>4
  <2> HIDE DEF all
  <2>6. PICK K \in {Cfdo, CfGoodNet} : i \in K
    BY <2>3 DEF Inbounds
  <2>7. K \in kinds
    BY <2>4, <2>5, <2>6
  <2> QED BY <2>6, <2>7
<1>6. plan \in Plans(h) /\ plan # <<>> /\ Head(plan) = "stop" /\ plan[3] = "ensure"
  BY <1>2 DEF Plans, Changing
<1> HIDE DEF left, plan
<1>7. /\ new = [todo |-> plan, list |-> list, gs |-> Idle.gs, old |-> Idle.old, left |-> left,
                dead |-> Idle.dead, sock |-> Idle.sock]
      /\ Idle.dead = FALSE /\ Idle.gs = <<>> /\ Idle.old = <<>> /\ Idle.sock = NoPort
  BY BeginFields
<1> HIDE DEF new
<1>8. /\ new.todo = plan /\ new.list = list /\ new.gs = <<>> /\ new.old = <<>> /\ new.left = left
      /\ new.dead = FALSE /\ new.sock = NoPort
      /\ new = [todo |-> new.todo, list |-> new.list, gs |-> new.gs, old |-> new.old,
                left |-> new.left, dead |-> new.dead, sock |-> new.sock]
  BY <1>7
<1>9. IsTask(h, new)
  BY <1>4, <1>6, <1>8 DEF IsTask, Ahead, AtStarts
<1>10. PICK u : /\ job' = [job EXCEPT ![h] = u] /\ IsTask(h, u)
                /\ u.todo = plan /\ u.list = list /\ u.left = left /\ u.sock = NoPort
  BY <1>1, <1>8, <1>9
<1>11. /\ \A l \in {"wait", "ensure", "one", "start", "read", "servers", "groups",
                    "part", "copied", "load"} : ~Ahead(u, l)
       /\ ~Pending(u) /\ ~Restarts(u) /\ Ahead(u, "stop") /\ u.todo[3] = "ensure" /\ u.todo # <<>>
  BY <1>6, <1>10 DEF Ahead, Pending, AtStarts, Restarts
<1>12. ListsTyped'
  BY <1>1, <1>3 DEF ListsTyped, tables, Distinct
<1>13. TableOf(h, u)'
  <2>1. TableOf(h, u)
    BY <1>3, <1>10, <1>11, IdleTask DEF Known, TableOf
  <2> QED BY <1>1, <2>1, Kept
<1>14. PortsOf(h, u)'
  <2>1. (DOMAIN entries)' \subseteq u.left
    BY <1>1, <1>5, <1>10 DEF tables
  <2> QED BY <1>1, <1>2, <1>11, <2>1 DEF PortsOf
<1>15. NodesOf(h, u)'
  BY <1>2, <1>11 DEF NodesOf
<1>16. MembersOf(u)' /\ CopiesOf(u)'
  <2>1. MembersOf(u) /\ CopiesOf(u)
    BY <1>3, <1>11, IdleTask DEF Known, MembersOf, CopiesOf
  <2> QED BY <1>1, <2>1, Kept
<1>17. IsTask(h, u)'
  BY <1>10 DEF IsTask
<1> QED BY <1>2, <1>3, <1>10, <1>12, <1>13, <1>14, <1>15, <1>16, <1>17, Ends DEF Known

-----------------------------------------------------------------------------
(* The lists change while nothing is under way.                            *)
LEMMA Edits ==
  ASSUME IInv, Quiet, UNCHANGED <<inbounds, tables, job, up, parted>>, servers' \in Seq(Nodes),
         refs' \in [Groups -> RefSets], member' = [g \in Groups |-> member'[g]], Fits(inbounds)',
         \A g \in Groups : ListsMembers(g, refs[g])'
  PROVE  IInv'
<1> DEFINE w == "boot"
<1>1. /\ ListsTyped /\ job = [v \in Actors |-> job[v]] /\ w \in Actors
      /\ Known(w, Idle) /\ \A v \in Actors : job[v] = Idle
  BY Resting DEF Actors
<1>2. job' = [job EXCEPT ![w] = Idle]
  BY <1>1
<1>3. ListsTyped'
  BY <1>1 DEF ListsTyped, tables, Distinct
<1>4. IsTask(w, Idle)'
  BY IdleIsTask DEF IsTask
<1>5. TableOf(w, Idle)' /\ PortsOf(w, Idle)'
  BY <1>1, Kept DEF Known
<1>6. NodesOf(w, Idle)'
  BY DEF NodesOf
<1>7. MembersOf(Idle)' /\ CopiesOf(Idle)'
  BY IdleTask DEF MembersOf, CopiesOf
<1> QED BY <1>1, <1>2, <1>3, <1>4, <1>5, <1>6, <1>7, Ends DEF Known

(* A user imports a node.                                                  *)
LEMMA ImportKeeps ==
  ASSUME InboundAssumption, IInv, NEW n \in Ordinary, Import(n)
  PROVE  IInv'
<1> DEFINE new == Node(n, NoPort)
           last == Len(servers) + 1
<1>1. /\ Quiet /\ servers' = Append(servers, new)
      /\ refs' = [refs EXCEPT !["SERVER"] = @ \union {last}]
      /\ member' = [member EXCEPT !["SERVER"] = @ \union {<<n>>}]
      /\ UNCHANGED <<inbounds, tables, job, up, parted>>
  BY DEF Import
<1>2. /\ ListsTyped /\ "boot" \in Actors /\ Known("boot", Idle)
  BY <1>1, Resting DEF Actors
<1>3. /\ servers \in Seq(Nodes) /\ refs \in [Groups -> RefSets] /\ member = [g \in Groups |-> member[g]]
  BY <1>2 DEF ListsTyped
<1>4. Fits(inbounds) /\ \A g \in Groups : ListsMembers(g, refs[g])
  BY <1>2, IdleTask DEF Known, NodesOf, MembersOf
<1>5. new \in Nodes /\ ~FromInbound(new) /\ Source(new) = <<n>>
  BY DEF Node, Nodes, FromInbound, Source, InboundAssumption, Inbounds
<1> HIDE DEF new
<1>6. /\ servers' \in Seq(Nodes) /\ DOMAIN servers' = DOMAIN servers \union {last}
      /\ last \in Nat \ {0} /\ last \notin DOMAIN servers /\ servers'[last] = new
      /\ \A k \in DOMAIN servers : servers'[k] = servers[k]
  BY <1>1, <1>3, <1>5
<1> HIDE DEF last
<1>7. "SERVER" \in Groups /\ "a" \in Groups /\ \A g \in Groups : g = "SERVER" \/ g = "a"
  BY DEF Groups
<1>8. /\ refs'["SERVER"] = refs["SERVER"] \union {last} /\ refs'["a"] = refs["a"]
      /\ member'["SERVER"] = member["SERVER"] \union {<<n>>} /\ member'["a"] = member["a"]
  BY <1>1, <1>3, <1>7
<1>9. refs' \in [Groups -> RefSets]
  BY <1>1, <1>3, <1>6, <1>7 DEF RefSets
<1>10. member' = [g \in Groups |-> member'[g]]
  BY <1>1, <1>3
<1>11. Fits(inbounds)'
  BY <1>1, <1>4, <1>5, <1>6 DEF Fits
<1>12. ListsMembers("SERVER", refs["SERVER"])'
  <2> DEFINE all == refs["SERVER"] \union {last}
  <2>1. refs["SERVER"] \subseteq DOMAIN servers /\ {Source(servers[k]) : k \in refs["SERVER"]} = member["SERVER"]
    BY <1>4, <1>7 DEF ListsMembers
  <2>2. all \subseteq DOMAIN servers'
    BY <1>6, <2>1
  <2>3. \A k \in refs["SERVER"] : servers'[k] = servers[k]
    BY <1>6, <2>1
  <2>4. {Source(servers'[k]) : k \in all} = member["SERVER"] \union {<<n>>}
    BY <1>5, <1>6, <2>1, <2>3
  <2> HIDE DEF all
  <2>5. all \subseteq DOMAIN servers' /\ {Source(servers'[k]) : k \in all} = member'["SERVER"]
    BY <1>8, <2>2, <2>4
  <2>6. refs'["SERVER"] = all
    BY <1>8 DEF all
  <2> QED BY <2>5, <2>6 DEF ListsMembers
<1>13. ListsMembers("a", refs["a"])'
  <2>1. refs["a"] \subseteq DOMAIN servers /\ {Source(servers[k]) : k \in refs["a"]} = member["a"]
    BY <1>4, <1>7 DEF ListsMembers
  <2>2. {Source(servers'[k]) : k \in refs["a"]} = {Source(servers[k]) : k \in refs["a"]}
    BY <1>6, <2>1
  <2> QED BY <1>6, <1>8, <2>1, <2>2 DEF ListsMembers
<1> QED BY <1>1, <1>6, <1>7, <1>9, <1>10, <1>11, <1>12, <1>13, Edits

(* A user lists a node in a group.                                         *)
LEMMA ListNodeKeeps ==
  ASSUME IInv, NEW i \in DOMAIN servers, ListNode(i)
  PROVE  IInv'
<1>1. /\ Quiet /\ refs' = [refs EXCEPT !["a"] = @ \union {i}]
      /\ member' = [member EXCEPT !["a"] = @ \union {Source(servers[i])}]
      /\ UNCHANGED <<inbounds, servers, tables, job, up, parted>>
  BY DEF ListNode
<1>2. /\ ListsTyped /\ "boot" \in Actors /\ Known("boot", Idle)
  BY <1>1, Resting DEF Actors
<1>3. /\ servers \in Seq(Nodes) /\ refs \in [Groups -> RefSets] /\ member = [g \in Groups |-> member[g]]
      /\ i \in Nat \ {0}
  BY <1>2 DEF ListsTyped
<1>4. Fits(inbounds) /\ \A g \in Groups : ListsMembers(g, refs[g])
  BY <1>2, IdleTask DEF Known, NodesOf, MembersOf
<1>5. "SERVER" \in Groups /\ "a" \in Groups /\ \A g \in Groups : g = "SERVER" \/ g = "a"
  BY DEF Groups
<1>6. /\ refs'["SERVER"] = refs["SERVER"] /\ refs'["a"] = refs["a"] \union {i}
      /\ member'["SERVER"] = member["SERVER"] /\ member'["a"] = member["a"] \union {Source(servers[i])}
  BY <1>1, <1>3, <1>5
<1>7. refs' \in [Groups -> RefSets]
  BY <1>1, <1>3, <1>5 DEF RefSets
<1>8. member' = [g \in Groups |-> member'[g]]
  BY <1>1, <1>3
<1>9. Fits(inbounds)'
  BY <1>1, <1>4 DEF Fits
<1>10. ListsMembers("SERVER", refs["SERVER"])'
  BY <1>1, <1>4, <1>5, <1>6 DEF ListsMembers
<1>11. ListsMembers("a", refs["a"])'
  <2>1. refs["a"] \subseteq DOMAIN servers /\ {Source(servers[k]) : k \in refs["a"]} = member["a"]
    BY <1>4, <1>5 DEF ListsMembers
  <2> DEFINE all == refs["a"] \union {i}
  <2>2. all \subseteq DOMAIN servers /\ {Source(servers[k]) : k \in all} = member["a"] \union {Source(servers[i])}
    BY <2>1
  <2> HIDE DEF all
  <2>3. all \subseteq DOMAIN servers' /\ {Source(servers'[k]) : k \in all} = member'["a"]
    BY <1>1, <1>6, <2>2
  <2>4. refs'["a"] = all
    BY <1>6 DEF all
  <2> QED BY <2>3, <2>4 DEF ListsMembers
<1> QED BY <1>1, <1>3, <1>5, <1>7, <1>8, <1>9, <1>10, <1>11, Edits

(* The process dies: no sidecar is left, and the boot has the turn.        *)
LEMMA CrashKeeps ==
  ASSUME IInv, Crash
  PROVE  IInv'
<1> DEFINE plan == IF parted THEN <<"load">> ELSE <<"part", "load">>
           new == [Idle EXCEPT !.todo = plan]
           w == "boot"
<1>1. /\ entries' = <<>> /\ socks' = {} /\ up' = FALSE
      /\ job' = [h \in DOMAIN job |-> IF h = "boot" THEN new ELSE Idle]
      /\ UNCHANGED lists /\ \A h \in DOMAIN job : ~At(h, "groups")
  BY DEF Crash
<1>2. ListsTyped /\ job = [v \in Actors |-> job[v]] /\ w \in Actors
  BY DEF IInv, Typed, Actors
<1>3. \A g \in Groups : ListsMembers(g, refs[g])
  <2>1. PICK v \in Actors : Known(v, job[v])
    BY DEF IInv, Turn
  <2>2. ~Ahead(job[v], "groups")
    BY <1>1, <1>2 DEF At, Ahead
  <2> QED BY <2>1, <2>2 DEF Known, MembersOf
<1>4. plan \in Plans(w) /\ plan # <<>> /\ Head(plan) \in {"part", "load"}
  BY DEF Plans, Booting
<1> HIDE DEF plan
<1>5. /\ new = [todo |-> plan, list |-> Idle.list, gs |-> Idle.gs, old |-> Idle.old, left |-> Idle.left,
                dead |-> Idle.dead, sock |-> Idle.sock]
      /\ Idle.dead = FALSE /\ Idle.list = <<>> /\ Idle.gs = <<>> /\ Idle.old = <<>> /\ Idle.left = {}
      /\ Idle.sock = NoPort
  BY BeginFields
<1> HIDE DEF new
<1>6. /\ new.todo = plan /\ new.list = <<>> /\ new.gs = <<>> /\ new.old = <<>> /\ new.left = {}
      /\ new.dead = FALSE /\ new.sock = NoPort
      /\ new = [todo |-> new.todo, list |-> new.list, gs |-> new.gs, old |-> new.old,
                left |-> new.left, dead |-> new.dead, sock |-> new.sock]
  BY <1>5
<1>7. PICK u : /\ job' = [h \in Actors |-> IF h = "boot" THEN u ELSE Idle]
               /\ u.todo \in Plans(w) /\ u.todo # <<>> /\ Head(u.todo) \in {"part", "load"}
               /\ u.list = <<>> /\ u.gs = <<>> /\ u.old = <<>> /\ u.left = {}
               /\ u.dead = FALSE /\ u.sock = NoPort
               /\ u = [todo |-> u.todo, list |-> u.list, gs |-> u.gs, old |-> u.old,
                       left |-> u.left, dead |-> u.dead, sock |-> u.sock]
  BY <1>1, <1>2, <1>4, <1>6
<1>8. /\ \A l \in {"stop", "wait", "ensure", "one", "start", "read", "servers", "groups",
                   "copied"} : ~Ahead(u, l)
      /\ ~Pending(u) /\ ~Restarts(u) /\ ~AtStarts(u)
  BY <1>7 DEF Ahead, Pending, AtStarts, Restarts
<1>9. DOMAIN entries' = {} /\ entries' = [i \in DOMAIN entries' |-> entries'[i]]
  BY <1>1
<1>10. ListsTyped'
  BY <1>1, <1>2, <1>9 DEF ListsTyped, lists, Distinct
<1>11. IsTask(w, u)
  BY <1>7, <1>8 DEF IsTask, Distinct
<1>12. TableOf(w, u)'
  BY <1>1, <1>7, <1>8, <1>9 DEF TableOf
<1>13. PortsOf(w, u)'
  BY <1>1, <1>7, <1>8, <1>9 DEF PortsOf, Shown
<1>14. NodesOf(w, u)'
  BY <1>7, <1>8 DEF NodesOf
<1>15. MembersOf(u)' /\ CopiesOf(u)'
  <2>1. MembersOf(u) /\ CopiesOf(u)
    BY <1>3, <1>7, <1>8 DEF MembersOf, CopiesOf
  <2> QED BY <1>1, <2>1, Kept DEF lists
<1>16. IsTask(w, u)'
  BY <1>11 DEF IsTask
<1>17. /\ job' = [v \in Actors |-> job'[v]] /\ job'[w] = u /\ \A v \in Actors \ {w} : job'[v] = Idle
  BY <1>2, <1>7
<1>18. Known(w, job[w])'
  BY <1>12, <1>13, <1>14, <1>15, <1>16, <1>17
     DEF Known, IsTask, TableOf, PortsOf, NodesOf, MembersOf, CopiesOf, Shown, Fits, ListsMembers
<1> QED BY <1>2, <1>10, <1>17, <1>18 DEF IInv, Typed, Turn, Actors

-----------------------------------------------------------------------------
(* The copies made at boot.                                                *)
LEMMA CopyFields ==
  ASSUME NEW t, t = [todo |-> t.todo, list |-> t.list, gs |-> t.gs, old |-> t.old, left |-> t.left,
                     dead |-> t.dead, sock |-> t.sock], NEW x, NEW y, NEW z
  PROVE  [t EXCEPT !.left = x, !.todo = y, !.gs = z] =
           [todo |-> y, list |-> t.list, gs |-> z, old |-> t.old, left |-> x,
            dead |-> t.dead, sock |-> t.sock]
<1> DEFINE k == [t EXCEPT !.left = x]
           n == [k EXCEPT !.todo = y]
<1>1. k = [todo |-> t.todo, list |-> t.list, gs |-> t.gs, old |-> t.old, left |-> x,
           dead |-> t.dead, sock |-> t.sock]
  OBVIOUS
<1> HIDE DEF k
<1>2. n = [todo |-> y, list |-> t.list, gs |-> t.gs, old |-> t.old, left |-> x,
           dead |-> t.dead, sock |-> t.sock]
  BY <1>1
<1> HIDE DEF n
<1>3. [n EXCEPT !.gs = z] = [todo |-> y, list |-> t.list, gs |-> z, old |-> t.old, left |-> x,
                            dead |-> t.dead, sock |-> t.sock]
  BY <1>2
<1>4. [n EXCEPT !.gs = z] = [t EXCEPT !.left = x, !.todo = y, !.gs = z]
  BY Zenon DEF k, n
<1> QED BY <1>3, <1>4

(* A shared node is copied to the end, for the group that lists it second. *)
LEMMA AppendCopyKeeps ==
  ASSUME InboundAssumption, IInv, NEW i \in job["boot"].left, AppendCopy(i)
  PROVE  IInv'
<1> DEFINE w == "boot"
           t == job[w]
           last == Len(servers) + 1
           mine == (t.gs["a"] \ {i}) \union {last}
           gs == [t.gs EXCEPT !["a"] = mine]
           plan == <<"copied", "part", "load">>
           new == [t EXCEPT !.left = t.left \ {i}, !.todo = plan, !.gs = gs]
<1>1. /\ At("boot", "part") /\ i \in t.left /\ servers' = Append(servers, servers[i])
      /\ job' = [job EXCEPT !["boot"] = new]
      /\ UNCHANGED <<inbounds, refs, tables, up, parted, member>>
  BY DEF AppendCopy, Begin
<1>2. "boot" \in DOMAIN job
  BY DEF IInv, Typed, Actors
<1>3. /\ w \in Actors /\ ListsTyped /\ job = [v \in Actors |-> job[v]]
      /\ \A v \in Actors \ {w} : job[v] = Idle
      /\ Known(w, t) /\ Ahead(t, "part") /\ t.todo # <<>>
  BY <1>1, <1>2, Working
<1>4. /\ t = [todo |-> t.todo, list |-> t.list, gs |-> t.gs, old |-> t.old, left |-> t.left,
              dead |-> t.dead, sock |-> t.sock]
      /\ t.dead = FALSE /\ t.list \in Seq(Rows) /\ Distinct(t.list)
      /\ t.sock \in Ports \union {NoPort} /\ t.old \in Seq(Nodes)
  BY <1>3 DEF Known, IsTask
<1>5. servers \in Seq(Nodes) /\ refs \in [Groups -> RefSets]
  BY <1>3 DEF ListsTyped
<1>6. /\ t.gs # <<>> /\ t.gs = refs
      /\ t.left = refs["SERVER"] \intersect refs["a"] \intersect DOMAIN servers
  BY <1>1, <1>3 DEF Known, CopiesOf
<1>7. "SERVER" \in Groups /\ "a" \in Groups /\ "SERVER" # "a" /\ \A g \in Groups : g = "SERVER" \/ g = "a"
  BY DEF Groups
<1>8. \A g \in Groups : refs[g] \subseteq DOMAIN servers /\ {Source(servers[k]) : k \in refs[g]} = member[g]
  <2>1. ~Ahead(t, "groups")
    BY <1>3 DEF Ahead
  <2> QED BY <1>3, <2>1 DEF Known, MembersOf, ListsMembers
<1> HIDE DEF t
<1>9. /\ servers' \in Seq(Nodes) /\ DOMAIN servers' = DOMAIN servers \union {last}
      /\ last \in Nat \ {0} /\ last \notin DOMAIN servers /\ servers'[last] = servers[i]
      /\ \A k \in DOMAIN servers : servers'[k] = servers[k]
  <2>1. servers[i] \in Nodes
    BY <1>1, <1>5, <1>6
  <2> QED BY <1>1, <1>5, <2>1
<1> HIDE DEF last
<1>10. mine \in RefSets
  BY <1>5, <1>6, <1>7, <1>9 DEF RefSets
<1> HIDE DEF mine
<1>11. /\ gs \in [Groups -> RefSets] /\ gs["a"] = mine /\ gs["SERVER"] = refs["SERVER"] /\ gs # <<>>
  <2>1. gs \in [Groups -> RefSets] /\ gs["a"] = mine /\ gs["SERVER"] = refs["SERVER"]
    BY <1>5, <1>6, <1>7, <1>10
  <2> HIDE DEF gs
  <2> QED BY <2>1, GroupsAreSome
<1> HIDE DEF gs
<1>12. plan \in Plans(w) /\ plan # <<>> /\ Head(plan) = "copied"
  BY DEF Plans, Booting
<1> HIDE DEF plan
<1>13. new = [todo |-> plan, list |-> t.list, gs |-> gs, old |-> t.old, left |-> t.left \ {i},
              dead |-> t.dead, sock |-> t.sock]
  <2>1. \A x, y, z : [t EXCEPT !.left = x, !.todo = y, !.gs = z] =
          [todo |-> y, list |-> t.list, gs |-> z, old |-> t.old, left |-> x,
           dead |-> t.dead, sock |-> t.sock]
    BY <1>4, CopyFields
  <2> QED BY <2>1
<1> HIDE DEF new
<1>14. /\ new.todo = plan /\ new.list = t.list /\ new.gs = gs /\ new.old = t.old
       /\ new.left = t.left \ {i} /\ new.dead = FALSE /\ new.sock = t.sock
       /\ new = [todo |-> new.todo, list |-> new.list, gs |-> new.gs, old |-> new.old,
                 left |-> new.left, dead |-> new.dead, sock |-> new.sock]
  BY <1>4, <1>13
<1>15. \A l \in {"stop", "wait", "ensure", "one", "start", "read", "servers", "groups",
                 "part", "load"} : ~Ahead(new, l)
  BY <1>12, <1>14 DEF Ahead
<1>16. IsTask(w, new)
  BY <1>4, <1>11, <1>12, <1>14, <1>15 DEF IsTask, AtStarts
<1>17. PICK u : /\ job' = [job EXCEPT ![w] = u] /\ IsTask(w, u)
                /\ u.todo = plan /\ u.list = t.list /\ u.gs = gs /\ u.left = t.left \ {i}
                /\ u.sock = t.sock
  BY <1>1, <1>14, <1>16
<1>18. /\ \A l \in {"stop", "wait", "ensure", "one", "start", "read", "servers", "groups",
                    "part", "load"} : ~Ahead(u, l)
       /\ \A l \in {"stop", "wait", "ensure", "one", "start", "read", "servers", "groups"} : ~Ahead(t, l)
       /\ ~Pending(t) /\ ~Restarts(u) /\ ~Pending(u) /\ Ahead(u, "copied") /\ u.todo # <<>>
  BY <1>3, <1>12, <1>17 DEF Ahead, Pending, AtStarts, Restarts
<1>19. ListsTyped'
  BY <1>1, <1>3, <1>9 DEF ListsTyped, tables, Distinct
<1>20. TableOf(w, u)'
  <2>1. TableOf(w, u)
    BY <1>3, <1>17, <1>18 DEF Known, TableOf
  <2> QED BY <1>1, <2>1, Kept
<1>21. PortsOf(w, u)'
  <2>1. PortsOf(w, u)
    BY <1>3, <1>17, <1>18 DEF Known, PortsOf
  <2> QED BY <1>1, <2>1, Kept
<1>22. NodesOf(w, u)'
  BY <1>18 DEF NodesOf
<1>23. MembersOf(u)'
  <2>1. ASSUME NEW g \in Groups PROVE ListsMembers(g, refs[g])'
    <3>1. \A k \in refs[g] : servers'[k] = servers[k]
      BY <1>8, <1>9
    <3>2. refs[g] \subseteq DOMAIN servers' /\ {Source(servers'[k]) : k \in refs[g]} = member[g]
      BY <1>8, <1>9, <3>1
    <3> QED BY <1>1, <3>2 DEF ListsMembers
  <2> QED BY <1>18, <2>1 DEF MembersOf
<1>24. ListsMembers("a", u.gs["a"])'
  <2>1. \A k \in refs["a"] : servers'[k] = servers[k]
    BY <1>7, <1>8, <1>9
  <2>2. mine \subseteq DOMAIN servers' /\ {Source(servers'[k]) : k \in mine} = {Source(servers[k]) : k \in refs["a"]}
    <3>1. mine = (refs["a"] \ {i}) \union {last} /\ i \in refs["a"]
      BY <1>1, <1>6 DEF mine
    <3>2. mine \subseteq DOMAIN servers'
      BY <1>7, <1>8, <1>9, <3>1
    <3>3. \A k \in mine : (k \in refs["a"] /\ servers'[k] = servers[k]) \/ servers'[k] = servers[i]
      BY <1>9, <2>1, <3>1
    <3>4. \A k \in refs["a"] :
            (k \in mine /\ servers'[k] = servers[k]) \/ (k = i /\ last \in mine /\ servers'[last] = servers[i])
      BY <1>9, <2>1, <3>1
    <3> QED BY <3>1, <3>2, <3>3, <3>4
  <2>3. mine \subseteq DOMAIN servers' /\ {Source(servers'[k]) : k \in mine} = member'["a"]
    BY <1>1, <1>7, <1>8, <2>2
  <2> QED BY <1>11, <1>17, <2>3 DEF ListsMembers
<1>25. CopiesOf(u)'
  <2>1. u.left = u.gs["SERVER"] \intersect u.gs["a"] \intersect DOMAIN servers'
    <3>1. mine = (refs["a"] \ {i}) \union {last} /\ last \notin refs["SERVER"]
      BY <1>6, <1>7, <1>8, <1>9 DEF mine
    <3>2. refs["SERVER"] \intersect mine \intersect DOMAIN servers' = t.left \ {i}
      BY <1>6, <1>9, <3>1
    <3> QED BY <1>11, <1>17, <3>2
  <2>2. u.gs # <<>> /\ u.gs["SERVER"] = refs'["SERVER"]
    BY <1>1, <1>11, <1>17
  <2> QED BY <1>18, <1>24, <2>1, <2>2 DEF CopiesOf
<1>26. IsTask(w, u)'
  BY <1>17 DEF IsTask
<1> QED BY <1>3, <1>17, <1>19, <1>20, <1>21, <1>22, <1>23, <1>25, <1>26, Ends DEF Known

(* ... and put in that group.                                              *)
LEMMA CopyPutKeeps ==
  ASSUME InboundAssumption, IInv, PutCopy
  PROVE  IInv'
<1> DEFINE w == "boot"
           t == job[w]
<1>1. /\ At("boot", "copied") /\ refs' = [refs EXCEPT !["a"] = t.gs["a"]] /\ Done("boot", t)
      /\ UNCHANGED <<inbounds, servers, tables, up, parted, member>>
  BY DEF PutCopy
<1>2. "boot" \in DOMAIN job
  BY DEF IInv, Typed, Actors
<1>3. /\ w \in Actors /\ ListsTyped /\ job = [v \in Actors |-> job[v]]
      /\ \A v \in Actors \ {w} : job[v] = Idle
      /\ Known(w, t) /\ Ahead(t, "copied") /\ t.todo # <<>> /\ Follows(w, t.todo)
  BY <1>1, <1>2, Working
<1>4. IsTask(w, t)
  BY <1>3 DEF Known
<1>5. /\ t.gs # <<>> /\ t.gs["SERVER"] = refs["SERVER"] /\ ListsMembers("a", t.gs["a"])
      /\ t.left = t.gs["SERVER"] \intersect t.gs["a"] \intersect DOMAIN servers
  BY <1>3 DEF Known, CopiesOf
<1>6. "SERVER" \in Groups /\ "a" \in Groups /\ "SERVER" # "a" /\ \A g \in Groups : g = "SERVER" \/ g = "a"
  BY DEF Groups
<1>7. refs \in [Groups -> RefSets] /\ t.gs \in [Groups -> RefSets]
  BY <1>3, <1>4, <1>5 DEF ListsTyped, IsTask
<1>8. /\ Head(t.todo) = "copied" /\ Tail(t.todo) = <<"part", "load">> /\ Len(t.todo) # 1
      /\ Head(Tail(t.todo)) = "part"
  <2>1. Head(t.todo) = "copied" /\ Tail(t.todo) = <<"part", "load">> /\ Len(t.todo) # 1
    BY <1>3 DEF Ahead, Follows
  <2>2. \A s : s = <<"part", "load">> => Head(s) = "part"
    OBVIOUS
  <2> QED BY <2>1, <2>2, Zenon
<1> HIDE DEF t
<1>9. refs' = t.gs
  <2>1. refs' \in [Groups -> RefSets]
    BY <1>1, <1>6, <1>7
  <2>2. \A g \in Groups : refs'[g] = t.gs[g]
    BY <1>1, <1>5, <1>6, <1>7
  <2> QED BY <1>7, <2>1, <2>2
<1>10. Ready(w, t)
  BY <1>3, <1>4, <1>8 DEF Ready, IsTask
<1>11. job' = [job EXCEPT ![w] = Rest(t)]
  BY <1>1, <1>8, Proceeds
<1>12. PICK u : /\ job' = [job EXCEPT ![w] = u]
                /\ IsTask(w, u) /\ u.todo = <<"part", "load">> /\ u.todo # <<>>
                /\ u.list = t.list /\ u.gs = t.gs /\ u.sock = t.sock /\ u.left = t.left
  BY <1>8, <1>10, <1>11, Resumed
<1>13. /\ \A l \in {"stop", "wait", "ensure", "one", "start", "read", "servers", "groups",
                    "copied", "load"} : ~Ahead(u, l)
       /\ \A l \in {"stop", "wait", "ensure", "one", "start", "read", "servers", "groups"} : ~Ahead(t, l)
       /\ ~Pending(t) /\ ~Restarts(u) /\ ~Pending(u)
  BY <1>8, <1>12 DEF Ahead, Pending, AtStarts, Restarts
<1>14. ListsTyped'
  BY <1>1, <1>3, <1>7, <1>9 DEF ListsTyped, tables, Distinct
<1>15. TableOf(w, u)'
  <2>1. TableOf(w, u)
    BY <1>3, <1>12, <1>13 DEF Known, TableOf
  <2> QED BY <1>1, <2>1, Kept
<1>16. PortsOf(w, u)'
  <2>1. PortsOf(w, u)
    BY <1>3, <1>12, <1>13 DEF Known, PortsOf
  <2> QED BY <1>1, <2>1, Kept
<1>17. NodesOf(w, u)'
  BY <1>12, <1>13 DEF NodesOf
<1>18. MembersOf(u)'
  <2>1. ASSUME NEW g \in Groups PROVE ListsMembers(g, refs[g])'
    <3>1. ListsMembers(g, t.gs[g])
      BY <1>3, <1>5, <1>6, <1>13 DEF Known, MembersOf
    <3> QED BY <1>1, <1>9, <3>1 DEF ListsMembers
  <2> QED BY <1>13, <2>1 DEF MembersOf
<1>19. CopiesOf(u)'
  BY <1>1, <1>5, <1>9, <1>12, <1>13 DEF CopiesOf
<1>20. IsTask(w, u)'
  BY <1>12 DEF IsTask
<1> QED BY <1>3, <1>12, <1>14, <1>15, <1>16, <1>17, <1>18, <1>19, <1>20, Ends DEF Known

(* The migration is over.                                                  *)
LEMMA PartedKeeps ==
  ASSUME IInv, Parted
  PROVE  IInv'
<1> DEFINE w == "boot"
           t == job[w]
           k == [t EXCEPT !.gs = <<>>]
<1>1. /\ At("boot", "part") /\ parted' = TRUE /\ Done("boot", k)
      /\ UNCHANGED <<inbounds, servers, refs, tables, up, member>>
  BY DEF Parted
<1>2. "boot" \in DOMAIN job
  BY DEF IInv, Typed, Actors
<1>3. /\ w \in Actors /\ ListsTyped /\ job = [v \in Actors |-> job[v]]
      /\ \A v \in Actors \ {w} : job[v] = Idle
      /\ Known(w, t) /\ Ahead(t, "part") /\ t.todo # <<>> /\ Follows(w, t.todo)
  BY <1>1, <1>2, Working
<1>4. IsTask(w, t)
  BY <1>3 DEF Known
<1>5. /\ Head(t.todo) = "part" /\ Tail(t.todo) = <<"load">> /\ Len(t.todo) # 1
      /\ Head(Tail(t.todo)) = "load"
  BY <1>3 DEF Ahead, Follows
<1> HIDE DEF t
<1>6. /\ k = [todo |-> k.todo, list |-> k.list, gs |-> k.gs, old |-> k.old, left |-> k.left,
              dead |-> k.dead, sock |-> k.sock]
      /\ k.todo = t.todo /\ k.list = t.list /\ k.gs = <<>> /\ k.old = t.old /\ k.dead = t.dead
      /\ k.sock = t.sock /\ k.left = t.left
  BY <1>4 DEF IsTask
<1> HIDE DEF k
<1>7. Ready(w, k)
  BY <1>3, <1>4, <1>5, <1>6 DEF Ready, IsTask
<1>8. job' = [job EXCEPT ![w] = Rest(k)]
  BY <1>1, <1>5, <1>6, Proceeds
<1>9. PICK u : /\ job' = [job EXCEPT ![w] = u]
               /\ IsTask(w, u) /\ u.todo = <<"load">> /\ u.todo # <<>>
               /\ u.list = t.list /\ u.sock = t.sock
  <2>1. /\ IsTask(w, Rest(k)) /\ Rest(k).todo = Tail(k.todo) /\ Rest(k).todo # <<>>
        /\ Rest(k).list = k.list /\ Rest(k).sock = k.sock
    BY <1>7, Resumed
  <2> QED BY <1>5, <1>6, <1>8, <2>1
<1>10. /\ \A l \in {"stop", "wait", "ensure", "one", "start", "read", "servers", "groups",
                    "part", "copied"} : ~Ahead(u, l)
       /\ \A l \in {"stop", "wait", "ensure", "one", "start", "read", "servers", "groups"} : ~Ahead(t, l)
       /\ ~Pending(t) /\ ~Restarts(u) /\ ~Pending(u)
  BY <1>5, <1>9 DEF Ahead, Pending, AtStarts, Restarts
<1>11. ListsTyped'
  BY <1>1, <1>3 DEF ListsTyped, tables, Distinct
<1>12. TableOf(w, u)'
  <2>1. TableOf(w, u)
    BY <1>3, <1>9, <1>10 DEF Known, TableOf
  <2> QED BY <1>1, <2>1, Kept
<1>13. PortsOf(w, u)'
  <2>1. PortsOf(w, u)
    BY <1>3, <1>9, <1>10 DEF Known, PortsOf
  <2> QED BY <1>1, <2>1, Kept
<1>14. NodesOf(w, u)'
  BY <1>9, <1>10 DEF NodesOf
<1>15. MembersOf(u)' /\ CopiesOf(u)'
  <2>1. MembersOf(u) /\ CopiesOf(u)
    BY <1>3, <1>10 DEF Known, MembersOf, CopiesOf
  <2> QED BY <1>1, <2>1, Kept
<1>16. IsTask(w, u)'
  BY <1>9 DEF IsTask
<1> QED BY <1>3, <1>9, <1>11, <1>12, <1>13, <1>14, <1>15, <1>16, Ends DEF Known

-----------------------------------------------------------------------------
(* The sidecars.                                                           *)

(* A cancelled one closes its socket; its entry is gone already.           *)
LEMMA CloseSocketKeeps ==
  ASSUME IInv, NEW s \in socks, CloseSocket(s)
  PROVE  IInv'
<1>1. s.closing /\ socks' = socks \ {s} /\ UNCHANGED <<lists, job, up>>
  BY DEF CloseSocket
<1>2. PICK w \in Actors : Turn(w)
  BY DEF IInv
<1> DEFINE t == job[w]
<1>3. /\ ListsTyped /\ job = [v \in Actors |-> job[v]]
      /\ \A v \in Actors \ {w} : job[v] = Idle
      /\ Known(w, t)
  BY <1>2 DEF IInv, Typed, Turn
<1>4. job' = [job EXCEPT ![w] = t]
  BY <1>1, <1>3
<1> HIDE DEF t
<1>5. entries' = entries
  <2>1. s.id \notin DOMAIN entries /\ entries = [i \in DOMAIN entries |-> entries[i]]
    BY <1>1, <1>3 DEF Known, TableOf, ListsTyped
  <2> QED BY <2>1 DEF CloseSocket, Restrict
<1>6. PICK u : job' = [job EXCEPT ![w] = u] /\ Known(w, u)
  BY <1>3, <1>4
<1>7. ListsTyped'
  BY <1>1, <1>3, <1>5 DEF ListsTyped, lists, Distinct
<1>8. TableOf(w, u)'
  <2>1. TableOf(w, u)
    BY <1>6 DEF Known
  <2>2. \A i \in Inbounds : \A p : Open(i, p) \in socks => Open(i, p) \in socks'
    BY <1>1 DEF Open
  <2>3. DOMAIN entries \subseteq Inbounds
    BY <1>3 DEF ListsTyped
  <2>4. /\ \A r \in socks', q \in socks' : r.port = q.port => r = q
        /\ \A q \in socks' : q.closing => Ahead(u, "wait") /\ q.id \in u.left /\ q.id \notin DOMAIN entries
        /\ \A q \in socks' : ~q.closing =>
             /\ q.id \in DOMAIN entries
             /\ entries[q.id].port = q.port \/ (entries[q.id].port = NoPort /\ u.sock = q.port)
    BY <1>1, <2>1 DEF TableOf
  <2>5. \A i \in DOMAIN entries :
          IF entries[i].port = NoPort THEN Pending(u) /\ i = IdOf(u) /\ entries[i].by = w
          ELSE Open(i, entries[i].port) \in socks'
    BY <2>1, <2>2, <2>3 DEF TableOf
  <2>6. u.sock # NoPort =>
          /\ Pending(u) /\ IdOf(u) \in DOMAIN entries /\ u.list[FirstOf(u)].port \in {NoPort, u.sock}
          /\ entries[IdOf(u)] = [port |-> NoPort, by |-> w] /\ Open(IdOf(u), u.sock) \in socks'
    BY <2>1, <2>2, <2>3 DEF TableOf
  <2> QED BY <1>5, <2>4, <2>5, <2>6 DEF TableOf
<1>9. PortsOf(w, u)'
  BY <1>1, <1>5, <1>6 DEF Known, PortsOf, Shown, lists
<1>10. NodesOf(w, u)' /\ MembersOf(u)' /\ CopiesOf(u)'
  BY <1>1, <1>6, Kept DEF Known, lists
<1>11. IsTask(w, u)'
  BY <1>6 DEF Known, IsTask
<1> QED BY <1>3, <1>6, <1>7, <1>8, <1>9, <1>10, <1>11, Ends DEF Known

(* Stop: what is left to stop leaves the table, its sockets are closing.   *)
LEMMA StopKeeps ==
  ASSUME IInv, NEW w \in DOMAIN job, Stop(w)
  PROVE  IInv'
<1> DEFINE t == job[w]
           gone == t.left \intersect DOMAIN entries
           new == [t EXCEPT !.todo = Tail(t.todo)]
           shut(s) == s.id \in gone /\ entries[s.id].port = s.port
<1>1. /\ At(w, "stop")
      /\ entries' = Restrict(entries, DOMAIN entries \ gone)
      /\ socks' = {IF shut(s) THEN [s EXCEPT !.closing = TRUE] ELSE s : s \in socks}
      /\ job' = [g \in DOMAIN job |->
           IF g = w THEN new
           ELSE IF \E i \in gone : entries[i] = [port |-> NoPort, by |-> g]
                THEN [job[g] EXCEPT !.dead = TRUE] ELSE job[g]]
      /\ UNCHANGED <<lists, up>>
  BY Zenon DEF Stop
<1>2. /\ w \in Actors /\ ListsTyped /\ job = [v \in Actors |-> job[v]]
      /\ \A v \in Actors \ {w} : job[v] = Idle
      /\ Known(w, t) /\ Ahead(t, "stop") /\ t.todo # <<>> /\ Follows(w, t.todo)
  BY <1>1, Working
<1>3. /\ Head(t.todo) = "stop" /\ Len(t.todo) # 1 /\ Head(Tail(t.todo)) = "wait"
      /\ Tail(t.todo)[2] = t.todo[3] /\ w # "boot"
      /\ t.todo[3] \in {"ensure", "one", "start"} /\ (t.todo[3] = "start" <=> w = "kernel")
  BY <1>2 DEF Ahead, Follows
<1>4. IsTask(w, t)
  BY <1>2 DEF Known
<1> HIDE DEF t
<1>5. ~Pending(t) /\ t.sock = NoPort /\ \A i \in DOMAIN entries : entries[i].port # NoPort
  BY <1>2, <1>3 DEF Pending, AtStarts, Ahead, Known, TableOf
<1>6. job' = [job EXCEPT ![w] = new]
  <2>1. \A i \in gone : \A g : entries[i] # [port |-> NoPort, by |-> g]
    BY <1>5
  <2> HIDE DEF gone, new
  <2>2. job' = [g \in DOMAIN job |-> IF g = w THEN new ELSE job[g]]
    BY <1>1, <2>1
  <2> QED BY <1>2, <2>2
<1>7. Ready(w, t)
  BY <1>2, <1>3, <1>4 DEF Ready, IsTask, Ahead
<1>8. PICK u : /\ job' = [job EXCEPT ![w] = u]
               /\ IsTask(w, u) /\ u.todo = Tail(t.todo) /\ u.todo # <<>>
               /\ u.list = t.list /\ u.gs = t.gs /\ u.sock = NoPort /\ u.left = t.left
  <2>1. new = Rest(t)
    BY DEF Rest
  <2>2. /\ IsTask(w, Rest(t)) /\ Rest(t).todo = Tail(t.todo) /\ Rest(t).todo # <<>>
        /\ Rest(t).list = t.list /\ Rest(t).gs = t.gs /\ Rest(t).left = t.left /\ Rest(t).sock = t.sock
    BY <1>7, Resumed
  <2> QED BY <1>5, <1>6, <2>1, <2>2
<1>9. /\ \A l \in {"stop", "ensure", "one", "start", "read", "servers", "groups",
                   "part", "copied", "load"} : ~Ahead(u, l)
      /\ \A l \in {"wait", "ensure", "one", "start", "read", "servers", "groups",
                   "part", "copied", "load"} : ~Ahead(t, l)
      /\ ~Pending(u) /\ (Restarts(u) <=> Restarts(t)) /\ Ahead(u, "wait")
  <2>1. Head(u.todo) = "wait" /\ u.todo[2] = t.todo[3]
    BY <1>3, <1>8
  <2>2. /\ \A l : Ahead(u, l) <=> l = "wait"
        /\ \A l : Ahead(t, l) <=> l = "stop"
    BY <1>2, <1>3, <1>8, <2>1 DEF Ahead
  <2> QED BY <2>1, <2>2 DEF Pending, AtStarts, Restarts
<1>10. /\ DOMAIN entries' = DOMAIN entries \ t.left
       /\ \A i \in DOMAIN entries' : entries'[i] = entries[i]
       /\ entries' = [i \in DOMAIN entries' |-> entries'[i]]
  BY <1>1 DEF Restrict
<1>11. \A s \in socks : [s EXCEPT !.closing = TRUE] =
         [id |-> s.id, port |-> s.port, closing |-> TRUE]
  <2>1. \A s \in socks : s = [id |-> s.id, port |-> s.port, closing |-> s.closing]
    BY <1>2 DEF ListsTyped
  <2>2. ASSUME NEW s, NEW x, s = [id |-> s.id, port |-> s.port, closing |-> s.closing]
        PROVE  [s EXCEPT !.closing = x] = [id |-> s.id, port |-> s.port, closing |-> x]
    BY <2>2
  <2> QED BY <2>1, <2>2, Zenon
<1>12. /\ \A r \in socks' : \E s \in socks :
            /\ r.id = s.id /\ r.port = s.port
            /\ IF shut(s) THEN r = [id |-> s.id, port |-> s.port, closing |-> TRUE] ELSE r = s
       /\ \A s \in socks : ~shut(s) => s \in socks'
  <2> DEFINE f(s) == IF shut(s) THEN [s EXCEPT !.closing = TRUE] ELSE s
  <2>1. socks' = {f(s) : s \in socks}
    BY <1>1
  <2>2. \A s \in socks : f(s) = IF shut(s) THEN [id |-> s.id, port |-> s.port, closing |-> TRUE] ELSE s
    <3> HIDE DEF shut
    <3> QED BY <1>11
  <2> HIDE DEF f, shut
  <2>3. \A r \in socks' : \E s \in socks : r = f(s)
    BY <2>1
  <2>4. \A s \in socks : f(s) \in socks'
    BY <2>1
  <2> QED BY <2>2, <2>3, <2>4
<1>13. \A s \in socks : s.id \in Inbounds /\ s.port \in Ports /\ s.closing \in BOOLEAN
  BY <1>2 DEF ListsTyped
<1>14. /\ \A r, s \in socks : r.port = s.port => r = s
       /\ \A s \in socks : ~s.closing /\ s.id \in DOMAIN entries /\ entries[s.id].port = s.port
       /\ \A i \in DOMAIN entries : Open(i, entries[i].port) \in socks
  <2>1. TableOf(w, t)
    BY <1>2 DEF Known
  <2> QED BY <1>5, <1>9, <2>1 DEF TableOf
<1>15. \A s \in socks : shut(s) <=> s.id \in t.left
  BY <1>14
<1> HIDE DEF shut, gone
<1>16. ListsTyped'
  <2>1. DOMAIN entries' \subseteq Inbounds /\ \A i \in DOMAIN entries' : entries'[i] \in [port : Ports \union {NoPort}, by : Actors]
    BY <1>2, <1>10 DEF ListsTyped
  <2>2. socks' \subseteq [id : Inbounds, port : Ports, closing : BOOLEAN]
    <3>1. \A s \in socks : s \in [id : Inbounds, port : Ports, closing : BOOLEAN]
      BY <1>2 DEF ListsTyped
    <3>2. \A i \in Inbounds, p \in Ports :
            [id |-> i, port |-> p, closing |-> TRUE] \in [id : Inbounds, port : Ports, closing : BOOLEAN]
      OBVIOUS
    <3> SUFFICES ASSUME NEW r \in socks'
                 PROVE  r \in [id : Inbounds, port : Ports, closing : BOOLEAN]
      OBVIOUS
    <3>3. PICK s \in socks : r = s \/ r = [id |-> s.id, port |-> s.port, closing |-> TRUE]
      BY <1>12
    <3> QED BY <1>13, <3>1, <3>2, <3>3
  <2> QED BY <1>1, <1>2, <1>10, <2>1, <2>2 DEF ListsTyped, lists, Distinct
<1>17. TableOf(w, u)'
  <2>1. \A r \in socks', q \in socks' : r.port = q.port => r = q
    <3> SUFFICES ASSUME NEW r \in socks', NEW q \in socks', r.port = q.port PROVE r = q
      OBVIOUS
    <3> DEFINE f(s) == IF shut(s) THEN [id |-> s.id, port |-> s.port, closing |-> TRUE] ELSE s
    <3>1. \A n \in socks' : \E s \in socks : n.port = s.port /\ n = f(s)
      BY <1>12
    <3> HIDE DEF f
    <3>2. PICK s \in socks : r.port = s.port /\ r = f(s)
      BY <3>1
    <3>3. PICK c \in socks : q.port = c.port /\ q = f(c)
      BY <3>1
    <3>4. s = c
      BY <1>14, <3>2, <3>3
    <3> QED BY <3>2, <3>3, <3>4
  <2>2. \A r \in socks' : r.closing => r.id \in t.left /\ r.id \notin DOMAIN entries'
    BY <1>10, <1>12, <1>14, <1>15
  <2>3. \A r \in socks' : ~r.closing => r.id \in DOMAIN entries' /\ entries'[r.id].port = r.port
    BY <1>10, <1>12, <1>14, <1>15
  <2>4. \A i \in DOMAIN entries' : entries'[i].port # NoPort /\ Open(i, entries'[i].port) \in socks'
    <3> SUFFICES ASSUME NEW i \in DOMAIN entries'
                 PROVE  entries'[i].port # NoPort /\ Open(i, entries'[i].port) \in socks'
      OBVIOUS
    <3>1. i \in DOMAIN entries /\ i \notin t.left /\ entries'[i] = entries[i]
      BY <1>10
    <3>2. Open(i, entries[i].port) \in socks /\ Open(i, entries[i].port).id = i
      BY <1>14, <3>1 DEF Open
    <3> QED BY <1>5, <1>12, <1>15, <3>1, <3>2
  <2> QED BY <1>8, <1>9, <2>1, <2>2, <2>3, <2>4 DEF TableOf
<1>18. PortsOf(w, u)'
  <2>1. w = "kernel" => Shown(inbounds)'
    <3>1. w = "kernel" => Shown(inbounds)
      BY <1>2 DEF Known, PortsOf
    <3>2. inbounds' = inbounds
      BY <1>1 DEF lists
    <3> QED BY <1>10, <3>1, <3>2 DEF Shown
  <2>2. w # "kernel" => Shown(u.list)'
    <3> SUFFICES ASSUME w # "kernel" PROVE Shown(u.list)'
      OBVIOUS
    <3>1. CASE t.todo[3] = "ensure"
      <4>1. DOMAIN entries \subseteq t.left
        BY <1>2, <3>1 DEF Known, PortsOf
      <4> QED BY <1>10, <4>1 DEF Shown
    <3>2. CASE t.todo[3] # "ensure"
      <4>1. Shown(t.list)
        BY <1>2, <3>2 DEF Known, PortsOf
      <4> QED BY <1>8, <1>10, <4>1 DEF Shown
    <3> QED BY <3>1, <3>2
  <2>3. Restarts(u) => inbounds = t.list /\ \A m, n \in t.left : m = n
    BY <1>2, <1>9 DEF Known, PortsOf
  <2>4. w = "kernel" => \A k \in DOMAIN t.list : \E m \in DOMAIN inbounds : inbounds[m] = t.list[k]
    BY <1>2 DEF Known, PortsOf
  <2>5. up
    BY <1>2, <1>3 DEF Known, PortsOf
  <2> QED BY <1>1, <1>3, <1>8, <1>9, <2>1, <2>2, <2>3, <2>4, <2>5 DEF PortsOf, lists
<1>19. NodesOf(w, u)'
  <2>1. NodesOf(w, u)
    BY <1>2, <1>8, <1>9 DEF Known, NodesOf
  <2> QED BY <1>1, <2>1, Kept DEF lists
<1>20. MembersOf(u)' /\ CopiesOf(u)'
  <2>1. MembersOf(u) /\ CopiesOf(u)
    BY <1>2, <1>9 DEF Known, MembersOf, CopiesOf
  <2> QED BY <1>1, <2>1, Kept DEF lists
<1>21. IsTask(w, u)'
  BY <1>8 DEF IsTask
<1> QED BY <1>2, <1>8, <1>16, <1>17, <1>18, <1>19, <1>20, <1>21, Ends DEF Known

-----------------------------------------------------------------------------
(* EnsureRunning: one inbound after the other.                             *)
LEMMA Ensured ==
  ASSUME IInv, NEW w \in DOMAIN job, Ensuring(w)
  PROVE  LET t == job[w]
         IN  /\ w \in Actors /\ ListsTyped /\ job = [v \in Actors |-> job[v]]
             /\ \A v \in Actors \ {w} : job[v] = Idle
             /\ Known(w, t) /\ Pending(t) /\ t.todo # <<>>
             /\ \A l \in {"stop", "wait", "read", "servers", "groups", "part", "copied", "load"} : ~Ahead(t, l)
             /\ (Ahead(t, "start") <=> w = "kernel") /\ (Ahead(t, "one") => w # "boot")
             /\ (Restarts(t) <=> Ahead(t, "one")) /\ (At(w, "ensure") <=> Ahead(t, "ensure"))
             /\ (At(w, "start") <=> Ahead(t, "start"))
             /\ First(w) = FirstOf(t) /\ Id(w) = IdOf(t)
             /\ FirstOf(t) \in t.left /\ t.left \subseteq DOMAIN t.list /\ FirstOf(t) \in DOMAIN t.list
             /\ IdOf(t) \in Inbounds
<1> DEFINE t == job[w]
<1>1. PICK label \in {"ensure", "one", "start"} : At(w, label)
  BY DEF Ensuring, Starts
<1>2. /\ w \in Actors /\ ListsTyped /\ job = [v \in Actors |-> job[v]]
      /\ \A v \in Actors \ {w} : job[v] = Idle
      /\ Known(w, t) /\ Ahead(t, label) /\ t.todo # <<>> /\ Follows(w, t.todo)
  BY <1>1, Working
<1>3. Head(t.todo) = label
  BY <1>2 DEF Ahead
<1>4. /\ \A l : Ahead(t, l) <=> l = label
      /\ \A l : At(w, l) <=> l = label
  BY <1>2, <1>3 DEF Ahead, At
<1>5. AtStarts(t) /\ t.left # {}
  BY <1>1, <1>4 DEF AtStarts, Ensuring
<1>6. First(w) = FirstOf(t) /\ Id(w) = IdOf(t)
  BY DEF First, FirstOf, Id, IdOf
<1>7. t.list \in Seq(Rows) /\ t.left \subseteq DOMAIN t.list
  BY <1>2, <1>5 DEF Known, IsTask
<1>8. FirstOf(t) \in t.left
  <2> HIDE DEF t
  <2> QED BY <1>5, <1>7, FirstIsLeft
<1>9. IdOf(t) \in Inbounds
  <2>1. t.list[FirstOf(t)] \in Rows
    BY <1>7, <1>8
  <2> QED BY <2>1 DEF IdOf, Rows
<1>10. /\ (label = "start" <=> w = "kernel") /\ (label = "one" => w # "boot")
  BY <1>1, <1>2, <1>3 DEF Follows
<1>11. Restarts(t) <=> label = "one"
  BY <1>1, <1>4 DEF Restarts
<1> HIDE DEF t
<1>12. /\ \A l \in {"stop", "wait", "read", "servers", "groups", "part", "copied", "load"} : ~Ahead(t, l)
       /\ (Ahead(t, "start") <=> w = "kernel") /\ (Ahead(t, "one") => w # "boot")
       /\ (Restarts(t) <=> Ahead(t, "one")) /\ (At(w, "ensure") <=> Ahead(t, "ensure"))
       /\ (At(w, "start") <=> Ahead(t, "start"))
  BY <1>1, <1>4, <1>10, <1>11
<1> QED BY <1>2, <1>5, <1>6, <1>7, <1>8, <1>9, <1>12 DEF Pending, t

(* The task once one more inbound is dealt with.                           *)
Dealt(t, x, d, y, z) == [t EXCEPT !.left = x, !.dead = d, !.sock = y, !.list = z]

(* The fields of a task that has dealt with one more inbound.              *)
LEMMA NextFields ==
  ASSUME NEW t, t = [todo |-> t.todo, list |-> t.list, gs |-> t.gs, old |-> t.old, left |-> t.left,
                     dead |-> t.dead, sock |-> t.sock], NEW x, NEW d, NEW y, NEW z
  PROVE  Dealt(t, x, d, y, z) =
           [todo |-> t.todo, list |-> z, gs |-> t.gs, old |-> t.old, left |-> x,
            dead |-> d, sock |-> y]
<1> DEFINE k == [t EXCEPT !.left = x]
           n == [k EXCEPT !.dead = d]
           m == [n EXCEPT !.sock = y]
<1>1. k = [todo |-> t.todo, list |-> t.list, gs |-> t.gs, old |-> t.old, left |-> x,
           dead |-> t.dead, sock |-> t.sock]
  OBVIOUS
<1> HIDE DEF k
<1>2. n = [todo |-> t.todo, list |-> t.list, gs |-> t.gs, old |-> t.old, left |-> x,
           dead |-> d, sock |-> t.sock]
  BY <1>1
<1> HIDE DEF n
<1>3. m = [todo |-> t.todo, list |-> t.list, gs |-> t.gs, old |-> t.old, left |-> x,
           dead |-> d, sock |-> y]
  BY <1>2
<1> HIDE DEF m
<1>4. [m EXCEPT !.list = z] = [todo |-> t.todo, list |-> z, gs |-> t.gs, old |-> t.old, left |-> x,
                              dead |-> d, sock |-> y]
  BY <1>3
<1>5. [m EXCEPT !.list = z] = Dealt(t, x, d, y, z)
  BY Zenon DEF k, n, m, Dealt
<1> QED BY <1>4, <1>5

(* An inbound of the list with another port.                               *)
LEMMA ListWith ==
  ASSUME NEW list \in Seq(Rows), Distinct(list), NEW k \in DOMAIN list, NEW p \in Ports
  PROVE  LET new == [list EXCEPT ![k] = [id |-> list[k].id, port |-> p]]
         IN  /\ new \in Seq(Rows) /\ Distinct(new) /\ DOMAIN new = DOMAIN list
             /\ new[k] = [id |-> list[k].id, port |-> p]
             /\ \A m \in DOMAIN list : m # k => new[m] = list[m]
<1> DEFINE row == [id |-> list[k].id, port |-> p]
           new == [list EXCEPT ![k] = row]
<1>1. row \in Rows /\ row.id = list[k].id
  <2>1. list[k] \in Rows
    OBVIOUS
  <2> QED BY <2>1 DEF Rows
<1> HIDE DEF row
<1>2. /\ new \in Seq(Rows) /\ DOMAIN new = DOMAIN list /\ new[k] = row
      /\ \A m \in DOMAIN list : m # k => new[m] = list[m]
  BY <1>1
<1> HIDE DEF new
<1>3. \A m \in DOMAIN list : new[m].id = list[m].id
  BY <1>1, <1>2
<1>4. Distinct(new)
  BY <1>2, <1>3 DEF Distinct
<1> QED BY <1>2, <1>4 DEF new, row

(* What the task u is once the first inbound of t has its port p, if any.  *)
GoesOn(t, p, u) ==
  /\ u.todo = t.todo /\ u.gs = t.gs /\ u.old = t.old /\ u.left = t.left \ {FirstOf(t)}
  /\ u.sock = NoPort /\ DOMAIN u.list = DOMAIN t.list
  /\ u.list[FirstOf(t)] = IF p = NoPort THEN t.list[FirstOf(t)] ELSE [id |-> IdOf(t), port |-> p]
  /\ \A m \in DOMAIN t.list : m # FirstOf(t) => u.list[m] = t.list[m]

(* One more inbound dealt with leaves a task with the others to deal with. *)
LEMMA NextTask ==
  ASSUME IInv, NEW w \in DOMAIN job, Ensuring(w), NEW p \in Ports \union {NoPort}, Next1(w, p)
  PROVE  \E u : job' = [job EXCEPT ![w] = u] /\ IsTask(w, u) /\ GoesOn(job[w], p, u)
<1> DEFINE t == job[w]
           k == FirstOf(t)
           list == IF p = NoPort THEN t.list ELSE [t.list EXCEPT ![k] = [id |-> t.list[k].id, port |-> p]]
           u == Dealt(t, t.left \ {k}, FALSE, NoPort, list)
<1>1. /\ IsTask(w, t) /\ Pending(t) /\ First(w) = k /\ k \in t.left /\ t.left \subseteq DOMAIN t.list
      /\ \A l \in {"stop", "wait", "read", "servers", "groups", "part", "copied", "load"} : ~Ahead(t, l)
  BY Ensured DEF Known
<1>2. job' = [job EXCEPT ![w] = u]
  BY <1>1, Zenon DEF Next1, Begin, Dealt
<1>3. /\ t = [todo |-> t.todo, list |-> t.list, gs |-> t.gs, old |-> t.old, left |-> t.left,
              dead |-> t.dead, sock |-> t.sock]
      /\ t.list \in Seq(Rows) /\ Distinct(t.list)
  BY <1>1 DEF IsTask
<1> HIDE DEF t, k
<1>4. /\ list \in Seq(Rows) /\ Distinct(list) /\ DOMAIN list = DOMAIN t.list
      /\ list[k] = IF p = NoPort THEN t.list[k] ELSE [id |-> t.list[k].id, port |-> p]
      /\ \A m \in DOMAIN t.list : m # k => list[m] = t.list[m]
  <2>1. CASE p = NoPort
    BY <1>3, <2>1
  <2>2. CASE p # NoPort
    <3>1. p \in Ports /\ k \in DOMAIN t.list
      BY <1>1, <2>2
    <3> DEFINE new == [t.list EXCEPT ![k] = [id |-> t.list[k].id, port |-> p]]
    <3>2. /\ new \in Seq(Rows) /\ Distinct(new) /\ DOMAIN new = DOMAIN t.list
          /\ new[k] = [id |-> t.list[k].id, port |-> p]
          /\ \A m \in DOMAIN t.list : m # k => new[m] = t.list[m]
      BY <1>3, <3>1, ListWith, Zenon
    <3>3. list = new
      BY <2>2
    <3> HIDE DEF new, list
    <3> QED BY <2>2, <3>2, <3>3
  <2> QED BY <2>1, <2>2
<1> HIDE DEF list
<1>5. \A d : Dealt(t, t.left \ {k}, d, NoPort, list) =
        [todo |-> t.todo, list |-> list, gs |-> t.gs, old |-> t.old, left |-> t.left \ {k},
         dead |-> d, sock |-> NoPort]
  <2>1. ASSUME NEW x, NEW d, NEW y, NEW z
        PROVE  Dealt(t, x, d, y, z) =
                 [todo |-> t.todo, list |-> z, gs |-> t.gs, old |-> t.old, left |-> x,
                  dead |-> d, sock |-> y]
    BY <1>3, NextFields
  <2> QED BY <2>1
<1>6. /\ u.todo = t.todo /\ u.list = list /\ u.gs = t.gs /\ u.old = t.old /\ u.left = t.left \ {k}
      /\ u.dead = FALSE /\ u.sock = NoPort
      /\ u = [todo |-> u.todo, list |-> u.list, gs |-> u.gs, old |-> u.old,
              left |-> u.left, dead |-> u.dead, sock |-> u.sock]
  <2>1. PICK d : d = FALSE
    OBVIOUS
  <2>2. u = [todo |-> t.todo, list |-> list, gs |-> t.gs, old |-> t.old, left |-> t.left \ {k},
             dead |-> d, sock |-> NoPort]
    BY <1>5, <2>1
  <2> HIDE DEF u
  <2>3. /\ u.todo = t.todo /\ u.list = list /\ u.gs = t.gs /\ u.old = t.old /\ u.left = t.left \ {k}
        /\ u.dead = d /\ u.sock = NoPort
    BY <2>2
  <2> QED BY <2>1, <2>2, <2>3
<1>7. IsTask(w, u)
  <2>1. t.todo # <<>>
    BY <1>1 DEF Pending, AtStarts, Ahead
  <2> QED BY <1>1, <1>4, <1>6, <2>1 DEF IsTask, Ahead, AtStarts
<1>8. IdOf(t) = t.list[k].id
  BY DEF IdOf, k
<1>9. GoesOn(t, p, u)
  <2> HIDE DEF u
  <2>1. k = FirstOf(t)
    BY DEF k
  <2> QED BY <1>4, <1>6, <1>8, <2>1 DEF GoesOn
<1> HIDE DEF u
<1> QED BY <1>2, <1>7, <1>9 DEF t


(* The first inbound of a task is the only one with its id.                *)
LEMMA GoesOnIs ==
  ASSUME NEW w, NEW t, IsTask(w, t), NEW p, NEW u, GoesOn(t, p, u), FirstOf(t) \in DOMAIN t.list
  PROVE  /\ u.sock = NoPort /\ u.left = t.left \ {FirstOf(t)} /\ DOMAIN u.list = DOMAIN t.list
         /\ u.todo = t.todo /\ u.gs = t.gs
         /\ \A l : Ahead(u, l) <=> Ahead(t, l)
         /\ (Restarts(u) <=> Restarts(t)) /\ (AtStarts(u) <=> AtStarts(t))
         /\ t.list[FirstOf(t)].id = IdOf(t)
         /\ u.list[FirstOf(t)] = IF p = NoPort THEN t.list[FirstOf(t)] ELSE [id |-> IdOf(t), port |-> p]
         /\ \A m \in DOMAIN t.list : m # FirstOf(t) => u.list[m] = t.list[m] /\ t.list[m].id # IdOf(t)
<1>1. u.todo = t.todo
  BY DEF GoesOn
<1>2. /\ \A l : Ahead(u, l) <=> Ahead(t, l)
      /\ (Restarts(u) <=> Restarts(t)) /\ (AtStarts(u) <=> AtStarts(t))
  BY <1>1 DEF Ahead, Restarts, AtStarts
<1>3. t.list[FirstOf(t)].id = IdOf(t)
  BY DEF IdOf
<1>4. \A m \in DOMAIN t.list : m # FirstOf(t) => t.list[m].id # IdOf(t)
  BY <1>3 DEF IsTask, Distinct
<1> QED BY <1>1, <1>2, <1>3, <1>4 DEF GoesOn

(* Every entry has its port, but for the one that is being started.        *)
LEMMA EntriesHavePorts ==
  ASSUME ListsTyped, NEW w, NEW t, TableOf(w, t)
  PROVE  /\ \A i \in DOMAIN entries : entries[i].port = NoPort =>
              i = IdOf(t) /\ entries[i] = [port |-> NoPort, by |-> w]
         /\ \A i \in DOMAIN entries : entries[i].port # NoPort => Open(i, entries[i].port) \in socks
<1> SUFFICES ASSUME NEW i \in DOMAIN entries
             PROVE  /\ entries[i].port = NoPort => i = IdOf(t) /\ entries[i] = [port |-> NoPort, by |-> w]
                    /\ entries[i].port # NoPort => Open(i, entries[i].port) \in socks
  OBVIOUS
<1>1. entries[i] = [port |-> entries[i].port, by |-> entries[i].by]
  BY DEF ListsTyped
<1>2. IF entries[i].port = NoPort THEN Pending(t) /\ i = IdOf(t) /\ entries[i].by = w
      ELSE Open(i, entries[i].port) \in socks
  BY DEF TableOf
<1> QED BY <1>1, <1>2

(* An inbound whose sidecar runs is left alone; otherwise its entry is     *)
(* made.                                                                   *)
LEMMA RegisterKeeps ==
  ASSUME InboundAssumption, IInv, NEW w \in DOMAIN job, Register(w)
  PROVE  IInv'
<1> DEFINE t == job[w]
           i == IdOf(t)
           k == FirstOf(t)
<1>1. /\ Ensuring(w) /\ t.sock = NoPort /\ ~Mine(w)
      /\ IF Id(w) \in DOMAIN entries
         THEN Next1(w, entries[Id(w)].port) /\ UNCHANGED entries
         ELSE /\ entries' = [j \in DOMAIN entries \union {Id(w)} |->
                   IF j = Id(w) THEN [port |-> NoPort, by |-> w] ELSE entries[j]]
              /\ UNCHANGED job
      /\ UNCHANGED <<lists, socks, up>>
  BY Zenon DEF Register
<1>2. /\ w \in Actors /\ ListsTyped /\ job = [v \in Actors |-> job[v]]
      /\ \A v \in Actors \ {w} : job[v] = Idle
      /\ Known(w, t) /\ Pending(t) /\ t.todo # <<>>
      /\ \A l \in {"stop", "wait", "read", "servers", "groups", "part", "copied", "load"} : ~Ahead(t, l)
      /\ (Ahead(t, "start") <=> w = "kernel") /\ (Ahead(t, "one") => w # "boot")
      /\ (Restarts(t) <=> Ahead(t, "one"))
      /\ Id(w) = i /\ k \in t.left /\ t.left \subseteq DOMAIN t.list /\ k \in DOMAIN t.list
      /\ i \in Inbounds
  BY <1>1, Ensured
<1>3. ~(i \in DOMAIN entries /\ entries[i] = [port |-> NoPort, by |-> w])
  BY <1>1, <1>2 DEF Mine
<1> HIDE DEF t, i, k
<1>4. TableOf(w, t) /\ PortsOf(w, t) /\ NodesOf(w, t) /\ MembersOf(t) /\ IsTask(w, t)
  BY <1>2 DEF Known
<1>5. /\ \A j \in DOMAIN entries : entries[j].port = NoPort =>
           j = i /\ entries[j] = [port |-> NoPort, by |-> w]
      /\ \A j \in DOMAIN entries : entries[j].port # NoPort => Open(j, entries[j].port) \in socks
  BY <1>2, <1>4, EntriesHavePorts DEF i
<1>6. \A j \in DOMAIN entries : entries[j].port # NoPort /\ entries[j].port \in Ports
  <2> SUFFICES ASSUME NEW j \in DOMAIN entries
               PROVE  entries[j].port # NoPort /\ entries[j].port \in Ports
    OBVIOUS
  <2>1. entries[j] \in [port : Ports \union {NoPort}, by : Actors]
    BY <1>2 DEF ListsTyped
  <2> QED BY <1>3, <1>5, <2>1
<1>7. /\ \A s \in socks : ~s.closing /\ s.id \in DOMAIN entries /\ entries[s.id].port = s.port
      /\ \A r, s \in socks : r.port = s.port => r = s
  BY <1>1, <1>2, <1>4, <1>6 DEF TableOf
<1>8. CASE i \in DOMAIN entries
  <2> DEFINE p == entries[i].port
  <2>1. Next1(w, p) /\ UNCHANGED entries
    BY <1>1, <1>2, <1>8
  <2>2. p \in Ports /\ p # NoPort
    BY <1>6, <1>8
  <2> HIDE DEF p
  <2>3. PICK u : job' = [job EXCEPT ![w] = u] /\ IsTask(w, u) /\ GoesOn(t, p, u)
    BY <1>1, <2>1, <2>2, NextTask DEF t
  <2>4. /\ u.sock = NoPort /\ u.left = t.left \ {k} /\ DOMAIN u.list = DOMAIN t.list
        /\ u.todo = t.todo /\ u.gs = t.gs
        /\ \A l : Ahead(u, l) <=> Ahead(t, l)
        /\ (Restarts(u) <=> Restarts(t)) /\ t.list[k].id = i
        /\ u.list[k] = [id |-> i, port |-> p]
        /\ \A m \in DOMAIN t.list : m # k => u.list[m] = t.list[m] /\ t.list[m].id # i
    BY <1>2, <1>4, <2>2, <2>3, GoesOnIs DEF i, k
  <2>5. TableOf(w, u)
    BY <1>2, <1>5, <1>6, <1>7, <2>4 DEF TableOf
  <2>6. PortsOf(w, u)
    <3>1. w = "kernel" => Shown(inbounds)
      BY <1>4 DEF PortsOf
    <3>2. w # "kernel" => Shown(u.list)
      <4> SUFFICES ASSUME w # "kernel", NEW j \in DOMAIN entries
                   PROVE  \E m \in DOMAIN u.list : u.list[m] = [id |-> j, port |-> entries[j].port]
        BY DEF Shown
      <4>1. Shown(t.list)
        BY <1>2, <1>4 DEF PortsOf
      <4>2. PICK m \in DOMAIN t.list : t.list[m] = [id |-> j, port |-> entries[j].port]
        BY <1>6, <4>1 DEF Shown
      <4>3. CASE m = k
        BY <1>2, <2>4, <4>2, <4>3 DEF p
      <4>4. CASE m # k
        BY <2>4, <4>2, <4>4
      <4> QED BY <4>3, <4>4
    <3>3. Restarts(u) => \A m, n \in t.left : m = n
      BY <1>4, <2>4 DEF PortsOf
    <3>4. Restarts(u) => u.left = {}
      BY <1>2, <2>4, <3>3
    <3>5. Ahead(u, "start") => \A n \in u.left : \E m \in DOMAIN inbounds : inbounds[m] = u.list[n]
      BY <1>2, <1>4, <2>4 DEF PortsOf
    <3>6. up <=> ~(w = "boot" /\ u.todo # <<>>)
      BY <1>4, <2>4 DEF PortsOf
    <3> QED BY <1>2, <2>4, <3>1, <3>2, <3>3, <3>4, <3>5, <3>6 DEF PortsOf
  <2>7. NodesOf(w, u)
    BY <1>2, <1>4, <2>4 DEF NodesOf
  <2>8. MembersOf(u) /\ CopiesOf(u)
    BY <1>2, <1>4, <2>4 DEF MembersOf, CopiesOf
  <2>9. UNCHANGED <<lists, tables, up>>
    BY <1>1, <2>1 DEF tables
  <2> QED BY <1>2, <2>3, <2>5, <2>6, <2>7, <2>8, <2>9, Thinks DEF Known
<1>9. CASE i \notin DOMAIN entries
  <2>1. /\ entries' = [j \in DOMAIN entries \union {i} |->
              IF j = i THEN [port |-> NoPort, by |-> w] ELSE entries[j]]
        /\ job' = job
    BY <1>1, <1>2, <1>9
  <2>2. job' = [job EXCEPT ![w] = t]
    BY <1>2, <2>1 DEF t
  <2>3. PICK u : u = t
    OBVIOUS
  <2>4. /\ DOMAIN entries' = DOMAIN entries \union {i}
        /\ entries'[i].port = NoPort /\ entries'[i].by = w
        /\ entries'[i] = [port |-> NoPort, by |-> w]
        /\ \A j \in DOMAIN entries : entries'[j] = entries[j]
        /\ entries' = [j \in DOMAIN entries' |-> entries'[j]]
    BY <1>9, <2>1
  <2>5. ListsTyped'
    <3>1. DOMAIN entries' \subseteq Inbounds
      BY <1>2, <2>4 DEF ListsTyped
    <3>2. \A j \in DOMAIN entries' : entries'[j] \in [port : Ports \union {NoPort}, by : Actors]
      <4>1. \A j \in DOMAIN entries : entries[j] \in [port : Ports \union {NoPort}, by : Actors]
        BY <1>2 DEF ListsTyped
      <4>2. [port |-> NoPort, by |-> w] \in [port : Ports \union {NoPort}, by : Actors]
        BY <1>2
      <4> QED BY <2>4, <4>1, <4>2
    <3> QED BY <1>1, <1>2, <2>4, <3>1, <3>2 DEF ListsTyped, lists, Distinct
  <2>6. TableOf(w, u)'
    <3>1. \A s \in socks : s.id \in DOMAIN entries' /\ entries'[s.id].port = s.port
      BY <1>7, <2>4
    <3>2. \A j \in DOMAIN entries' :
            IF entries'[j].port = NoPort THEN Pending(u) /\ j = IdOf(u) /\ entries'[j].by = w
            ELSE Open(j, entries'[j].port) \in socks
      BY <1>2, <1>5, <1>6, <2>3, <2>4 DEF i
    <3>3. socks' = socks /\ u.sock = NoPort
      BY <1>1, <2>3 DEF t
    <3> QED BY <1>7, <3>1, <3>2, <3>3 DEF TableOf
  <2>7. PortsOf(w, u)'
    <3>1. ASSUME NEW list, Shown(list) PROVE Shown(list)'
      BY <2>4, <3>1 DEF Shown
    <3>2. inbounds' = inbounds /\ up' = up
      BY <1>1 DEF lists
    <3>3. w = "kernel" => Shown(inbounds)
      BY <1>4 DEF PortsOf
    <3>4. w # "kernel" => Shown(u.list)'
      BY <1>2, <1>4, <2>3, <3>1 DEF PortsOf
    <3>5. w = "kernel" => Shown(inbounds)'
      BY <2>4, <3>2, <3>3 DEF Shown
    <3> QED BY <1>2, <1>4, <2>3, <3>2, <3>4, <3>5 DEF PortsOf
  <2>8. NodesOf(w, u)'
    <3>1. NodesOf(w, u)
      BY <1>4, <2>3
    <3> QED BY <1>1, <3>1, Kept DEF lists
  <2>9. MembersOf(u)' /\ CopiesOf(u)'
    <3>1. MembersOf(u) /\ CopiesOf(u)
      BY <1>2, <2>3 DEF Known
    <3> QED BY <1>1, <3>1, Kept DEF lists
  <2>10. IsTask(w, u)'
    BY <1>4, <2>3 DEF IsTask
  <2>11. job' = [job EXCEPT ![w] = u]
    BY <2>2, <2>3
  <2> QED BY <1>2, <2>5, <2>6, <2>7, <2>8, <2>9, <2>10, <2>11, Ends DEF Known
<1> QED BY <1>8, <1>9


(* The socket of the sidecar whose entry was made.                         *)
LEMMA ListenKeeps ==
  ASSUME InboundAssumption, IInv, NEW w \in DOMAIN job, Listen(w)
  PROVE  IInv'
<1> DEFINE t == job[w]
           i == IdOf(t)
           k == FirstOf(t)
<1>1. /\ Ensuring(w) /\ t.sock = NoPort /\ (Mine(w) \/ t.dead)
      /\ \E p \in Free :
           /\ t.list[First(w)].port \in {NoPort, p}
           /\ socks' = socks \union {[id |-> Id(w), port |-> p, closing |-> FALSE]}
           /\ job' = [job EXCEPT ![w] = [t EXCEPT !.sock = p]]
      /\ UNCHANGED <<lists, entries, up>>
  BY Zenon DEF Listen, Begin
<1>2. /\ w \in Actors /\ ListsTyped /\ job = [v \in Actors |-> job[v]]
      /\ \A v \in Actors \ {w} : job[v] = Idle
      /\ Known(w, t) /\ Pending(t) /\ t.todo # <<>>
      /\ \A l \in {"stop", "wait", "read", "servers", "groups", "part", "copied", "load"} : ~Ahead(t, l)
      /\ First(w) = k /\ Id(w) = i /\ k \in t.left /\ i \in Inbounds
  BY <1>1, Ensured
<1>3. TableOf(w, t) /\ PortsOf(w, t) /\ NodesOf(w, t) /\ MembersOf(t) /\ IsTask(w, t)
  BY <1>2 DEF Known
<1>4. i \in DOMAIN entries /\ entries[i] = [port |-> NoPort, by |-> w]
  <2>1. t.dead = FALSE
    BY <1>3 DEF IsTask
  <2>2. Mine(w)
    BY <1>1, <2>1
  <2> QED BY <1>2, <2>2 DEF Mine
<1> HIDE DEF t, i, k
<1>5. PICK p \in Ports :
        /\ \A s \in socks : s.port # p
        /\ t.list[k].port \in {NoPort, p}
        /\ socks' = socks \union {Open(i, p)}
        /\ job' = [job EXCEPT ![w] = [t EXCEPT !.sock = p]]
  BY <1>1, <1>2 DEF Free, Open
<1>6. p # NoPort
  BY DEF InboundAssumption
<1> DEFINE new == [t EXCEPT !.sock = p]
<1>7. /\ new = [todo |-> new.todo, list |-> new.list, gs |-> new.gs, old |-> new.old,
                left |-> new.left, dead |-> new.dead, sock |-> new.sock]
      /\ new.todo = t.todo /\ new.list = t.list /\ new.gs = t.gs /\ new.old = t.old
      /\ new.left = t.left /\ new.dead = t.dead /\ new.sock = p
  <2>1. t = [todo |-> t.todo, list |-> t.list, gs |-> t.gs, old |-> t.old, left |-> t.left,
             dead |-> t.dead, sock |-> t.sock]
    BY <1>3 DEF IsTask
  <2> QED BY <2>1
<1> HIDE DEF new
<1>8. IsTask(w, new)
  BY <1>2, <1>3, <1>7 DEF IsTask, Ahead, AtStarts
<1>9. PICK u : /\ job' = [job EXCEPT ![w] = u] /\ IsTask(w, u)
               /\ u.todo = t.todo /\ u.list = t.list /\ u.gs = t.gs /\ u.old = t.old
               /\ u.left = t.left /\ u.sock = p
  BY <1>5, <1>7, <1>8 DEF new
<1>10. /\ \A l : Ahead(u, l) <=> Ahead(t, l)
       /\ (Restarts(u) <=> Restarts(t)) /\ Pending(u) /\ FirstOf(u) = k /\ IdOf(u) = i
  BY <1>2, <1>9 DEF Ahead, Restarts, Pending, AtStarts, FirstOf, IdOf, k, i
<1>11. /\ Open(i, p).id = i /\ Open(i, p).port = p /\ ~Open(i, p).closing
       /\ Open(i, p) \in [id : Inbounds, port : Ports, closing : BOOLEAN]
  BY <1>2 DEF Open
<1>12. ListsTyped'
  <2>1. socks' \subseteq [id : Inbounds, port : Ports, closing : BOOLEAN]
    BY <1>2, <1>5, <1>11 DEF ListsTyped
  <2> QED BY <1>1, <1>2, <2>1 DEF ListsTyped, lists, Distinct
<1>13. TableOf(w, u)'
  <2>1. /\ \A r, s \in socks : r.port = s.port => r = s
        /\ \A s \in socks : ~s.closing /\ s.id \in DOMAIN entries /\ entries[s.id].port = s.port
    <3>1. \A s \in socks : s.port \in Ports
      BY <1>2 DEF ListsTyped
    <3> QED BY <1>1, <1>2, <1>3, <3>1 DEF TableOf, InboundAssumption, t
  <2>2. \A r, s \in socks' : r.port = s.port => r = s
    BY <1>5, <1>11, <2>1
  <2>3. \A s \in socks' : /\ ~s.closing /\ s.id \in DOMAIN entries
                          /\ entries[s.id].port = s.port \/ (entries[s.id].port = NoPort /\ u.sock = s.port)
    BY <1>4, <1>5, <1>9, <1>11, <2>1
  <2>4. \A j \in DOMAIN entries :
          IF entries[j].port = NoPort THEN Pending(u) /\ j = IdOf(u) /\ entries[j].by = w
          ELSE Open(j, entries[j].port) \in socks'
    BY <1>3, <1>5, <1>10 DEF TableOf, i
  <2>5. /\ Pending(u) /\ IdOf(u) \in DOMAIN entries /\ u.list[FirstOf(u)].port \in {NoPort, u.sock}
        /\ entries[IdOf(u)] = [port |-> NoPort, by |-> w] /\ Open(IdOf(u), u.sock) \in socks'
    BY <1>4, <1>5, <1>9, <1>10
  <2> QED BY <1>1, <2>2, <2>3, <2>4, <2>5 DEF TableOf
<1>14. PortsOf(w, u)'
  <2>1. PortsOf(w, u)
    BY <1>3, <1>9, <1>10 DEF PortsOf
  <2> QED BY <1>1, <2>1 DEF PortsOf, Shown, lists
<1>15. NodesOf(w, u)'
  <2>1. NodesOf(w, u)
    BY <1>3, <1>9, <1>10 DEF NodesOf
  <2> QED BY <1>1, <2>1, Kept DEF lists
<1>16. MembersOf(u)' /\ CopiesOf(u)'
  <2>1. MembersOf(u) /\ CopiesOf(u)
    BY <1>2, <1>3, <1>10 DEF MembersOf, CopiesOf
  <2> QED BY <1>1, <2>1, Kept DEF lists
<1>17. IsTask(w, u)'
  BY <1>9 DEF IsTask
<1> QED BY <1>2, <1>9, <1>12, <1>13, <1>14, <1>15, <1>16, <1>17, Ends DEF Known

(* The port is in use: the entry goes, and only a change of the inbounds,  *)
(* or a boot, goes on.                                                     *)
LEMMA FailureKeeps ==
  ASSUME InboundAssumption, IInv, NEW w \in DOMAIN job, ListenFails(w)
  PROVE  IInv'
<1> DEFINE t == job[w]
           i == IdOf(t)
           k == FirstOf(t)
<1>1. /\ Ensuring(w) /\ t.sock = NoPort /\ (Mine(w) \/ t.dead)
      /\ entries' = Restrict(entries, DOMAIN entries \ {Id(w)})
      /\ IF ~At(w, "ensure") THEN job' = [job EXCEPT ![w] = Idle] ELSE Next1(w, NoPort)
      /\ UNCHANGED <<lists, socks, up>>
  BY Zenon DEF ListenFails, Begin
<1>2. /\ w \in Actors /\ ListsTyped /\ job = [v \in Actors |-> job[v]]
      /\ \A v \in Actors \ {w} : job[v] = Idle
      /\ Known(w, t) /\ Pending(t) /\ t.todo # <<>>
      /\ \A l \in {"stop", "wait", "read", "servers", "groups", "part", "copied", "load"} : ~Ahead(t, l)
      /\ (Ahead(t, "start") <=> w = "kernel") /\ (Ahead(t, "one") => w # "boot")
      /\ (Restarts(t) <=> Ahead(t, "one")) /\ (At(w, "ensure") <=> Ahead(t, "ensure"))
      /\ Id(w) = i /\ k \in t.left /\ t.left \subseteq DOMAIN t.list /\ k \in DOMAIN t.list
      /\ i \in Inbounds
  BY <1>1, Ensured
<1>3. TableOf(w, t) /\ PortsOf(w, t) /\ NodesOf(w, t) /\ MembersOf(t) /\ IsTask(w, t)
  BY <1>2 DEF Known
<1>4. i \in DOMAIN entries /\ entries[i].port = NoPort
  <2>1. t.dead = FALSE
    BY <1>3 DEF IsTask
  <2>2. Mine(w)
    BY <1>1, <2>1
  <2> QED BY <1>2, <2>2 DEF Mine
<1> HIDE DEF t, i, k
<1>5. /\ DOMAIN entries' = DOMAIN entries \ {i}
      /\ \A j \in DOMAIN entries' : entries'[j] = entries[j]
      /\ entries' = [j \in DOMAIN entries' |-> entries'[j]]
  BY <1>1, <1>2 DEF Restrict
<1>6. \A j \in DOMAIN entries' : entries'[j].port # NoPort /\ Open(j, entries'[j].port) \in socks
  BY <1>2, <1>3, <1>5, EntriesHavePorts DEF i
<1>7. /\ \A s \in socks : ~s.closing /\ s.id \in DOMAIN entries' /\ entries'[s.id].port = s.port
      /\ \A r, s \in socks : r.port = s.port => r = s
  <2>1. \A s \in socks : s.port # NoPort
    BY <1>2 DEF ListsTyped, InboundAssumption
  <2>2. /\ \A s \in socks : ~s.closing /\ s.id \in DOMAIN entries /\ entries[s.id].port = s.port
        /\ \A r, s \in socks : r.port = s.port => r = s
    BY <1>1, <1>2, <1>3, <2>1 DEF TableOf
  <2> QED BY <1>4, <1>5, <2>1, <2>2
<1>8. ListsTyped'
  <2>1. /\ DOMAIN entries' \subseteq Inbounds
        /\ \A j \in DOMAIN entries' : entries'[j] \in [port : Ports \union {NoPort}, by : Actors]
    BY <1>2, <1>5 DEF ListsTyped
  <2> QED BY <1>1, <1>2, <1>5, <2>1 DEF ListsTyped, lists, Distinct
<1>9. ASSUME NEW u, u.sock = NoPort, \A l \in {"wait"} : ~Ahead(u, l)
      PROVE  TableOf(w, u)'
  BY <1>1, <1>6, <1>7, <1>9 DEF TableOf
<1>10. ASSUME NEW list, Shown(list) PROVE Shown(list)'
  BY <1>5, <1>10 DEF Shown
<1>11. inbounds' = inbounds /\ up' = up
  BY <1>1 DEF lists
<1>12. w = "kernel" => Shown(inbounds)
  BY <1>3 DEF PortsOf
<1>13. CASE ~At(w, "ensure")
  <2>1. job' = [job EXCEPT ![w] = Idle]
    BY <1>1, <1>13
  <2>2. w = "kernel" \/ (Restarts(t) /\ Ahead(t, "one"))
    BY <1>2, <1>13 DEF Pending, AtStarts
  <2>3. Shown(inbounds) /\ up /\ Fits(inbounds)
    <3>1. CASE w = "kernel"
      BY <1>3, <1>12, <3>1 DEF PortsOf, NodesOf
    <3>2. CASE w # "kernel"
      <4>1. Restarts(t) /\ Ahead(t, "one") /\ t.left # {} /\ w # "boot"
        BY <1>2, <2>2, <3>2
      <4>2. inbounds = t.list /\ Shown(t.list)
        BY <1>2, <1>3, <3>2, <4>1 DEF PortsOf
      <4> QED BY <1>3, <4>1, <4>2 DEF PortsOf, NodesOf
    <3> QED BY <3>1, <3>2
  <2>4. TableOf(w, Idle)'
    BY <1>9, IdleTask
  <2>5. PortsOf(w, Idle)'
    <3>1. Shown(inbounds)'
      BY <1>5, <1>11, <2>3 DEF Shown
    <3> QED BY <1>11, <2>3, <3>1, IdleTask DEF PortsOf
  <2>6. NodesOf(w, Idle)'
    <3>1. NodesOf(w, Idle)
      BY <2>3 DEF NodesOf
    <3> QED BY <1>1, <3>1, Kept DEF lists
  <2>7. MembersOf(Idle)' /\ CopiesOf(Idle)'
    <3>1. MembersOf(Idle) /\ CopiesOf(Idle)
      BY <1>2, <1>3, IdleTask DEF MembersOf, CopiesOf
    <3> QED BY <1>1, <3>1, Kept DEF lists
  <2>8. IsTask(w, Idle)'
    BY IdleIsTask DEF IsTask
  <2> QED BY <1>2, <1>8, <2>1, <2>4, <2>5, <2>6, <2>7, <2>8, Ends DEF Known
<1>14. CASE At(w, "ensure")
  <2>1. Next1(w, NoPort) /\ NoPort \in Ports \union {NoPort}
    BY <1>1, <1>14
  <2>2. PICK u : job' = [job EXCEPT ![w] = u] /\ IsTask(w, u) /\ GoesOn(t, NoPort, u)
    BY <1>1, <2>1, NextTask DEF t
  <2>3. /\ u.sock = NoPort /\ DOMAIN u.list = DOMAIN t.list
        /\ u.todo = t.todo /\ u.gs = t.gs
        /\ \A l : Ahead(u, l) <=> Ahead(t, l)
        /\ (Restarts(u) <=> Restarts(t))
        /\ \A m \in DOMAIN t.list : u.list[m] = t.list[m]
    <3>1. PICK p : p = NoPort
      OBVIOUS
    <3>2. GoesOn(t, p, u)
      BY <2>2, <3>1
    <3>3. /\ u.sock = NoPort /\ DOMAIN u.list = DOMAIN t.list
          /\ u.todo = t.todo /\ u.gs = t.gs
          /\ \A l : Ahead(u, l) <=> Ahead(t, l)
          /\ (Restarts(u) <=> Restarts(t))
          /\ u.list[k] = IF p = NoPort THEN t.list[k] ELSE [id |-> i, port |-> p]
          /\ \A m \in DOMAIN t.list : m # k => u.list[m] = t.list[m]
      BY <1>2, <1>3, <3>2, GoesOnIs DEF i, k
    <3> QED BY <3>1, <3>3
  <2>4. w # "kernel" /\ ~Restarts(u) /\ ~Ahead(u, "start")
    <3>1. \A l : At(w, l) => l = "ensure"
      BY <1>14 DEF At
    <3>2. Ahead(t, "ensure")
      BY <1>2, <1>14
    <3>3. ~Ahead(t, "start") /\ ~Ahead(t, "one")
      BY <3>2 DEF Ahead
    <3> QED BY <1>2, <2>3, <3>3
  <2>5. TableOf(w, u)'
    BY <1>2, <1>9, <2>3
  <2>6. PortsOf(w, u)'
    <3>1. Shown(t.list)
      BY <1>2, <1>3, <2>4 DEF PortsOf
    <3>2. Shown(u.list)
      BY <2>3, <3>1 DEF Shown
    <3>3. Shown(u.list)'
      BY <1>10, <3>2
    <3>4. up <=> ~(w = "boot" /\ u.todo # <<>>)
      BY <1>3, <2>3 DEF PortsOf
    <3> QED BY <1>2, <1>11, <2>3, <2>4, <3>3, <3>4 DEF PortsOf
  <2>7. NodesOf(w, u)'
    BY <1>2, <2>3, <2>4 DEF NodesOf
  <2>8. MembersOf(u)' /\ CopiesOf(u)'
    <3>1. MembersOf(u) /\ CopiesOf(u)
      BY <1>2, <1>3, <2>3 DEF MembersOf, CopiesOf
    <3> QED BY <1>1, <3>1, Kept DEF lists
  <2>9. IsTask(w, u)'
    BY <2>2 DEF IsTask
  <2> QED BY <1>2, <1>8, <2>2, <2>5, <2>6, <2>7, <2>8, <2>9, Ends DEF Known
<1> QED BY <1>13, <1>14


(* The port is known: it is put in the entry, in the list of the task, and *)
(* by the start of the kernel among the stored inbounds and the nodes.     *)
LEMMA SetAddrKeeps ==
  ASSUME InboundAssumption, IInv, NEW w \in DOMAIN job, SetAddr(w)
  PROVE  IInv'
<1> DEFINE t == job[w]
           i == IdOf(t)
           k == FirstOf(t)
           p == t.sock
           stored == WithPort(i, p)
<1>1. /\ Ensuring(w) /\ p # NoPort
      /\ IF At(w, "start") /\ WithPort(Id(w), p) # inbounds
         THEN inbounds' = WithPort(Id(w), p) /\ servers' = SyncServers(inbounds')
         ELSE UNCHANGED <<inbounds, servers>>
      /\ entries' = IF Id(w) \in DOMAIN entries THEN [entries EXCEPT ![Id(w)].port = p] ELSE entries
      /\ t.dead = FALSE => socks' = socks
      /\ Next1(w, p)
      /\ UNCHANGED <<refs, parted, member, up>>
  BY Zenon DEF SetAddr, Starting
<1>2. /\ w \in Actors /\ ListsTyped /\ job = [v \in Actors |-> job[v]]
      /\ \A v \in Actors \ {w} : job[v] = Idle
      /\ Known(w, t) /\ Pending(t) /\ t.todo # <<>>
      /\ \A l \in {"stop", "wait", "read", "servers", "groups", "part", "copied", "load"} : ~Ahead(t, l)
      /\ (Ahead(t, "start") <=> w = "kernel") /\ (Ahead(t, "one") => w # "boot")
      /\ (Restarts(t) <=> Ahead(t, "one")) /\ (At(w, "start") <=> Ahead(t, "start"))
      /\ Id(w) = i /\ k \in t.left /\ t.left \subseteq DOMAIN t.list /\ k \in DOMAIN t.list
      /\ i \in Inbounds
  BY <1>1, Ensured
<1>3. TableOf(w, t) /\ PortsOf(w, t) /\ NodesOf(w, t) /\ MembersOf(t) /\ IsTask(w, t)
  BY <1>2 DEF Known
<1>4. p \in Ports /\ t.dead = FALSE /\ t.list \in Seq(Rows) /\ Distinct(t.list)
  BY <1>1, <1>3 DEF IsTask
<1>5. PICK u : job' = [job EXCEPT ![w] = u] /\ IsTask(w, u) /\ GoesOn(t, p, u)
  BY <1>1, <1>4, NextTask
<1> HIDE DEF t, i, k, p
<1>6. /\ u.sock = NoPort /\ u.left = t.left \ {k} /\ DOMAIN u.list = DOMAIN t.list
      /\ u.todo = t.todo /\ u.gs = t.gs
      /\ \A l : Ahead(u, l) <=> Ahead(t, l)
      /\ (Restarts(u) <=> Restarts(t)) /\ t.list[k].id = i
      /\ u.list[k] = [id |-> i, port |-> p]
      /\ \A m \in DOMAIN t.list : m # k => u.list[m] = t.list[m] /\ t.list[m].id # i
  BY <1>1, <1>2, <1>3, <1>5, GoesOnIs DEF i, k
<1>7. /\ i \in DOMAIN entries /\ t.list[k].port \in {NoPort, p}
      /\ entries[i] = [port |-> NoPort, by |-> w] /\ Open(i, p) \in socks
  BY <1>1, <1>3 DEF TableOf, i, k, p
<1>8. /\ DOMAIN entries' = DOMAIN entries /\ entries'[i] = [port |-> p, by |-> w]
      /\ \A j \in DOMAIN entries : j # i => entries'[j] = entries[j]
      /\ entries' = [j \in DOMAIN entries' |-> entries'[j]]
  <2>1. entries' = [entries EXCEPT ![i].port = p]
    BY <1>1, <1>2, <1>7
  <2>2. entries = [j \in DOMAIN entries |-> entries[j]]
    BY <1>2 DEF ListsTyped
  <2>3. entries'[i] = [entries[i] EXCEPT !.port = p]
    BY <1>7, <2>1
  <2>4. entries'[i] = [port |-> p, by |-> w]
    BY <1>7, <2>3
  <2> QED BY <2>1, <2>2, <2>4
<1>9. /\ socks' = socks /\ UNCHANGED <<refs, parted, member, up>>
  BY <1>1, <1>4
<1>10. /\ \A j \in DOMAIN entries : entries[j].port = NoPort => j = i
       /\ \A j \in DOMAIN entries : entries[j].port # NoPort => Open(j, entries[j].port) \in socks
  BY <1>2, <1>3, EntriesHavePorts DEF i
<1>11. \A j \in DOMAIN entries' : entries'[j].port # NoPort /\ Open(j, entries'[j].port) \in socks
  BY <1>1, <1>7, <1>8, <1>10
<1>12. /\ \A s \in socks : ~s.closing /\ s.id \in DOMAIN entries' /\ entries'[s.id].port = s.port
       /\ \A r, s \in socks : r.port = s.port => r = s
  <2>1. \A s \in socks : /\ ~s.closing /\ s.id \in DOMAIN entries
                         /\ entries[s.id].port = s.port \/ (entries[s.id].port = NoPort /\ p = s.port)
    BY <1>2, <1>3 DEF TableOf, p
  <2>2. \A s \in socks : s.port # NoPort
    BY <1>2 DEF ListsTyped, InboundAssumption
  <2>3. \A r, s \in socks : r.port = s.port => r = s
    BY <1>3 DEF TableOf
  <2>4. ASSUME NEW s \in socks PROVE entries'[s.id].port = s.port
    <3>1. CASE s.id = i
      BY <1>7, <1>8, <2>1, <2>2, <3>1
    <3>2. CASE s.id # i
      BY <1>8, <1>10, <2>1, <3>2
    <3> QED BY <3>1, <3>2
  <2> QED BY <1>8, <2>1, <2>3, <2>4
<1>13. TableOf(w, u)'
  BY <1>2, <1>6, <1>9, <1>11, <1>12 DEF TableOf
<1>14. /\ stored \in Seq(Rows) /\ Distinct(stored) /\ DOMAIN stored = DOMAIN inbounds
       /\ \A m \in DOMAIN inbounds :
            /\ inbounds[m].id = i => stored[m] = [id |-> i, port |-> p]
            /\ inbounds[m].id # i => stored[m] = inbounds[m]
  <2>1. inbounds \in Seq(Rows) /\ Distinct(inbounds)
    BY <1>2 DEF ListsTyped
  <2>2. /\ DOMAIN stored = DOMAIN inbounds
        /\ \A m \in DOMAIN inbounds :
             /\ inbounds[m].id = i => stored[m] = [id |-> i, port |-> p]
             /\ inbounds[m].id # i => stored[m] = inbounds[m]
        /\ stored = [m \in DOMAIN inbounds |-> stored[m]]
    BY DEF WithPort
  <2> HIDE DEF stored
  <2>3. [id |-> i, port |-> p] \in Rows
    BY <1>2, <1>4 DEF Rows
  <2>4. \A m \in DOMAIN inbounds : stored[m] \in Rows /\ stored[m].id = inbounds[m].id
    BY <2>1, <2>2, <2>3
  <2>5. DOMAIN inbounds = 1 .. Len(inbounds) /\ Len(inbounds) \in Nat
    BY <2>1
  <2>6. stored \in Seq(Rows)
    BY <2>2, <2>4, <2>5
  <2>7. Distinct(stored)
    BY <2>1, <2>2, <2>4 DEF Distinct
  <2> QED BY <2>2, <2>6, <2>7
<1>15. IF w = "kernel"
       THEN inbounds' = stored /\ (servers' = SyncServers(stored) \/ (servers' = servers /\ stored = inbounds))
       ELSE inbounds' = inbounds /\ servers' = servers
  <2> HIDE DEF stored
  <2>1. IF w = "kernel" /\ stored # inbounds
        THEN inbounds' = stored /\ servers' = SyncServers(inbounds')
        ELSE UNCHANGED <<inbounds, servers>>
    BY <1>1, <1>2 DEF stored
  <2> QED BY <2>1
<1> HIDE DEF stored
<1>16. w = "kernel" => \A n \in t.left : \E m \in DOMAIN inbounds : inbounds[m] = t.list[n]
  BY <1>2, <1>3 DEF PortsOf
<1>17. PortsOf(w, u)'
  <2>1. w = "kernel" => Shown(inbounds)'
    <3> SUFFICES ASSUME w = "kernel", NEW j \in DOMAIN entries'
                 PROVE  \E m \in DOMAIN inbounds' : inbounds'[m] = [id |-> j, port |-> entries'[j].port]
      BY DEF Shown
    <3>1. inbounds' = stored /\ Shown(inbounds)
      BY <1>3, <1>15 DEF PortsOf
    <3>2. CASE j = i
      <4>1. PICK m \in DOMAIN inbounds : inbounds[m] = t.list[k]
        BY <1>2, <1>16
      <4>2. stored[m] = [id |-> i, port |-> p]
        BY <1>6, <1>14, <4>1
      <4> QED BY <1>8, <1>14, <3>1, <3>2, <4>2
    <3>3. CASE j # i
      <4>1. j \in DOMAIN entries /\ entries'[j] = entries[j] /\ entries[j].port # NoPort
        BY <1>8, <1>10, <3>3
      <4>2. PICK m \in DOMAIN inbounds : inbounds[m] = [id |-> j, port |-> entries[j].port]
        BY <3>1, <4>1 DEF Shown
      <4>3. stored[m] = inbounds[m]
        BY <1>14, <3>3, <4>2
      <4> QED BY <1>14, <3>1, <4>1, <4>2, <4>3
    <3> QED BY <3>2, <3>3
  <2>2. w # "kernel" => Shown(u.list)'
    <3> SUFFICES ASSUME w # "kernel", NEW j \in DOMAIN entries'
                 PROVE  \E m \in DOMAIN u.list : u.list[m] = [id |-> j, port |-> entries'[j].port]
      BY DEF Shown
    <3>1. CASE j = i
      BY <1>2, <1>6, <1>8, <3>1
    <3>2. CASE j # i
      <4>1. j \in DOMAIN entries /\ entries'[j] = entries[j] /\ entries[j].port # NoPort
        BY <1>8, <1>10, <3>2
      <4>2. Shown(t.list)
        BY <1>2, <1>3 DEF PortsOf
      <4>3. PICK m \in DOMAIN t.list : t.list[m] = [id |-> j, port |-> entries[j].port]
        BY <4>1, <4>2 DEF Shown
      <4>4. m # k
        BY <1>6, <3>2, <4>3
      <4> QED BY <1>6, <4>1, <4>3, <4>4
    <3> QED BY <3>1, <3>2
  <2>3. Restarts(u) => u.left = {}
    <3>1. Restarts(u) => \A m, n \in t.left : m = n
      BY <1>3, <1>6 DEF PortsOf
    <3> QED BY <1>2, <1>6, <3>1
  <2>4. w = "kernel" => \A n \in u.left : \E m \in DOMAIN inbounds' : inbounds'[m] = u.list[n]
    <3> SUFFICES ASSUME w = "kernel", NEW n \in u.left
                 PROVE  \E m \in DOMAIN inbounds' : inbounds'[m] = u.list[n]
      OBVIOUS
    <3>1. n \in t.left /\ n # k /\ n \in DOMAIN t.list
      BY <1>2, <1>6
    <3>2. PICK m \in DOMAIN inbounds : inbounds[m] = t.list[n]
      BY <1>16, <3>1
    <3>3. inbounds[m].id # i /\ u.list[n] = t.list[n]
      BY <1>6, <3>1, <3>2
    <3> QED BY <1>14, <1>15, <3>2, <3>3
  <2>5. up' <=> ~(w = "boot" /\ u.todo # <<>>)
    BY <1>3, <1>6, <1>9 DEF PortsOf
  <2>6. /\ \A l \in {"stop", "wait", "read", "servers", "groups", "part", "copied", "load"} : ~Ahead(u, l)
        /\ (Restarts(u) => Ahead(u, "one")) /\ u.todo # <<>> /\ (Ahead(u, "start") => w = "kernel")
    BY <1>2, <1>6
  <2> QED BY <2>1, <2>2, <2>3, <2>4, <2>5, <2>6 DEF PortsOf
<1>18. servers \in Seq(Nodes)
  BY <1>2 DEF ListsTyped
<1>19. servers' = SyncServers(stored) =>
         /\ servers' \in Seq(Nodes) /\ DOMAIN servers \subseteq DOMAIN servers'
         /\ \A n \in DOMAIN servers : Source(servers'[n]) = Source(servers[n])
         /\ \A n \in DOMAIN servers' :
              \/ \E m \in DOMAIN stored : stored[m].port # NoPort /\ servers'[n] = Node(stored[m].id, stored[m].port)
              \/ /\ n \in DOMAIN servers /\ servers'[n] = servers[n]
                 /\ \A m \in DOMAIN stored : stored[m].port # NoPort =>
                      Source(Node(stored[m].id, stored[m].port)) # Source(servers[n])
         /\ \A m \in DOMAIN stored : stored[m].port # NoPort =>
              \E n \in DOMAIN servers' : servers'[n] = Node(stored[m].id, stored[m].port)
  BY <1>14, <1>18, Synced
<1>20. NodesOf(w, u)'
  <2>1. CASE w = "kernel"
    <3>1. Fits(inbounds)
      BY <1>3, <2>1 DEF NodesOf
    <3>2. CASE servers' = servers /\ stored = inbounds
      BY <1>15, <2>1, <3>1, <3>2 DEF NodesOf, Fits
    <3>3. CASE servers' = SyncServers(stored)
      <4>1. ASSUME NEW n \in DOMAIN servers', FromInbound(servers'[n])
            PROVE  \E m \in DOMAIN stored : stored[m].port # NoPort /\ servers'[n] = Node(stored[m].id, stored[m].port)
        <5> SUFFICES ASSUME n \in DOMAIN servers, servers'[n] = servers[n],
                            \A m \in DOMAIN stored : stored[m].port # NoPort =>
                              Source(Node(stored[m].id, stored[m].port)) # Source(servers[n])
                     PROVE  FALSE
          BY <1>19, <3>3
        <5>1. PICK m \in DOMAIN inbounds :
                inbounds[m].port # NoPort /\ servers[n] = Node(inbounds[m].id, inbounds[m].port)
          BY <3>1, <4>1 DEF Fits
        <5>2. stored[m] = inbounds[m]
          <6>1. CASE inbounds[m].id # i
            BY <1>14, <6>1
          <6>2. CASE inbounds[m].id = i
            <7>1. PICK n2 \in DOMAIN inbounds : inbounds[n2] = t.list[k]
              BY <1>2, <1>16, <2>1
            <7>2. inbounds[m] = t.list[k]
              BY <1>2, <1>6, <6>2, <7>1 DEF ListsTyped, Distinct
            <7>3. inbounds[m] \in Rows
              BY <1>2 DEF ListsTyped
            <7>4. inbounds[m] = [id |-> i, port |-> p]
              BY <1>7, <5>1, <6>2, <7>2, <7>3 DEF Rows
            <7> QED BY <1>14, <6>2, <7>4
          <6> QED BY <6>1, <6>2
        <5> QED BY <1>14, <5>1, <5>2
      <4>2. Fits(inbounds)'
        BY <1>15, <1>19, <2>1, <3>3, <4>1 DEF Fits
      <4> QED BY <4>2 DEF NodesOf
    <3> QED BY <1>15, <2>1, <3>2, <3>3
  <2>2. CASE w # "kernel"
    <3>1. NodesOf(w, u)
      BY <1>2, <1>3, <1>6, <2>2 DEF NodesOf
    <3> QED BY <1>15, <2>2, <3>1, Kept
  <2> QED BY <2>1, <2>2
<1>21. ListsTyped'
  <2>1. inbounds' \in Seq(Rows) /\ Distinct(inbounds')
    BY <1>2, <1>14, <1>15 DEF ListsTyped
  <2>2. servers' \in Seq(Nodes)
    BY <1>15, <1>18, <1>19
  <2>3. \A j \in DOMAIN entries' : entries'[j] \in [port : Ports \union {NoPort}, by : Actors]
    <3>1. \A j \in DOMAIN entries : entries[j] \in [port : Ports \union {NoPort}, by : Actors]
      BY <1>2 DEF ListsTyped
    <3>2. [port |-> p, by |-> w] \in [port : Ports \union {NoPort}, by : Actors]
      BY <1>2, <1>4
    <3> QED BY <1>8, <3>1, <3>2
  <2>4. DOMAIN entries' \subseteq Inbounds
    BY <1>2, <1>8 DEF ListsTyped
  <2> QED BY <1>2, <1>8, <1>9, <2>1, <2>2, <2>3, <2>4 DEF ListsTyped, Distinct
<1>22. MembersOf(u)' /\ CopiesOf(u)'
  <2>1. ASSUME NEW g \in Groups PROVE ListsMembers(g, refs[g])'
    <3>1. refs[g] \subseteq DOMAIN servers /\ {Source(servers[n]) : n \in refs[g]} = member[g]
      BY <1>2, <1>3 DEF MembersOf, ListsMembers
    <3>2. DOMAIN servers \subseteq DOMAIN servers' /\ \A n \in DOMAIN servers : Source(servers'[n]) = Source(servers[n])
      BY <1>15, <1>19
    <3>3. refs[g] \subseteq DOMAIN servers' /\ {Source(servers'[n]) : n \in refs[g]} = member[g]
      BY <3>1, <3>2
    <3> QED BY <1>9, <3>3 DEF ListsMembers
  <2> QED BY <1>2, <1>6, <2>1 DEF MembersOf, CopiesOf
<1>23. IsTask(w, u)'
  BY <1>5 DEF IsTask
<1> QED BY <1>2, <1>5, <1>13, <1>17, <1>20, <1>21, <1>22, <1>23, Ends DEF Known


-----------------------------------------------------------------------------
(* The invariant.                                                          *)
LEMMA IInvInit ==
  ASSUME InboundAssumption, Init
  PROVE  IInv
<1> DEFINE w == "boot"
<1>1. /\ inbounds = <<>> /\ entries = <<>> /\ socks = {} /\ up = TRUE
      /\ servers \in {<<>>} \union {<<Node(n, NoPort)>> : n \in Ordinary}
      /\ refs = [g \in Groups |-> IF g = "SERVER" THEN DOMAIN servers ELSE {}]
      /\ member = [g \in Groups |-> IF g = "SERVER" THEN Sources(servers) ELSE {}]
      /\ job = [h \in Handlers \union {"boot", "kernel"} |-> Idle]
      /\ parted \in {TRUE, ~WithCrash}
  BY DEF Init
<1>2. /\ job = [v \in Actors |-> job[v]] /\ \A v \in Actors : job[v] = Idle
      /\ w \in Actors
  BY <1>1 DEF Actors
<1>3. /\ servers \in Seq(Nodes) /\ DOMAIN servers \subseteq Nat \ {0}
      /\ \A k \in DOMAIN servers : ~FromInbound(servers[k])
  <2>1. CASE servers = <<>>
    BY <2>1
  <2>2. CASE servers # <<>>
    <3>1. PICK n \in Ordinary : servers = <<Node(n, NoPort)>>
      BY <1>1, <2>2
    <3>2. Node(n, NoPort) \in Nodes /\ ~FromInbound(Node(n, NoPort))
      BY DEF Node, Nodes, FromInbound, InboundAssumption
    <3> QED BY <3>1, <3>2
  <2> QED BY <2>1, <2>2
<1>4. \A g \in Groups : refs[g] = (IF g = "SERVER" THEN DOMAIN servers ELSE {})
                        /\ member[g] = (IF g = "SERVER" THEN Sources(servers) ELSE {})
  BY <1>1
<1>5. DOMAIN entries = {} /\ entries = [i \in DOMAIN entries |-> entries[i]] /\ DOMAIN inbounds = {}
  BY <1>1
<1>6. parted \in BOOLEAN
  BY <1>1 DEF InboundAssumption
<1>7. ListsTyped
  <2>1. refs \in [Groups -> RefSets]
    BY <1>1, <1>3 DEF RefSets
  <2>2. member = [g \in Groups |-> member[g]]
    BY <1>1
  <2>3. inbounds \in Seq(Rows) /\ Distinct(inbounds)
    BY <1>1, <1>5 DEF Distinct
  <2> QED BY <1>1, <1>3, <1>5, <1>6, <2>1, <2>2, <2>3 DEF ListsTyped
<1>8. TableOf(w, Idle)
  BY <1>1, <1>5, IdleTask DEF TableOf
<1>9. PortsOf(w, Idle)
  BY <1>1, <1>5, IdleTask DEF PortsOf, Shown
<1>10. NodesOf(w, Idle)
  BY <1>3, <1>5 DEF NodesOf, Fits
<1>11. MembersOf(Idle) /\ CopiesOf(Idle)
  <2>1. ASSUME NEW g \in Groups PROVE ListsMembers(g, refs[g])
    BY <1>4 DEF ListsMembers, Sources
  <2> QED BY <2>1, IdleTask DEF MembersOf, CopiesOf
<1> QED BY <1>2, <1>7, <1>8, <1>9, <1>10, <1>11, IdleIsTask DEF IInv, Typed, Turn, Known

(* A step of an actor that goes on.                                        *)
LEMMA ContinueKeeps ==
  ASSUME InboundAssumption, IInv, NEW w \in DOMAIN job, Continue(w)
  PROVE  IInv'
  BY StopKeeps, WaitForStopsKeeps, RegisterKeeps, ListenKeeps, FailureKeeps, SetAddrKeeps,
     EnsureDoneKeeps, StoreKeeps, ReadKeeps, PutServersKeeps, PutGroupKeeps DEF Continue

(* Every step keeps the invariant.                                         *)
LEMMA IInvNext ==
  ASSUME InboundAssumption, Single, IInv, [Next]_vars
  PROVE  IInv'
<1>1. CASE \E h \in Handlers : \E list \in {l \in Lists : Distinct(l)} \union {inbounds} :
             SetCustomInbounds(h, list)
  <2>1. inbounds \in Seq(Rows) /\ Distinct(inbounds)
    BY DEF IInv, Typed, ListsTyped
  <2>2. PICK h \in Handlers, list \in {l \in Lists : Distinct(l)} \union {inbounds} :
          SetCustomInbounds(h, list)
    BY <1>1
  <2>3. list \in Seq(Rows) /\ Distinct(list)
    BY <2>1 DEF InboundAssumption
  <2> QED BY <2>2, <2>3, SetKeeps
<1>2. CASE \E h \in Handlers : \E k \in DOMAIN inbounds : RestartBuiltinProxy(h, k)
  BY <1>2, RestartKeeps
<1>3. CASE \E h \in DOMAIN job : Continue(h)
  BY <1>3, ContinueKeeps
<1>4. CASE \E s \in socks : CloseSocket(s)
  BY <1>4, CloseSocketKeeps
<1>5. CASE StartKernel
  BY <1>5, StartKernelKeeps
<1>6. CASE TakeKind(CfGoodNet, "goodnet")
  BY <1>6, TakeKindKeeps DEF Inbounds
<1>7. CASE TakeKind(Cfdo, "cfdo")
  BY <1>7, TakeKindKeeps DEF Inbounds
<1>8. CASE \E n \in Ordinary : Import(n)
  BY <1>8, ImportKeeps
<1>9. CASE \E i \in DOMAIN servers : ListNode(i)
  BY <1>9, ListNodeKeeps
<1>10. CASE Crash
  BY <1>10, CrashKeeps
<1>11. CASE FindShared
  BY <1>11, FindSharedKeeps
<1>12. CASE PutCopy
  BY <1>12, CopyPutKeeps
<1>13. CASE Parted
  BY <1>13, PartedKeeps
<1>14. CASE Load
  BY <1>14, LoadKeeps
<1>15. CASE \E i \in job["boot"].left : AppendCopy(i)
  BY <1>15, AppendCopyKeeps
<1>16. CASE UNCHANGED vars
  <2>1. PICK w \in Actors : Turn(w)
    BY DEF IInv
  <2> DEFINE t == job[w]
  <2>2. ListsTyped /\ job = [v \in Actors |-> job[v]]
    BY DEF IInv, Typed
  <2>3. (\A v \in Actors \ {w} : job[v] = Idle) /\ Known(w, t)
    BY <2>1 DEF Turn
  <2>4. job' = [job EXCEPT ![w] = t] /\ UNCHANGED <<lists, tables, up>>
    BY <1>16, <2>2 DEF vars, lists, tables
  <2> HIDE DEF t
  <2> QED BY <2>2, <2>3, <2>4, Thinks
<1> QED BY <1>1, <1>2, <1>3, <1>4, <1>5, <1>6, <1>7, <1>8, <1>9, <1>10, <1>11, <1>12, <1>13, <1>14,
           <1>15, <1>16 DEF Next

(* The invariant says what every variable holds.                           *)
LEMMA TypesHold == IInv => TypeOK
<1> SUFFICES ASSUME IInv PROVE TypeOK
  OBVIOUS
<1>1. ListsTyped
  BY DEF IInv, Typed
<1>2. \A i \in DOMAIN servers : servers[i].src \in Ordinary \union Inbounds
  <2>1. \A i \in DOMAIN servers : servers[i] \in Nodes
    BY <1>1 DEF ListsTyped
  <2> QED BY <2>1 DEF Nodes
<1>3. \A g \in Groups : refs[g] \subseteq Nat \ {0}
  BY <1>1 DEF ListsTyped, RefSets
<1> QED BY <1>1, <1>2, <1>3 DEF ListsTyped, TypeOK

(* Between requests the table has a row for each socket, and no other.     *)
LEMMA TableHolds == IInv => TableMatchesSockets
<1> SUFFICES ASSUME IInv, Quiet PROVE TableMatchesSockets
  BY DEF TableMatchesSockets
<1>1. ListsTyped /\ "boot" \in Actors /\ Known("boot", Idle)
  BY Resting DEF Actors
<1>2. /\ \A r, s \in socks : r.port = s.port => r = s
      /\ \A s \in socks : /\ ~s.closing /\ s.id \in DOMAIN entries
                          /\ entries[s.id].port = s.port
                               \/ (entries[s.id].port = NoPort /\ NoPort = s.port)
      /\ \A i \in DOMAIN entries : entries[i].port # NoPort /\ Open(i, entries[i].port) \in socks
  BY <1>1, IdleTask DEF Known, TableOf
<1>3. \A s \in socks : entries[s.id].port = s.port
  BY <1>2
<1>4. \A s, t \in socks : s.id = t.id => s = t
  BY <1>2, <1>3
<1> DEFINE row(i, p) == [id |-> i, port |-> p]
           S == {row(s.id, s.port) : s \in socks}
           E == {row(i, entries[i].port) : i \in DOMAIN entries}
<1>5. \A i, p : Open(i, p).id = i /\ Open(i, p).port = p
  BY DEF Open
<1> HIDE DEF row
<1>6. S \subseteq E
  BY <1>2, <1>3
<1>7. ASSUME NEW i \in DOMAIN entries PROVE row(i, entries[i].port) \in S
  <2>1. PICK s \in socks : s = Open(i, entries[i].port)
    BY <1>2
  <2>2. s.id = i /\ s.port = entries[i].port
    BY <1>5, <2>1
  <2> QED BY <2>2
<1>8. S = E
  BY <1>6, <1>7
<1> QED BY <1>4, <1>8 DEF TableMatchesSockets, row

(* Between requests each row of the table has its one node.                *)
LEMMA NodesHold == IInv => SidecarsHaveNodes
<1> SUFFICES ASSUME IInv, Quiet, up, NEW i \in DOMAIN entries
             PROVE  {servers[k].port : k \in {k \in DOMAIN servers : servers[k].src = i}} = {entries[i].port}
  BY DEF SidecarsHaveNodes
<1>1. ListsTyped /\ "boot" \in Actors /\ Known("boot", Idle)
  BY Resting DEF Actors
<1>2. entries[i].port # NoPort /\ Shown(inbounds) /\ Fits(inbounds) /\ i \in Inbounds
  BY <1>1, IdleTask DEF Known, TableOf, PortsOf, NodesOf, ListsTyped
<1>3. PICK m \in DOMAIN inbounds : inbounds[m] = [id |-> i, port |-> entries[i].port]
  BY <1>2 DEF Shown
<1>4. inbounds[m].id = i /\ inbounds[m].port = entries[i].port
  BY <1>3
<1>5. \A n \in DOMAIN inbounds : inbounds[n].id = i => n = m
  BY <1>1, <1>4 DEF ListsTyped, Distinct
<1>6. \A id, p : Node(id, p).src = id /\ Node(id, p).port = p
  BY DEF Node
<1>7. PICK k \in DOMAIN servers : servers[k] = Node(i, entries[i].port)
  BY <1>2, <1>4 DEF Fits
<1>8. ASSUME NEW k2 \in DOMAIN servers, servers[k2].src = i
      PROVE  servers[k2].port = entries[i].port
  <2>1. PICK n \in DOMAIN inbounds : servers[k2] = Node(inbounds[n].id, inbounds[n].port)
    BY <1>2, <1>8 DEF Fits, FromInbound
  <2>2. inbounds[n].id = i
    BY <1>6, <1>8, <2>1
  <2> QED BY <1>4, <1>5, <1>6, <2>1, <2>2
<1> QED BY <1>6, <1>7, <1>8

(* Between requests each group lists what it should.                       *)
LEMMA MembersHold == IInv => GroupsKeepMembers
<1> SUFFICES ASSUME IInv, Quiet, up PROVE GroupsKeepMembers
  BY DEF GroupsKeepMembers
<1>1. Known("boot", Idle)
  BY Resting DEF Actors
<1>2. \A g \in Groups : ListsMembers(g, refs[g])
  BY <1>1, IdleTask DEF Known, MembersOf
<1> QED BY <1>2 DEF ListsMembers, GroupsKeepMembers

(* The migration ends with the groups parted.                              *)
LEMMA PartingHolds == IInv => NodesParted
<1> SUFFICES ASSUME IInv, Parted
             PROVE  refs["SERVER"] \intersect refs["a"] \intersect DOMAIN servers = {}
  BY DEF NodesParted
<1>1. At("boot", "part") /\ job["boot"].gs # <<>> /\ job["boot"].left = {}
  BY DEF Parted
<1>2. "boot" \in DOMAIN job
  BY DEF IInv, Typed, Actors
<1>3. Known("boot", job["boot"]) /\ Ahead(job["boot"], "part")
  BY <1>1, <1>2, Working
<1> QED BY <1>1, <1>3 DEF Known, CopiesOf

(* What the inbounds, the sidecars, the nodes and the groups keep, while   *)
(* one request at a time changes the inbounds.                             *)
THEOREM InboundInvariant ==
  ASSUME InboundAssumption, Single
  PROVE  Spec => []IInv
<1>1. Init => IInv
  BY IInvInit
<1>2. IInv /\ [Next]_vars => IInv'
  BY IInvNext
<1> QED BY <1>1, <1>2, PTL DEF Spec

(* Every variable has its type.                                            *)
THEOREM InboundsTyped ==
  ASSUME InboundAssumption, Single
  PROVE  Spec => []TypeOK
<1>1. Spec => []IInv
  BY InboundInvariant
<1> QED BY <1>1, TypesHold, PTL

(* Whenever no request is under way, the sidecars that listen are those in *)
(* the table, each once and on the port the table says.                    *)
THEOREM TheTableTells ==
  ASSUME InboundAssumption, Single
  PROVE  Spec => []TableMatchesSockets
<1>1. Spec => []IInv
  BY InboundInvariant
<1> QED BY <1>1, TableHolds, PTL

(* Every sidecar that runs can be used: its inbound has just one own node, *)
(* with the port it listens on.                                            *)
THEOREM SidecarsCanBeUsed ==
  ASSUME InboundAssumption, Single
  PROVE  Spec => []SidecarsHaveNodes
<1>1. Spec => []IInv
  BY InboundInvariant
<1> QED BY <1>1, NodesHold, PTL

(* A rebuild moves the places of nodes, never the nodes a group lists; and *)
(* neither does the migration at boot.                                     *)
THEOREM MembersAreKept ==
  ASSUME InboundAssumption, Single
  PROVE  Spec => []GroupsKeepMembers
<1>1. Spec => []IInv
  BY InboundInvariant
<1> QED BY <1>1, MembersHold, PTL

(* Once the migration is over, no own node is listed by two groups.        *)
THEOREM NodesAreParted ==
  ASSUME InboundAssumption, Single
  PROVE  Spec => [][NodesParted]_vars
<1>1. Spec => []IInv
  BY InboundInvariant
<1> QED BY <1>1, PartingHolds, PTL DEF Spec
=============================================================================
