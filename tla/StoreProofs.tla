------------------------------ MODULE StoreProofs ------------------------------
(***************************************************************************)
(* What the parts of MCStore keep, for any sets of nodes, tasks, requests, *)
(* sessions and names.  The parts share no variable, so that the invariant *)
(* of each is shown by itself; a theorem says of the part that moves what  *)
(* its invariant implies.                                                  *)
(***************************************************************************)
EXTENDS MCStore, FiniteSetTheorems, SequenceTheorems, TLAPS

-----------------------------------------------------------------------------
(* The score task.  While running is set there is one task at work, and    *)
(* none otherwise: a task is started where running is off, and running     *)
(* goes off where the task ends.                                           *)
ScoresInv ==
  /\ Scores!TypeOK
  /\ running => \E t \in Tasks : Scores!Working = {t}
  /\ ~running => Scores!Working = {}
  /\ cancel # Scores!NoTask => cancel \in Scores!Working \ closed
  /\ pending # {} => running

(* No task works at first.                                                 *)
LEMMA ScoresInit == Scores!Init => ScoresInv
<1> SUFFICES ASSUME Scores!Init PROVE ScoresInv
  OBVIOUS
<1>1. host \in [ScoredNodes -> Scores!Addresses]
  BY DEF Scores!Init, Scores!Addresses
<1>2. Scores!NoWork \in Scores!Jobs /\ Scores!NoWork.at = "none"
  BY DEF Scores!NoWork, Scores!Jobs, Scores!Addresses
<1>3. task \in [Tasks -> Scores!Jobs] /\ Scores!Working = {}
  BY <1>2 DEF Scores!Init, Scores!Working
<1> QED BY <1>1, <1>3 DEF Scores!Init, ScoresInv, Scores!TypeOK

(* A task that is started is the only one.                                 *)
LEMMA ScoresStart ==
  ASSUME ScoresInv, NEW t \in Tasks, NEW rs \in SUBSET ScoredNodes,
         task[t].at \in {"none", "restart"},
         Scores!Start(t, rs), UNCHANGED <<host, pending>>
  PROVE  ScoresInv'
<1> USE PartsAssumption
<1>1. /\ ~running /\ running' /\ cancel' = t /\ closed' = closed \ {t}
      /\ task' = [task EXCEPT ![t] = [Scores!NoWork EXCEPT !.at = "loop", !.refs = rs]]
  BY DEF Scores!Start
<1>2. task' \in [Tasks -> Scores!Jobs]
  BY <1>1 DEF ScoresInv, Scores!TypeOK, Scores!Jobs, Scores!NoWork, Scores!Addresses
<1>3. Scores!Working' = {t}
  BY <1>1 DEF ScoresInv, Scores!TypeOK, Scores!Working, Scores!Jobs, Scores!NoWork
<1> QED BY <1>1, <1>2, <1>3 DEF ScoresInv, Scores!TypeOK, Scores!Start, Scores!TaskAssumption

(* What a task does at work leaves it at work, and the others where they   *)
(* are.                                                                    *)
LEMMA ScoresAtWork ==
  ASSUME ScoresInv, NEW t \in Scores!Working, NEW j \in Scores!Jobs,
         j.at \in {"loop", "lookup", "save", "finish"},
         task' = [task EXCEPT ![t] = j],
         UNCHANGED <<host, running, cancel, closed, pending>>
  PROVE  ScoresInv'
<1>1. t \in Tasks /\ task' \in [Tasks -> Scores!Jobs]
  BY DEF ScoresInv, Scores!TypeOK, Scores!Working
<1>2. Scores!Working' = Scores!Working
  BY <1>1 DEF ScoresInv, Scores!TypeOK, Scores!Working
<1> QED BY <1>1, <1>2 DEF ScoresInv, Scores!TypeOK

(* Every step keeps the task the only one.                                 *)
LEMMA ScoresNext == ScoresInv /\ [Scores!Next]_scores => ScoresInv'
<1> SUFFICES ASSUME ScoresInv, [Scores!Next]_scores PROVE ScoresInv'
  OBVIOUS
<1> USE PartsAssumption
<1>1. ASSUME NEW t \in Tasks, NEW rs \in SUBSET ScoredNodes, Scores!ScoreServerIP(t, rs)
      PROVE  ScoresInv'
  BY <1>1, ScoresStart DEF Scores!ScoreServerIP, Scores!Free, Scores!NoWork
<1>2. ASSUME NEW t \in Tasks, NEW rs \in SUBSET ScoredNodes, Scores!Queue(t, rs)
      PROVE  ScoresInv'
  <2>1. CASE Scores!Start(t, rs) /\ t \in Scores!Free /\ UNCHANGED pending
    <3>1. task[t].at \in {"none", "restart"} /\ UNCHANGED host
      BY <1>2, <2>1 DEF Scores!Queue, Scores!Free, Scores!NoWork
    <3> QED BY <2>1, <3>1, ScoresStart, Zenon
  <2>2. CASE running /\ pending' = pending \union rs /\ UNCHANGED <<running, cancel, closed, task>>
    BY <1>2, <2>2, SMTT(30) DEF Scores!Queue, ScoresInv, Scores!TypeOK, Scores!Working
  <2> QED BY <1>2, <2>1, <2>2 DEF Scores!Queue
<1>3. ASSUME NEW t \in Tasks, NEW n \in ScoredNodes, Scores!NextNode(t, n)
      PROVE  ScoresInv'
  <2> DEFINE left == [task[t] EXCEPT !.refs = @ \ {n}]
             answer == {a \in task[t].known : a.host = host[n]}
             j == IF host[n] = Scores!Gone THEN left
                  ELSE IF answer # {}
                       THEN [left EXCEPT !.got = @ \union
                               {[node |-> n, host |-> a.host] : a \in {a \in answer : a.ok}}]
                       ELSE [task[t] EXCEPT !.at = "lookup", !.now = host[n]]
  <2>1. t \in Scores!Working /\ task[t] \in Scores!Jobs /\ task[t].at = "loop"
    BY <1>3 DEF Scores!NextNode, Scores!Working, ScoresInv, Scores!TypeOK
  <2>2. host[n] \in Scores!Addresses
    BY DEF ScoresInv, Scores!TypeOK
  <2>3. \A a \in answer : a.host \in Scores!Addresses
    BY <2>1 DEF Scores!Jobs
  <2>4. {[node |-> n, host |-> a.host] : a \in {a \in answer : a.ok}}
          \in SUBSET [node : ScoredNodes, host : Scores!Addresses]
    BY <2>3
  <2>5. left \in Scores!Jobs /\ left.at = "loop"
    BY <2>1 DEF Scores!Jobs
  <2>6. j \in Scores!Jobs /\ j.at \in {"loop", "lookup"}
    <3> HIDE DEF left
    <3> DEFINE more == {[node |-> n, host |-> a.host] : a \in {a \in answer : a.ok}}
               got == [left EXCEPT !.got = @ \union more]
               look == [task[t] EXCEPT !.at = "lookup", !.now = host[n]]
    <3>1. more \in SUBSET [node : ScoredNodes, host : Scores!Addresses]
      BY <2>4
    <3> HIDE DEF more
    <3>2. got \in Scores!Jobs /\ got.at = "loop"
      BY <2>5, <3>1 DEF Scores!Jobs
    <3>3. look \in Scores!Jobs /\ look.at = "lookup"
      BY <2>1, <2>2 DEF Scores!Jobs
    <3>4. j \in {left, got, look}
      BY DEF more
    <3> QED BY <2>5, <3>2, <3>3, <3>4
  <2>7. task' = [task EXCEPT ![t] = j] /\ UNCHANGED <<host, running, cancel, closed, pending>>
    BY <1>3 DEF Scores!NextNode
  <2> QED BY <2>1, <2>6, <2>7, ScoresAtWork
<1>4. ASSUME NEW t \in Tasks, Scores!Answered(t)
      PROVE  ScoresInv'
  <2>1. t \in Scores!Working /\ task[t] \in Scores!Jobs
    BY <1>4 DEF Scores!Answered, Scores!Working, ScoresInv, Scores!TypeOK
  <2>2. PICK ok \in BOOLEAN :
          task' = [task EXCEPT ![t].at = "loop", ![t].now = Scores!Gone,
                     ![t].known = @ \union {[host |-> task[t].now, ok |-> ok]}]
    BY <1>4 DEF Scores!Answered
  <2> DEFINE j == [task[t] EXCEPT !.at = "loop", !.now = Scores!Gone,
                     !.known = @ \union {[host |-> task[t].now, ok |-> ok]}]
  <2>3. j \in Scores!Jobs /\ j.at = "loop"
    <3>1. [host |-> task[t].now, ok |-> ok] \in [host : Scores!Addresses, ok : BOOLEAN]
      BY <2>1 DEF Scores!Jobs
    <3>2. j.known \in SUBSET [host : Scores!Addresses, ok : BOOLEAN]
      BY <2>1, <3>1 DEF Scores!Jobs
    <3> QED BY <2>1, <3>2 DEF Scores!Jobs, Scores!Addresses
  <2>4. task' = [task EXCEPT ![t] = j]
    BY <2>1, <2>2 DEF ScoresInv, Scores!TypeOK, Scores!Jobs
  <2> QED BY <1>4, <2>1, <2>3, <2>4, ScoresAtWork DEF Scores!Answered
<1>5. ASSUME NEW t \in Tasks, Scores!LoopEnds(t)
      PROVE  ScoresInv'
  <2> DEFINE j == [task[t] EXCEPT !.at = "save"]
  <2>1. t \in Scores!Working /\ j \in Scores!Jobs /\ j.at = "save"
    BY <1>5 DEF Scores!LoopEnds, Scores!Working, ScoresInv, Scores!TypeOK, Scores!Jobs
  <2>2. task' = [task EXCEPT ![t] = j]
    BY <1>5 DEF Scores!LoopEnds, Scores!Goto, ScoresInv, Scores!TypeOK
  <2> QED BY <1>5, <2>1, <2>2, ScoresAtWork DEF Scores!LoopEnds
<1>6. ASSUME NEW t \in Tasks, Scores!Save(t)
      PROVE  ScoresInv'
  <2> DEFINE j == [task[t] EXCEPT !.at = "finish"]
  <2>1. t \in Scores!Working /\ j \in Scores!Jobs /\ j.at = "finish"
    BY <1>6 DEF Scores!Save, Scores!Working, ScoresInv, Scores!TypeOK, Scores!Jobs
  <2>2. task' = [task EXCEPT ![t] = j]
    BY <1>6 DEF Scores!Save, Scores!Goto, ScoresInv, Scores!TypeOK
  <2> QED BY <1>6, <2>1, <2>2, ScoresAtWork DEF Scores!Save
<1>7. ASSUME NEW t \in Tasks, Scores!Finish(t)
      PROVE  ScoresInv'
  <2> DEFINE j == IF (t \in closed /\ task[t].refs # {}) \/ pending = {} THEN Scores!NoWork
                  ELSE [Scores!NoWork EXCEPT !.at = "restart", !.refs = pending]
  <2>1. Scores!Working = {t}
    BY <1>7 DEF Scores!Finish, Scores!Working, ScoresInv, Scores!TypeOK
  <2>2. j \in Scores!Jobs /\ j.at \in {"none", "restart"}
    BY DEF ScoresInv, Scores!TypeOK, Scores!Jobs, Scores!NoWork, Scores!Addresses
  <2>3. task' = [task EXCEPT ![t] = j]
    BY <1>7 DEF Scores!Finish
  <2>4. task' \in [Tasks -> Scores!Jobs] /\ Scores!Working' = {}
    BY <2>1, <2>2, <2>3 DEF ScoresInv, Scores!TypeOK, Scores!Working
  <2> QED BY <1>7, <2>4 DEF Scores!Finish, ScoresInv, Scores!TypeOK
<1>8. ASSUME NEW t \in Tasks, Scores!Restart(t)
      PROVE  ScoresInv'
  <2>1. task[t] \in Scores!Jobs /\ task[t].at = "restart"
    BY <1>8 DEF Scores!Restart, ScoresInv, Scores!TypeOK
  <2>2. CASE Scores!Start(t, task[t].refs)
    BY <1>8, <2>1, <2>2, ScoresStart DEF Scores!Restart, Scores!Jobs
  <2>3. CASE running /\ task' = [task EXCEPT ![t] = Scores!NoWork]
             /\ UNCHANGED <<running, cancel, closed>>
    <3>1. Scores!NoWork \in Scores!Jobs /\ Scores!NoWork.at = "none"
      BY DEF Scores!NoWork, Scores!Jobs, Scores!Addresses
    <3>2. task' \in [Tasks -> Scores!Jobs] /\ Scores!Working' = Scores!Working
      BY <2>1, <2>3, <3>1 DEF ScoresInv, Scores!TypeOK, Scores!Working
    <3> QED BY <1>8, <2>3, <3>2 DEF Scores!Restart, ScoresInv, Scores!TypeOK
  <2> QED BY <1>8, <2>2, <2>3 DEF Scores!Restart
<1>9. CASE Scores!Cancel
  BY <1>9 DEF Scores!Cancel, ScoresInv, Scores!TypeOK, Scores!Working
<1>10. ASSUME NEW n \in ScoredNodes, NEW h \in ScoredHosts \union {Scores!Gone}, Scores!Move(n, h)
       PROVE  ScoresInv'
  BY <1>10 DEF Scores!Move, ScoresInv, Scores!TypeOK, Scores!Working, Scores!Addresses
<1>11. CASE UNCHANGED scores
  BY <1>11 DEF scores, ScoresInv, Scores!TypeOK, Scores!Working
<1> QED BY <1>1, <1>2, <1>3, <1>4, <1>5, <1>6, <1>7, <1>8, <1>9, <1>10, <1>11 DEF Scores!Next

(* The invariant is what the run checks, and more.                         *)
LEMMA ScoresOneTask == ScoresInv => Scores!OneTask
<1>1. ASSUME ScoresInv PROVE Cardinality(Scores!Working) = (IF running THEN 1 ELSE 0)
  BY <1>1, FS_Singleton, FS_EmptySet DEF ScoresInv
<1>2. Scores!Cardinality(Scores!Working) = Cardinality(Scores!Working)
  BY DEF Scores!Cardinality, Cardinality
<1> QED BY <1>1, <1>2 DEF ScoresInv, Scores!OneTask

(* "One task at a time" (ipscore_task.go:63), whoever starts it, with any  *)
(* number of nodes and goroutines: running tells whether one works, the    *)
(* cancel that is kept is its own and not yet used, and nodes are queued   *)
(* only while it works.                                                    *)
THEOREM OneScoreTask == Spec => []OneTask
<1>1. Init => (part = "scores" => ScoresInv)
  BY ScoresInit DEF Init
<1>2. (part = "scores" => ScoresInv)
      /\ [Next]_<<part, lists, sidecars, outbounds, web, scores, dns, files>>
      => (part = "scores" => ScoresInv)'
  <2> SUFFICES ASSUME part = "scores", ScoresInv,
                      [Next]_<<part, lists, sidecars, outbounds, web, scores, dns, files>>
               PROVE  ScoresInv'
    BY DEF Next
  <2> QED BY ScoresNext DEF Next, StoreParts, SidecarParts
<1>3. (part = "scores" => ScoresInv) => OneTask
  BY ScoresOneTask DEF OneTask
<1> QED BY <1>1, <1>2, <1>3, PTL DEF Spec
-----------------------------------------------------------------------------
(* The forwarder.  A kernel is told the forwarder's port when its          *)
(* configuration is built; from then on until it is killed the forwarder   *)
(* stays, since only syncDNSFallback and Stop replace it, the one after    *)
(* the kill, the other having left the phase that counts.                  *)
DnsInv ==
  /\ want \in Keys \union {Dns!NoKey}
  /\ kernel \in [phase : {"off", "killed", "synced", "built", "on", "stopping"},
                 alive : BOOLEAN, flag : BOOLEAN, port : DnsPorts \union {Dns!NoPort}]
  /\ srv = Dns!NoServer \/ srv \in [key : Keys, port : DnsPorts]
  /\ kernel.phase \in {"built", "on"} => kernel.port = srv.port

(* Neither kernel nor forwarder serves at first.                           *)
LEMMA DnsInit == Dns!Init => DnsInv
  BY DEF Dns!Init, DnsInv

(* Every step keeps the port of the kernel's configuration that of the     *)
(* forwarder.                                                              *)
LEMMA DnsNext == DnsInv /\ [Dns!Next]_dns => DnsInv'
<1> SUFFICES ASSUME DnsInv, [Dns!Next]_dns PROVE DnsInv'
  OBVIOUS
<1>1. ASSUME UNCHANGED <<want, kernel, srv>> PROVE DnsInv'
  BY <1>1 DEF DnsInv
<1>2. ASSUME NEW c \in Clients,
             \/ \E tcp \in BOOLEAN : Dns!Receive(c, tcp)
             \/ Dns!Decide(c) \/ Dns!NotePrimarySuccess(c) \/ Dns!NotePrimaryFailure(c)
             \/ Dns!FallbackEnds(c) \/ Dns!NextOnConn(c)
      PROVE  DnsInv'
  <2>1. UNCHANGED <<want, kernel, srv>>
    BY <1>2, Zenon DEF Dns!Receive, Dns!Decide, Dns!NotePrimarySuccess, Dns!NotePrimaryFailure,
                       Dns!FallbackEnds, Dns!NextOnConn
  <2> QED BY <1>1, <2>1
<1>3. CASE Dns!CooldownOver
  BY <1>1, <1>3 DEF Dns!CooldownOver
<1>4. ASSUME NEW key \in Keys \union {Dns!NoKey}, Dns!Configure(key) PROVE DnsInv'
  BY <1>4 DEF Dns!Configure, DnsInv
<1>5. CASE Dns!BeginStart
  BY <1>5 DEF Dns!BeginStart, DnsInv
<1>6. CASE Dns!SyncDNSFallback
  <2>1. kernel' = [kernel EXCEPT !.phase = "synced"]
    BY <1>6 DEF Dns!SyncDNSFallback
  <2>2. srv' = srv \/ srv' = Dns!NoServer \/ srv' \in [key : Keys, port : DnsPorts]
    <3>1. CASE want \in Keys
      BY <1>6, <3>1 DEF Dns!SyncDNSFallback, Dns!StartServer
    <3>2. CASE want = Dns!NoKey
      BY <1>6, <3>2 DEF Dns!SyncDNSFallback
    <3> QED BY <3>1, <3>2 DEF DnsInv
  <2> QED BY <1>6, <2>1, <2>2 DEF Dns!SyncDNSFallback, DnsInv
<1>7. CASE Dns!BuildConfig
  <2>1. srv.port \in DnsPorts \union {Dns!NoPort}
    BY DEF DnsInv, Dns!NoServer
  <2> QED BY <1>7, <2>1 DEF Dns!BuildConfig, DnsInv
<1>8. CASE Dns!Ready
  BY <1>8 DEF Dns!Ready, DnsInv
<1>9. CASE Dns!StartFails
  BY <1>9 DEF Dns!StartFails, DnsInv
<1>10. CASE Dns!KernelDies
  BY <1>10 DEF Dns!KernelDies, DnsInv
<1>11. CASE Dns!DeathNoticed
  BY <1>11 DEF Dns!DeathNoticed, DnsInv
<1>12. CASE Dns!StopForwarder
  BY <1>12 DEF Dns!StopForwarder, DnsInv
<1>13. CASE Dns!StopKernel
  BY <1>13 DEF Dns!StopKernel, DnsInv
<1>14. CASE UNCHANGED dns
  BY <1>1, <1>14 DEF dns
<1> QED BY <1>2, <1>3, <1>4, <1>5, <1>6, <1>7, <1>8, <1>9, <1>10, <1>11, <1>12, <1>13, <1>14
        DEF Dns!Next

(* The configuration of a kernel that runs names the forwarder that serves *)
(* ("settled before it is written", engine.go:138), and none where none    *)
(* serves, with any number of clients, upstreams and ports.                *)
THEOREM ForwarderFound == Spec => []KernelFindsForwarder
<1>1. Init => (part = "dns" => DnsInv)
  BY DnsInit DEF Init
<1>2. (part = "dns" => DnsInv)
      /\ [Next]_<<part, lists, sidecars, outbounds, web, scores, dns, files>>
      => (part = "dns" => DnsInv)'
  <2> SUFFICES ASSUME part = "dns", DnsInv,
                      [Next]_<<part, lists, sidecars, outbounds, web, scores, dns, files>>
               PROVE  DnsInv'
    BY DEF Next
  <2> QED BY DnsNext DEF Next
<1>3. (part = "dns" => DnsInv) => KernelFindsForwarder
  BY DEF DnsInv, KernelFindsForwarder, Dns!KernelFindsForwarder
<1> QED BY <1>1, <1>2, <1>3, PTL DEF Spec


(* The types of the forwarder: the breaker counts to its threshold and no  *)
(* further.                                                                *)
DnsRecords ==
  /\ brk \in [fails : 0 .. Threshold, cooling : BOOLEAN, degraded : BOOLEAN]
  /\ conn \in [Clients -> [stage : {"none", "asked", "primary", "fallback", "open"},
                           tcp : BOOLEAN, broken : BOOLEAN, lost : BOOLEAN]]
  /\ row \in [n : 0 .. Threshold, causes : SUBSET {"kernel", "remote"}]

(* Where nothing has failed yet.                                           *)
LEMMA DnsRecordsRest ==
  /\ Threshold \in Nat \ {0}
  /\ Dns!Closed \in [fails : 0 .. Threshold, cooling : BOOLEAN, degraded : BOOLEAN]
  /\ Dns!NoFailures \in [n : 0 .. Threshold, causes : SUBSET {"kernel", "remote"}]
  /\ Dns!NoClient \in [stage : {"none", "asked", "primary", "fallback", "open"},
                       tcp : BOOLEAN, broken : BOOLEAN, lost : BOOLEAN]
<1>1. Threshold \in Nat \ {0}
  BY PartsAssumption DEF PartsAssumption, Dns!ForwarderAssumption
<1> QED BY <1>1 DEF Dns!Closed, Dns!NoFailures, Dns!NoClient

(* Every step keeps the records of the forwarder.                          *)
LEMMA DnsRecordsNext == DnsInv /\ DnsRecords /\ [Dns!Next]_dns => DnsRecords'
<1> SUFFICES ASSUME DnsInv, DnsRecords, [Dns!Next]_dns PROVE DnsRecords'
  OBVIOUS
<1> DEFINE Conns == [stage : {"none", "asked", "primary", "fallback", "open"},
                     tcp : BOOLEAN, broken : BOOLEAN, lost : BOOLEAN]
<1>0. conn \in [Clients -> Conns] /\ kernel.alive \in BOOLEAN /\ kernel.flag \in BOOLEAN
  BY DEF DnsRecords, DnsInv
<1>1. ASSUME UNCHANGED <<brk, row>>, conn' \in [Clients -> Conns] PROVE DnsRecords'
  BY <1>1 DEF DnsRecords
<1>2. ASSUME UNCHANGED <<brk, row>>, UNCHANGED conn PROVE DnsRecords'
  BY <1>0, <1>1, <1>2
<1>3. ASSUME NEW c \in Clients PROVE Dns!Replied(c) => conn' \in [Clients -> Conns]
  BY <1>0, DnsRecordsRest DEF Dns!Replied
<1>4. Dns!Kill => conn' \in [Clients -> Conns]
  <2>1. ASSUME NEW c \in Clients
        PROVE  [conn[c] EXCEPT !.broken = @ \/ conn[c].stage = "primary"] \in Conns
    <3>1. (conn[c].broken \/ conn[c].stage = "primary") \in BOOLEAN
      OBVIOUS
    <3>2. ASSUME NEW j \in Conns, NEW b \in BOOLEAN PROVE [j EXCEPT !.broken = b] \in Conns
      OBVIOUS
    <3>3. conn[c] \in Conns
      BY <1>0
    <3> HIDE DEF Conns
    <3> QED BY <3>1, <3>2, <3>3, Zenon
  <2> HIDE DEF Conns
  <2> QED BY <2>1, Zenon DEF Dns!Kill
<1>5. Dns!Close => DnsRecords'
  <2>1. ASSUME NEW c \in Clients
        PROVE  (IF conn[c].stage = "none" THEN conn[c] ELSE [conn[c] EXCEPT !.lost = TRUE]) \in Conns
    <3>1. ASSUME NEW j \in Conns PROVE [j EXCEPT !.lost = TRUE] \in Conns
      OBVIOUS
    <3>2. conn[c] \in Conns
      BY <1>0
    <3> HIDE DEF Conns
    <3> QED BY <3>1, <3>2, Zenon
  <2>2. Dns!Close => conn' \in [Clients -> Conns]
    <3> HIDE DEF Conns
    <3> QED BY <2>1, Zenon DEF Dns!Close
  <2> QED BY <2>2, DnsRecordsRest DEF Dns!Close, DnsRecords
<1>6. ASSUME NEW c \in Clients, NEW tcp \in BOOLEAN, Dns!Receive(c, tcp) PROVE DnsRecords'
  BY <1>0, <1>1, <1>6, DnsRecordsRest DEF Dns!Receive
<1>7. ASSUME NEW c \in Clients, Dns!Decide(c) PROVE DnsRecords'
  BY <1>0, <1>1, <1>7 DEF Dns!Decide
<1>8. ASSUME NEW c \in Clients, Dns!NotePrimarySuccess(c) PROVE DnsRecords'
  <2>1. conn' \in [Clients -> Conns]
    BY <1>3, <1>8 DEF Dns!NotePrimarySuccess
  <2> QED BY <1>8, <2>1, DnsRecordsRest DEF Dns!NotePrimarySuccess, DnsRecords
<1>9. ASSUME NEW c \in Clients, Dns!NotePrimaryFailure(c) PROVE DnsRecords'
  <2>1. conn' \in [Clients -> Conns]
    BY <1>0, <1>9 DEF Dns!NotePrimaryFailure
  <2>2. CASE conn[c].lost
    BY <1>1, <1>9, <2>1, <2>2 DEF Dns!NotePrimaryFailure
  <2>3. CASE ~conn[c].lost
    <3>1. \A k \in 0 .. Threshold : Dns!Capped(k + 1) \in 0 .. Threshold
      BY DnsRecordsRest DEF Dns!Capped
    <3>2. /\ brk' = [fails |-> Dns!Capped(brk.fails + 1),
                     cooling |-> brk.cooling \/ Dns!Capped(brk.fails + 1) = Threshold,
                     degraded |-> brk.degraded \/ Dns!Capped(brk.fails + 1) = Threshold]
          /\ row' = [n |-> Dns!Capped(row.n + 1),
                     causes |-> row.causes \union {IF conn[c].broken THEN "kernel" ELSE "remote"}]
      BY <1>9, <2>3 DEF Dns!NotePrimaryFailure
    <3> QED BY <2>1, <3>1, <3>2 DEF DnsRecords
  <2> QED BY <2>2, <2>3
<1>10. ASSUME NEW c \in Clients, Dns!FallbackEnds(c) PROVE DnsRecords'
  BY <1>1, <1>3, <1>10 DEF Dns!FallbackEnds
<1>11. ASSUME NEW c \in Clients, Dns!NextOnConn(c) PROVE DnsRecords'
  BY <1>0, <1>1, <1>11, DnsRecordsRest DEF Dns!NextOnConn
<1>12. CASE Dns!CooldownOver
  BY <1>12 DEF Dns!CooldownOver, DnsRecords
<1>13. CASE \E key \in Keys \union {Dns!NoKey} : Dns!Configure(key)
  BY <1>2, <1>13 DEF Dns!Configure
<1>14. CASE Dns!BeginStart
  BY <1>1, <1>4, <1>14 DEF Dns!BeginStart
<1>15. CASE Dns!SyncDNSFallback
  BY <1>2, <1>5, <1>15 DEF Dns!SyncDNSFallback
<1>16. CASE Dns!BuildConfig \/ Dns!Ready \/ Dns!StartFails \/ Dns!DeathNoticed
  BY <1>2, <1>16 DEF Dns!BuildConfig, Dns!Ready, Dns!StartFails, Dns!DeathNoticed
<1>17. CASE Dns!KernelDies
  BY <1>1, <1>4, <1>17 DEF Dns!KernelDies
<1>18. CASE Dns!StopForwarder
  BY <1>5, <1>18 DEF Dns!StopForwarder
<1>19. CASE Dns!StopKernel
  BY <1>1, <1>4, <1>19 DEF Dns!StopKernel
<1>20. CASE UNCHANGED dns
  BY <1>2, <1>20 DEF dns
<1> QED BY <1>6, <1>7, <1>8, <1>9, <1>10, <1>11, <1>12, <1>13, <1>14, <1>15, <1>16, <1>17,
           <1>18, <1>19, <1>20 DEF Dns!Next

(* The forwarder is well typed.                                            *)
LEMMA DnsTypes == DnsInv /\ DnsRecords => Dns!TypeOK
<1> SUFFICES ASSUME DnsInv, DnsRecords PROVE Dns!TypeOK
  OBVIOUS
<1>1. srv \in [key : Keys, port : DnsPorts] \union {Dns!NoServer}
  BY DEF DnsInv
<1> QED BY <1>1 DEF DnsInv, DnsRecords, Dns!TypeOK

(* No query and no failure at first.                                       *)
LEMMA DnsRecordsInit == Dns!Init => DnsRecords
  BY DnsRecordsRest DEF Dns!Init, DnsRecords

-----------------------------------------------------------------------------
(* The files.  A temporary file is whole when its download is about to be  *)
(* put in place, whatever it was left as by a download that died; and the  *)
(* copy beside the binary is made from a data file that nothing replaces   *)
(* meanwhile.                                                              *)
Installed == Files!Files \ {"data"}
FileJobs ==
  [file : Files!Files \union {"none"},
   at : {"idle", "ask", "open", "write", "rename", "copy", "beside", "besideHalf", "ready"},
   temp : SUBSET {1, 2}, left : Int, starts : BOOLEAN]
FilesInv ==
  /\ dest \in [Files!Files -> SUBSET {0, 1, 2}] /\ tmp \in [Files!Files -> SUBSET {0, 1, 2}]
  /\ djob \in FileJobs
  /\ \A f \in Installed : dest[f] \in {Files!Absent, Files!Whole}
  /\ djob.at \in {"open", "write", "rename"} => djob.file \in Installed
  /\ djob.at = "rename" => tmp[djob.file] = Files!Whole
  /\ djob.at = "ready" => beside = dest["data"]

KernelStays == dest["kernel"] = Files!Whole => dest'["kernel"] = Files!Whole

(* The number of mirrors is a number.                                      *)
LEMMA FileCounts == Mirrors \in Int
  BY PartsAssumption DEF PartsAssumption, Files!DownloadAssumption

(* A download that has tried a source.                                     *)
LEMMA FileJobLeft ==
  ASSUME NEW j \in FileJobs, NEW got \in SUBSET {1, 2}, NEW l \in Int
  PROVE  /\ [j EXCEPT !.temp = got, !.left = l] \in FileJobs
         /\ [j EXCEPT !.temp = got, !.left = l].at = j.at
  BY DEF FileJobs

(* What is there at first is whole.                                        *)
LEMMA FilesInit == Files!Init => FilesInv
<1> SUFFICES ASSUME Files!Init PROVE FilesInv
  OBVIOUS
<1>1. Files!Absent = {0} /\ Files!Whole = {1, 2}
  BY DEF Files!Absent, Files!Whole
<1>2. djob \in FileJobs /\ djob.at = "idle"
  BY DEF Files!Init, Files!Idle, Files!Empty, FileJobs
<1>3. dest \in [Files!Files -> SUBSET {0, 1, 2}] /\ tmp \in [Files!Files -> SUBSET {0, 1, 2}]
  BY <1>1 DEF Files!Init
<1>4. \A f \in Installed : dest[f] \in {Files!Absent, Files!Whole}
  BY DEF Files!Init, Installed
<1> QED BY <1>2, <1>3, <1>4 DEF FilesInv

(* A download that ends leaves the next of its batch, the copy for the     *)
(* kernel that starts, or nothing.                                         *)
LEMMA FilesEnd ==
  ASSUME FilesInv, Files!End \/ Files!Fail
  PROVE  djob' \in FileJobs /\ djob'.at \in {"idle", "ask", "beside"}
<1>1. Files!Idle \in FileJobs /\ Files!Idle.at = "idle"
  BY DEF Files!Idle, Files!Empty, FileJobs
<1>2. [Files!Idle EXCEPT !.at = "beside", !.starts = TRUE] \in FileJobs
  BY <1>1 DEF FileJobs
<1>3. [Files!Idle EXCEPT !.file = "custom", !.at = "ask"] \in FileJobs
  BY <1>1 DEF FileJobs, Files!Files, Files!RuleSets
<1> QED BY <1>1, <1>2, <1>3 DEF Files!End, Files!Fail, FileJobs

(* A step that leaves the files alone, and leads to no stage that promises *)
(* something of them.                                                      *)
LEMMA FilesQuiet ==
  ASSUME FilesInv, UNCHANGED <<dest, tmp>>, djob' \in FileJobs,
         \/ djob'.at \in {"idle", "ask", "copy", "beside", "besideHalf"}
         \/ djob'.at = "open" /\ djob'.file \in Installed
         \/ UNCHANGED <<djob, beside>>
         \/ djob'.at = "ready" /\ beside' = dest["data"]
  PROVE  FilesInv'
  BY DEF FilesInv

(* Every step, the crash included, keeps the files whole and a kernel that *)
(* is there.                                                               *)
LEMMA FilesNext == FilesInv /\ [Files!Next]_files => FilesInv' /\ KernelStays
<1> SUFFICES ASSUME FilesInv, [Files!Next]_files PROVE FilesInv' /\ KernelStays
  OBVIOUS
<1>0. /\ Files!Absent = {0} /\ Files!Whole = {1, 2} /\ Files!Empty = {}
      /\ Files!Files = {"kernel", "data", "builtin", "custom"}
      /\ Installed = {"kernel", "builtin", "custom"}
  BY DEF Files!Absent, Files!Whole, Files!Empty, Files!Files, Files!RuleSets, Installed
<1>1. ASSUME NEW f \in {"kernel", "data", "builtin"}, Files!Request(f)
      PROVE  FilesInv' /\ KernelStays
  <2>1. djob' \in FileJobs /\ djob'.at = "ask"
    <3>1. Files!Idle \in FileJobs
      BY <1>0 DEF Files!Idle, FileJobs
    <3>2. djob' = [Files!Idle EXCEPT !.file = f, !.at = "ask", !.left = Mirrors]
      BY <1>1 DEF Files!Request
    <3> QED BY <3>1, <3>2, <1>0, FileCounts DEF FileJobs
  <2>2. UNCHANGED <<dest, tmp>> /\ djob.at = "idle"
    BY <1>1 DEF Files!Request, Files!Idle
  <2> QED BY <2>1, <2>2, FilesQuiet DEF KernelStays
<1>2. CASE Files!AskFails
  <2>1. UNCHANGED <<dest, tmp>> /\ djob.at = "ask" /\ (Files!End \/ Files!Fail)
    BY <1>2 DEF Files!AskFails, Files!On
  <2> QED BY <2>1, FilesEnd, FilesQuiet DEF KernelStays
<1>3. CASE Files!Ask
  <2>1. UNCHANGED <<dest, tmp>> /\ djob.at = "ask" /\ djob.file \in Installed
        /\ djob' = [djob EXCEPT !.at = "open"]
    BY <1>3, <1>0 DEF Files!Ask, Files!On, Files!Goto, Files!RuleSets
  <2>2. djob' \in FileJobs /\ djob'.at = "open" /\ djob'.file \in Installed
    BY <2>1 DEF FilesInv, FileJobs
  <2> QED BY <2>1, <2>2, FilesQuiet DEF KernelStays
<1>4. ASSUME NEW f \in Files!Files, Files!Open(f)
      PROVE  FilesInv' /\ KernelStays
  <2>1. /\ djob.at = "open" /\ djob.file = f /\ f # "data"
        /\ tmp' = [tmp EXCEPT ![f] = {}] /\ djob' = [djob EXCEPT !.at = "write"]
        /\ UNCHANGED <<dest, beside>>
    BY <1>4, <1>0 DEF Files!Open, Files!On, Files!Goto, Files!copy
  <2> QED BY <2>1, <1>0 DEF FilesInv, FileJobs, KernelStays
<1>5. ASSUME NEW f \in Files!Files, Files!Write(f)
      PROVE  FilesInv' /\ KernelStays
  <2>1. /\ djob.at = "write" /\ UNCHANGED <<dest, beside, djob>>
        /\ \E half \in {1, 2} : tmp' = [tmp EXCEPT ![f] = @ \union {half}]
    BY <1>5, <1>0 DEF Files!Write, Files!On, Files!copy
  <2>2. tmp' \in [Files!Files -> SUBSET {0, 1, 2}]
    BY <2>1 DEF FilesInv
  <2> QED BY <2>1, <2>2 DEF FilesInv, KernelStays
<1>6. ASSUME NEW f \in Files!Files, Files!WriteFails(f)
      PROVE  FilesInv' /\ KernelStays
  <2>1. /\ djob.at = "write" /\ UNCHANGED <<dest, beside>> /\ (Files!End \/ Files!Fail)
        /\ tmp' = [tmp EXCEPT ![f] = {0}]
    BY <1>6, <1>0 DEF Files!WriteFails, Files!On, Files!copy
  <2>2. djob' \in FileJobs /\ djob'.at \in {"idle", "ask", "beside"}
    BY <2>1, FilesEnd
  <2>3. tmp' \in [Files!Files -> SUBSET {0, 1, 2}]
    BY <2>1 DEF FilesInv
  <2> QED BY <2>1, <2>2, <2>3 DEF FilesInv, KernelStays
<1>7. ASSUME NEW f \in Files!Files, Files!Remove(f)
      PROVE  FilesInv' /\ KernelStays
  <2>1. /\ djob.at = "write" /\ djob.file = f /\ tmp[f] = {1, 2} /\ UNCHANGED <<tmp, beside>>
        /\ djob' = [djob EXCEPT !.at = "rename"]
        /\ dest' = IF f \in {"builtin", "custom"} THEN [dest EXCEPT ![f] = {0}] ELSE dest
    BY <1>7, <1>0 DEF Files!Remove, Files!On, Files!copy, Files!Goto, Files!RuleSets
  <2>2. dest' \in [Files!Files -> SUBSET {0, 1, 2}] /\ dest'["kernel"] = dest["kernel"]
        /\ \A g \in Installed : dest'[g] \in {{0}, {1, 2}}
    BY <2>1, <1>0 DEF FilesInv
  <2>3. djob' \in FileJobs /\ djob'.at = "rename" /\ djob'.file = f
    BY <2>1 DEF FilesInv, FileJobs
  <2> QED BY <2>1, <2>2, <2>3, <1>0 DEF FilesInv, KernelStays
<1>8. ASSUME NEW f \in Files!Files, Files!Rename(f)
      PROVE  FilesInv' /\ KernelStays
  <2>1. /\ djob.at = "rename" /\ djob.file = f /\ tmp[f] = {1, 2} /\ UNCHANGED beside
        /\ dest' = [dest EXCEPT ![f] = tmp[f]] /\ tmp' = [tmp EXCEPT ![f] = {0}]
        /\ Files!End
    BY <1>8, <1>0 DEF Files!Rename, Files!On, FilesInv, Files!copy
  <2>2. djob' \in FileJobs /\ djob'.at \in {"idle", "ask", "beside"}
    BY <2>1, FilesEnd
  <2>3. /\ dest' \in [Files!Files -> SUBSET {0, 1, 2}] /\ tmp' \in [Files!Files -> SUBSET {0, 1, 2}]
        /\ \A g \in Files!Files : dest'[g] = dest[g] \/ dest'[g] = {1, 2}
    BY <2>1 DEF FilesInv
  <2> QED BY <2>1, <2>2, <2>3, <1>0 DEF FilesInv, KernelStays
<1>9. CASE Files!TrySource
  <2>1. /\ djob.at = "ask" /\ UNCHANGED <<dest, tmp>>
        /\ \E got \in SUBSET {1, 2} :
             djob' = [djob EXCEPT !.temp = got, !.left = IF got = {1, 2} THEN 0 ELSE @ - 1]
    BY <1>9, <1>0 DEF Files!TrySource, Files!On
  <2>2. djob' \in FileJobs /\ djob'.at = "ask"
    <3>1. PICK got \in SUBSET {1, 2} :
            djob' = [djob EXCEPT !.temp = got, !.left = IF got = {1, 2} THEN 0 ELSE @ - 1]
      BY <2>1
    <3>2. (IF got = {1, 2} THEN 0 ELSE djob.left - 1) \in Int
      BY DEF FilesInv, FileJobs
    <3>3. djob \in FileJobs /\ djob.at = "ask"
      BY <2>1 DEF FilesInv
    <3> DEFINE l == IF got = {1, 2} THEN 0 ELSE djob.left - 1
    <3>4. l \in Int /\ djob' = [djob EXCEPT !.temp = got, !.left = l]
      BY <3>1, <3>2, Zenon
    <3> HIDE DEF l
    <3> QED BY <3>3, <3>4, FileJobLeft, ZenonT(60)
  <2> QED BY <2>1, <2>2, FilesQuiet DEF KernelStays
<1>10. CASE Files!SourcesDone
  <2>1. djob.at = "ask" /\ UNCHANGED <<tmp, beside>>
    BY <1>10 DEF Files!SourcesDone, Files!On
  <2>2. CASE Files!Fail /\ UNCHANGED dest
    BY <2>1, <2>2, FilesEnd, FilesQuiet DEF KernelStays
  <2>3. CASE Files!Goto("copy") /\ dest' = [dest EXCEPT !["data"] = Files!Empty]
    <3>1. djob' \in FileJobs /\ djob'.at = "copy"
      BY <2>3 DEF Files!Goto, FilesInv, FileJobs
    <3> QED BY <2>1, <2>3, <3>1, <1>0 DEF FilesInv, KernelStays
  <2> QED BY <1>10, <2>2, <2>3 DEF Files!SourcesDone
<1>11. CASE Files!CopyHalf
  <2>1. djob.at = "copy" /\ UNCHANGED <<tmp, beside>> /\ djob.temp \in SUBSET {1, 2}
    BY <1>11 DEF Files!CopyHalf, Files!On, Files!copy, FilesInv, FileJobs
  <2>2. CASE Files!End /\ UNCHANGED dest
    BY <2>1, <2>2, FilesEnd, FilesQuiet DEF KernelStays
  <2>3. CASE UNCHANGED djob /\ \E new \in SUBSET {0, 1, 2} : dest' = [dest EXCEPT !["data"] = new]
    BY <2>1, <2>3, <1>0 DEF FilesInv, KernelStays
  <2> QED BY <1>11, <2>1, <2>2, <2>3 DEF Files!CopyHalf
<1>12. CASE Files!StartKernel
  <2>1. djob' \in FileJobs /\ djob'.at \in {"ask", "beside"}
    <3>1. [file |-> "data", at |-> "ask", temp |-> {}, left |-> Mirrors, starts |-> TRUE] \in FileJobs
      BY <1>0, FileCounts DEF FileJobs
    <3>2. Files!Idle \in FileJobs
      BY <1>0 DEF Files!Idle, FileJobs
    <3>3. [Files!Idle EXCEPT !.at = "beside", !.starts = TRUE] \in FileJobs
      BY <3>2 DEF FileJobs
    <3> QED BY <1>12, <1>0, <3>1, <3>3 DEF Files!StartKernel, Files!Idle
  <2>2. UNCHANGED <<dest, tmp>> /\ djob.at = "idle"
    BY <1>12 DEF Files!StartKernel, Files!Idle
  <2> QED BY <2>1, <2>2, FilesQuiet DEF KernelStays
<1>13. CASE Files!CopyBeside
  <2>1. djob.at = "beside" /\ UNCHANGED <<dest, tmp>>
        /\ \/ djob' = [djob EXCEPT !.at = "ready"] /\ beside' = dest["data"]
           \/ djob' = [djob EXCEPT !.at = "besideHalf"]
    BY <1>13 DEF Files!CopyBeside, Files!Goto, Files!SameFile, Files!copy
  <2>2. djob' \in FileJobs
    BY <2>1 DEF FilesInv, FileJobs
  <2> QED BY <2>1, <2>2, FilesQuiet DEF KernelStays, FilesInv, FileJobs
<1>14. CASE Files!CopyBesideHalf
  <2>1. djob.at = "besideHalf" /\ UNCHANGED <<dest, tmp>>
        /\ \/ djob' = [djob EXCEPT !.at = "ready"] /\ beside' = dest["data"]
           \/ djob' = djob
    BY <1>14 DEF Files!CopyBesideHalf, Files!Goto
  <2>2. djob' \in FileJobs
    BY <2>1 DEF FilesInv, FileJobs
  <2> QED BY <2>1, <2>2, FilesQuiet DEF KernelStays, FilesInv, FileJobs
<1>15. CASE Files!KernelReads
  <2>1. djob.at = "ready" /\ Files!Fail /\ UNCHANGED <<dest, tmp>>
    BY <1>15 DEF Files!KernelReads
  <2> QED BY <2>1, FilesEnd, FilesQuiet DEF KernelStays, FilesInv
<1>16. ASSUME UNCHANGED <<dest, tmp, beside, djob>>
       PROVE  FilesInv' /\ KernelStays
  BY <1>16 DEF FilesInv, KernelStays
<1>17. CASE Files!Read
  BY <1>16, <1>17 DEF Files!Read, Files!copy
<1>18. CASE Files!Leave
  BY <1>16, <1>18 DEF Files!Leave, Files!copy
<1>19. CASE Files!Crash
  <2>1. djob' \in FileJobs /\ djob'.at = "idle"
    BY <1>19, <1>0 DEF Files!Crash, Files!Idle, FileJobs
  <2> QED BY <1>19, <2>1, FilesQuiet DEF Files!Crash, KernelStays
<1>20. CASE UNCHANGED files
  BY <1>16, <1>20 DEF files
<1> QED BY <1>1, <1>2, <1>3, <1>4, <1>5, <1>6, <1>7, <1>8, <1>9, <1>10, <1>11, <1>12, <1>13,
           <1>14, <1>15, <1>17, <1>18, <1>19, <1>20 DEF Files!Next

(* "A failed write leaves no broken file" (engine.go:1094), a crash        *)
(* included and whatever an earlier one left: kernels and rule sets are    *)
(* whole or absent, a kernel that is there stays, and Xray reads the data  *)
(* file as it is; for any number of sources.                               *)
THEOREM FilesStayWhole == Spec => InstalledWhole
<1>1. Init => (part = "files" => FilesInv)
  BY FilesInit DEF Init
<1>2. (part = "files" => FilesInv)
      /\ [Next]_<<part, lists, sidecars, outbounds, web, scores, dns, files>>
      => /\ (part = "files" => FilesInv)'
         /\ [part = "files" => Files!InstalledWhole]_files
  <2> SUFFICES ASSUME part = "files", FilesInv,
                      [Next]_<<part, lists, sidecars, outbounds, web, scores, dns, files>>
               PROVE  FilesInv' /\ Files!InstalledWhole
    BY DEF Next, files
  <2>1. FilesInv' /\ KernelStays
    BY FilesNext, SMTT(30) DEF Next, StoreParts, SidecarParts
  <2> QED BY <2>1 DEF Files!InstalledWhole, Files!KernelReads, FilesInv, KernelStays, Installed
<1> QED BY <1>1, <1>2, PTL DEF Spec, InstalledWhole

(* The types of the files: a temporary file that is written to is there.   *)
FilesRecords ==
  /\ dest \in [Files!Files -> Files!Contents] /\ tmp \in [Files!Files -> Files!Contents]
  /\ beside \in Files!Contents /\ fresh \in BOOLEAN
  /\ queue \in 0 .. Slots /\ reader \in BOOLEAN
  /\ djob.at = "write" => tmp[djob.file] # Files!Absent

(* What files hold, and the room there is for messages.                    *)
LEMMA FilesContents ==
  /\ Files!Absent = {0} /\ Files!Whole = {1, 2} /\ Files!Empty = {}
  /\ {0} \in Files!Contents /\ {} \in Files!Contents /\ {1} \in Files!Contents
  /\ {1} # {0} /\ {2} # {0} /\ {} # {0}
  /\ \A new \in SUBSET {1, 2} : new \in Files!Contents
  /\ \A old \in Files!Contents \ {Files!Absent}, half \in {1, 2} :
       old \union {half} \in Files!Contents /\ old \union {half} # Files!Absent
  /\ Slots \in Nat \ {0} /\ 0 \in 0 .. Slots
<1>1. Slots \in Nat \ {0} /\ 0 \in 0 .. Slots
  BY PartsAssumption DEF PartsAssumption, Files!DownloadAssumption
<1>2. Files!Absent = {0} /\ Files!Whole = {1, 2} /\ Files!Empty = {}
  BY DEF Files!Absent, Files!Whole, Files!Empty
<1>3. Files!Contents = (SUBSET {1, 2}) \union {{0}}
  BY <1>2 DEF Files!Contents
<1>4. /\ {0} \in Files!Contents /\ {} \in Files!Contents /\ {1} \in Files!Contents
      /\ \A new \in SUBSET {1, 2} : new \in Files!Contents
  BY <1>3
<1>5. {1} # {0} /\ {2} # {0} /\ {} # {0}
  OBVIOUS
<1>6. ASSUME NEW old \in Files!Contents \ {Files!Absent}, NEW half \in {1, 2}
      PROVE  old \union {half} \in Files!Contents /\ old \union {half} # Files!Absent
  <2>1. old \in SUBSET {1, 2}
    BY <1>2, <1>3
  <2>2. old \union {half} \in SUBSET {1, 2} /\ old \union {half} # {0}
    BY <2>1
  <2> QED BY <1>2, <1>4, <2>2, Zenon
<1> QED BY <1>1, <1>2, <1>4, <1>5, <1>6, Zenon

(* Files of which one is replaced.                                         *)
LEMMA FilesReplaced ==
  ASSUME NEW g \in [Files!Files -> Files!Contents], NEW f \in Files!Files, NEW new \in Files!Contents
  PROVE  /\ [g EXCEPT ![f] = new] \in [Files!Files -> Files!Contents]
         /\ [g EXCEPT ![f] = new][f] = new
  OBVIOUS

(* A download that has ended, or the next of its batch, writes nothing.    *)
LEMMA FilesNotWriting ==
  ASSUME FilesInv, Files!End \/ Files!Fail
  PROVE  djob'.at # "write"
  BY FilesEnd

(* Every step keeps the types of the files.                                *)
LEMMA FilesRecordsNext ==
  FilesInv /\ FilesRecords /\ [Files!Next]_files => FilesRecords'
<1> SUFFICES ASSUME FilesInv, FilesRecords, [Files!Next]_files PROVE FilesRecords'
  OBVIOUS
<1>0. /\ djob \in FileJobs /\ Files!Files = {"kernel", "data", "builtin", "custom"}
      /\ \A f \in Files!Files : dest[f] \in Files!Contents /\ tmp[f] \in Files!Contents
  BY DEF FilesInv, FilesRecords, Files!Files, Files!RuleSets
<1>1. Files!Report => queue' \in 0 .. Slots
  BY FilesContents DEF Files!Report, FilesRecords
<1>2. ASSUME NEW f \in {"kernel", "data", "builtin"}, Files!Request(f) PROVE FilesRecords'
  <2>1. djob'.at # "write" /\ UNCHANGED <<dest, tmp, beside, fresh>> /\ queue' = 0 /\ reader' = TRUE
    BY <1>2 DEF Files!Request, Files!Idle, Files!copy
  <2> QED BY <2>1, FilesContents DEF FilesRecords
<1>3. CASE Files!AskFails
  <2>1. djob'.at # "write"
    BY <1>3, FilesNotWriting DEF Files!AskFails
  <2> QED BY <1>1, <1>3, <2>1 DEF Files!AskFails, FilesRecords, Files!copy
<1>4. CASE Files!Ask
  <2>1. djob'.at # "write"
    BY <1>0, <1>4 DEF Files!Ask, Files!Goto, FileJobs
  <2> QED BY <1>1, <1>4, <2>1 DEF Files!Ask, FilesRecords, Files!copy
<1>5. ASSUME NEW f \in Files!Files, Files!Open(f) PROVE FilesRecords'
  <2>1. /\ tmp' = [tmp EXCEPT ![f] = {}] /\ djob'.file = f
        /\ UNCHANGED <<dest, beside, fresh, queue, reader>>
    BY <1>0, <1>5, FilesContents DEF Files!Open, Files!On, Files!Goto, FileJobs, Files!copy
  <2>2. tmp' \in [Files!Files -> Files!Contents] /\ tmp'[djob'.file] # Files!Absent
    BY <2>1, FilesContents, FilesReplaced DEF FilesRecords
  <2> QED BY <2>1, <2>2 DEF FilesRecords
<1>6. ASSUME NEW f \in Files!Files, Files!Write(f) PROVE FilesRecords'
  <2>1. PICK half \in {1, 2} : tmp' = [tmp EXCEPT ![f] = @ \union {half}]
    BY <1>6, FilesContents DEF Files!Write
  <2>2. djob.file = f /\ djob.at = "write" /\ UNCHANGED <<dest, beside, fresh, djob, queue, reader>>
    BY <1>6 DEF Files!Write, Files!On, Files!copy
  <2>3. tmp[f] \union {half} \in Files!Contents /\ tmp[f] \union {half} # Files!Absent
    <3>1. tmp[f] \in Files!Contents \ {Files!Absent}
      BY <1>0, <2>2 DEF FilesRecords
    <3> QED BY <3>1, FilesContents
  <2>4. tmp' \in [Files!Files -> Files!Contents] /\ tmp'[f] # Files!Absent
    BY <2>1, <2>3, FilesReplaced DEF FilesRecords
  <2> QED BY <2>2, <2>4 DEF FilesRecords
<1>7. ASSUME NEW f \in Files!Files, Files!WriteFails(f) PROVE FilesRecords'
  <2>1. djob'.at # "write"
    BY <1>7, FilesNotWriting DEF Files!WriteFails
  <2>2. tmp' = [tmp EXCEPT ![f] = {0}] /\ UNCHANGED <<dest, beside, fresh, reader>>
    BY <1>7, FilesContents DEF Files!WriteFails, Files!copy
  <2>3. tmp' \in [Files!Files -> Files!Contents]
    BY <2>2, FilesContents, FilesReplaced DEF FilesRecords
  <2> QED BY <1>1, <1>7, <2>1, <2>2, <2>3 DEF Files!WriteFails, FilesRecords
<1>8. ASSUME NEW f \in Files!Files, Files!Remove(f) PROVE FilesRecords'
  <2>1. djob'.at # "write"
    BY <1>0, <1>8 DEF Files!Remove, Files!Goto, FileJobs
  <2>2. dest' = dest \/ dest' = [dest EXCEPT ![f] = {0}]
    BY <1>8, FilesContents DEF Files!Remove
  <2>3. dest' \in [Files!Files -> Files!Contents]
    <3>1. dest \in [Files!Files -> Files!Contents] /\ {0} \in Files!Contents
      BY FilesContents DEF FilesRecords
    <3> QED BY <2>2, <3>1, FilesReplaced, Zenon
  <2> QED BY <1>8, <2>1, <2>3 DEF Files!Remove, FilesRecords, Files!copy
<1>9. ASSUME NEW f \in Files!Files, Files!Rename(f) PROVE FilesRecords'
  <2>1. djob'.at # "write"
    BY <1>9, FilesNotWriting DEF Files!Rename
  <2>2. dest' = [dest EXCEPT ![f] = tmp[f]] /\ tmp' = [tmp EXCEPT ![f] = {0}]
        /\ UNCHANGED <<beside, fresh, reader>>
    BY <1>9, FilesContents DEF Files!Rename, Files!copy
  <2>3. dest' \in [Files!Files -> Files!Contents] /\ tmp' \in [Files!Files -> Files!Contents]
    BY <1>0, <2>2, FilesContents, FilesReplaced DEF FilesRecords
  <2> QED BY <1>1, <1>9, <2>1, <2>2, <2>3 DEF Files!Rename, FilesRecords
<1>10. CASE Files!TrySource
  <2>1. djob'.at # "write"
    BY <1>0, <1>10 DEF Files!TrySource, Files!On, FileJobs
  <2> QED BY <1>1, <1>10, <2>1 DEF Files!TrySource, FilesRecords, Files!copy
<1>11. CASE Files!SourcesDone
  <2>1. djob'.at # "write"
    BY <1>0, <1>11, FilesNotWriting DEF Files!SourcesDone, Files!Goto, FileJobs
  <2>2. /\ (dest' = dest /\ fresh' = fresh) \/ (dest' = [dest EXCEPT !["data"] = {}] /\ fresh' = FALSE)
        /\ UNCHANGED <<tmp, beside, reader>>
    BY <1>11, FilesContents DEF Files!SourcesDone
  <2>3. dest' \in [Files!Files -> Files!Contents] /\ fresh' \in BOOLEAN
    BY <1>0, <2>2, FilesContents, FilesReplaced DEF FilesRecords
  <2> QED BY <1>1, <1>11, <2>1, <2>2, <2>3 DEF Files!SourcesDone, FilesRecords
<1>12. CASE Files!CopyHalf
  <2>1. djob'.at # "write"
    BY <1>12, FilesNotWriting DEF Files!CopyHalf, Files!On
  <2>2. /\ dest' = dest \/ \E new \in SUBSET {1, 2} : dest' = [dest EXCEPT !["data"] = new]
        /\ UNCHANGED <<tmp, beside, fresh, reader>>
    BY <1>0, <1>12, FilesContents DEF Files!CopyHalf, FileJobs, Files!copy
  <2>3. dest' \in [Files!Files -> Files!Contents]
    <3>1. dest \in [Files!Files -> Files!Contents] /\ "data" \in Files!Files
      BY <1>0 DEF FilesRecords
    <3>2. ASSUME NEW new \in SUBSET {1, 2}
          PROVE  [dest EXCEPT !["data"] = new] \in [Files!Files -> Files!Contents]
      <4>1. new \in Files!Contents
        BY FilesContents
      <4> QED BY <3>1, <4>1
    <3> QED BY <2>2, <3>1, <3>2, Zenon
  <2>4. queue' \in 0 .. Slots
    BY <1>1, <1>12 DEF Files!CopyHalf, FilesRecords
  <2> QED BY <2>1, <2>2, <2>3, <2>4 DEF FilesRecords
<1>13. CASE Files!StartKernel
  <2>1. djob'.at # "write" /\ UNCHANGED <<dest, tmp, beside, fresh>> /\ queue' = 0 /\ reader' = TRUE
    BY <1>13 DEF Files!StartKernel, Files!Idle, Files!copy
  <2> QED BY <2>1, FilesContents DEF FilesRecords
<1>14. CASE Files!CopyBeside
  <2>1. djob'.at # "write"
    BY <1>0, <1>14 DEF Files!CopyBeside, Files!Goto, FileJobs
  <2>2. /\ \/ UNCHANGED <<beside, fresh>>
           \/ beside' = Files!Empty /\ fresh' = TRUE
        /\ UNCHANGED <<dest, tmp, queue, reader>>
    BY <1>14 DEF Files!CopyBeside, Files!copy
  <2> QED BY <2>1, <2>2, FilesContents DEF FilesRecords
<1>15. CASE Files!CopyBesideHalf
  <2>1. djob'.at # "write"
    BY <1>0, <1>15 DEF Files!CopyBesideHalf, Files!Goto, FileJobs
  <2>2. beside' \in {beside, {1}, dest["data"]} /\ UNCHANGED <<dest, tmp, fresh, queue, reader>>
    BY <1>15 DEF Files!CopyBesideHalf
  <2> QED BY <1>0, <2>1, <2>2, FilesContents DEF FilesRecords
<1>16. CASE Files!KernelReads
  <2>1. djob'.at # "write"
    BY <1>16, FilesNotWriting DEF Files!KernelReads
  <2> QED BY <1>16, <2>1 DEF Files!KernelReads, FilesRecords, Files!copy
<1>17. CASE Files!Read
  <2>1. queue' \in 0 .. Slots
    BY <1>17, FilesContents DEF Files!Read, FilesRecords
  <2> QED BY <1>17, <2>1 DEF Files!Read, FilesRecords, Files!copy
<1>18. CASE Files!Leave
  BY <1>18 DEF Files!Leave, FilesRecords, Files!copy
<1>19. CASE Files!Crash
  <2>1. /\ djob' = Files!Idle /\ queue' = 0 /\ reader' = FALSE
        /\ UNCHANGED <<dest, tmp, beside, fresh>>
    BY <1>19 DEF Files!Crash, Files!copy
  <2>2. djob'.at # "write"
    BY <2>1 DEF Files!Idle
  <2>3. queue' \in 0 .. Slots /\ reader' \in BOOLEAN
    BY <2>1, FilesContents
  <2> QED BY <2>1, <2>2, <2>3 DEF FilesRecords
<1>20. CASE UNCHANGED files
  BY <1>20 DEF files, FilesRecords
<1> QED BY <1>2, <1>3, <1>4, <1>5, <1>6, <1>7, <1>8, <1>9, <1>10, <1>11, <1>12, <1>13, <1>14,
           <1>15, <1>16, <1>17, <1>18, <1>19, <1>20 DEF Files!Next

(* Nothing is written and no message waits at first.                       *)
LEMMA FilesRecordsInit == Files!Init => FilesRecords
<1> SUFFICES ASSUME Files!Init PROVE FilesRecords
  OBVIOUS
<1>1. /\ Files!Absent \in Files!Contents /\ Files!Whole \in Files!Contents /\ 0 \in 0 .. Slots
  BY FilesContents
<1>2. djob.at # "write"
  BY DEF Files!Init, Files!Idle
<1> QED BY <1>1, <1>2 DEF Files!Init, FilesRecords

-----------------------------------------------------------------------------
(* The names of outbounds.  A request is the list of its transactions that *)
(* are left.  Nothing is owed under the name that is about to be cleared   *)
(* and unlisted: a rename has stored the new record by then.               *)
Renaming ==
  {<<"list", "put", "clear", "unlist", "servers", "subs", "rules">>,
   <<"put", "clear", "unlist", "servers", "subs", "rules">>,
   <<"clear", "unlist", "servers", "subs", "rules">>,
   <<"unlist", "servers", "subs", "rules">>,
   <<"servers", "subs", "rules">>, <<"subs", "rules">>, <<"rules">>}
Plans == Renaming \union
  {<<>>, <<"list", "put">>, <<"put">>, <<"clear", "unlist">>, <<"unlist">>}
AllRows == OwnRows \union SubscribedRows \union RuleRows

NamesInv ==
  /\ names \subseteq Custom
  /\ config \in [Outbounds!Names -> [name : Custom \union {Outbounds!None},
                                     set : Settings \union {Outbounds!None}]]
  /\ mention \in [AllRows -> Outbounds!Names]
  /\ njob \in [todo : Plans, old : Custom \union {Outbounds!None},
               new : Custom \union {Outbounds!None}, set : Settings \union {Outbounds!None}]
  /\ Outbounds!KeepsConfigurations
  /\ njob.todo = <<>> => njob = Outbounds!Idle
  /\ Outbounds!At("list") => njob.new \in Custom
  /\ Outbounds!At("put") => njob.new \in names
  /\ Outbounds!At("clear") \/ Outbounds!At("unlist") =>
       njob.old \in Custom /\ \A o \in owed : o.name # njob.old
  /\ njob.todo \in Renaming => njob.old \in Custom /\ njob.new \in Custom \ {njob.old}
  /\ Outbounds!At("subs") => \A r \in OwnRows : mention[r] # njob.old
  /\ Outbounds!At("rules") => \A r \in OwnRows \union SubscribedRows : mention[r] # njob.old

(* What is left after each transaction.                                    *)
LEMMA PlanSteps ==
  ASSUME NEW s \in Plans, s # <<>>
  PROVE  /\ Head(s) = "list" => Len(s) # 1 /\ Head(Tail(s)) = "put"
         /\ Head(s) = "put" => \/ Len(s) = 1
                               \/ s \in Renaming /\ Len(s) # 1 /\ Head(Tail(s)) = "clear"
         /\ Head(s) = "clear" => Len(s) # 1 /\ Head(Tail(s)) = "unlist"
         /\ Head(s) = "unlist" => \/ Len(s) = 1
                                  \/ Len(s) # 1 /\ Head(Tail(s)) = "servers"
         /\ Head(s) = "servers" => Len(s) # 1 /\ Head(Tail(s)) = "subs"
         /\ Head(s) = "subs" => Len(s) # 1 /\ Head(Tail(s)) = "rules"
         /\ Head(s) = "rules" => Len(s) = 1
         /\ Head(s) \in {"servers", "subs", "rules"} => s \in Renaming
         /\ Len(s) # 1 => Tail(s) \in Plans /\ Tail(s) # <<>>
         /\ Tail(s) \in Renaming => s \in Renaming
<1>1. CASE s = <<"list", "put", "clear", "unlist", "servers", "subs", "rules">>
  BY <1>1 DEF Plans, Renaming
<1>2. CASE s = <<"put", "clear", "unlist", "servers", "subs", "rules">>
  BY <1>2 DEF Plans, Renaming
<1>3. CASE s = <<"clear", "unlist", "servers", "subs", "rules">>
  BY <1>3 DEF Plans, Renaming
<1>4. CASE s = <<"unlist", "servers", "subs", "rules">>
  BY <1>4 DEF Plans, Renaming
<1>5. CASE s = <<"servers", "subs", "rules">>
  BY <1>5 DEF Plans, Renaming
<1>6. CASE s = <<"subs", "rules">>
  BY <1>6 DEF Plans, Renaming
<1>7. CASE s = <<"rules">>
  BY <1>7 DEF Plans, Renaming
<1>8. CASE s = <<"list", "put">>
  BY <1>8 DEF Plans, Renaming
<1>9. CASE s = <<"put">>
  BY <1>9 DEF Plans, Renaming
<1>10. CASE s = <<"clear", "unlist">>
  BY <1>10 DEF Plans, Renaming
<1>11. CASE s = <<"unlist">>
  BY <1>11 DEF Plans, Renaming
<1> QED BY <1>1, <1>2, <1>3, <1>4, <1>5, <1>6, <1>7, <1>8, <1>9, <1>10, <1>11 DEF Plans, Renaming

(* The lists of the requests.                                              *)
LEMMA PlanHeads ==
  /\ <<>> \notin Renaming
  /\ \A s \in {<<"list", "put">>, <<"put">>, <<"clear", "unlist">>} :
       s # <<>> /\ s \in Plans /\ s \notin Renaming
  /\ Head(<<"list", "put">>) = "list" /\ Head(<<"put">>) = "put"
  /\ Head(<<"clear", "unlist">>) = "clear"
  /\ LET s == <<"list", "put", "clear", "unlist", "servers", "subs", "rules">>
     IN  s # <<>> /\ s \in Renaming /\ s \in Plans /\ Head(s) = "list"
  BY DEF Plans, Renaming

NameJobs ==
  [todo : Plans, old : Custom \union {Outbounds!None},
   new : Custom \union {Outbounds!None}, set : Settings \union {Outbounds!None}]

(* A request that has made a transaction goes on with the rest of its      *)
(* list.                                                                   *)
LEMMA NamesDone ==
  ASSUME NamesInv, njob.todo # <<>>, Outbounds!Done
  PROVE  /\ njob' \in NameJobs
         /\ njob'.todo = <<>> => njob' = Outbounds!Idle
         /\ Len(njob.todo) = 1 => njob'.todo = <<>>
         /\ Len(njob.todo) # 1 =>
              /\ njob' = [njob EXCEPT !.todo = Tail(njob.todo)]
              /\ njob'.todo = Tail(njob.todo) /\ njob'.todo # <<>> /\ njob'.old = njob.old /\ njob'.new = njob.new
         /\ njob'.todo \in Renaming => njob.todo \in Renaming
<1>1. njob \in NameJobs
  BY DEF NamesInv, NameJobs
<1>2. Outbounds!Idle \in NameJobs /\ Outbounds!Idle.todo = <<>>
  BY DEF Outbounds!Idle, NameJobs, Plans
<1>3. <<>> \notin Renaming
  BY DEF Renaming
<1>4. CASE Len(njob.todo) = 1
  BY <1>2, <1>3, <1>4 DEF Outbounds!Done
<1>5. CASE Len(njob.todo) # 1
  <2>1. Tail(njob.todo) \in Plans /\ (Tail(njob.todo) \in Renaming => njob.todo \in Renaming)
        /\ Tail(njob.todo) # <<>>
    BY <1>1, <1>5, PlanSteps DEF NameJobs
  <2>2. njob' = [njob EXCEPT !.todo = Tail(njob.todo)]
    BY <1>5 DEF Outbounds!Done
  <2> QED BY <1>1, <1>5, <2>1, <2>2 DEF NameJobs
<1> QED BY <1>4, <1>5

(* The transaction that follows.                                           *)
Follows(label) ==
  njob'.todo # <<>> /\ Head(njob'.todo) = label /\ njob'.old = njob.old /\ njob'.new = njob.new

(* Which transaction follows which.                                        *)
LEMMA NamesFollow ==
  ASSUME NamesInv, njob.todo # <<>>, Outbounds!Done
  PROVE  /\ Head(njob.todo) = "list" => Follows("put")
         /\ Head(njob.todo) = "put" =>
              \/ Len(njob.todo) = 1
              \/ Len(njob.todo) # 1 /\ njob.todo \in Renaming /\ Follows("clear")
         /\ Head(njob.todo) = "clear" => Follows("unlist")
         /\ Head(njob.todo) = "unlist" => njob'.todo = <<>> \/ Follows("servers")
         /\ Head(njob.todo) = "servers" => Follows("subs")
         /\ Head(njob.todo) = "subs" => Follows("rules")
         /\ Head(njob.todo) = "rules" => njob'.todo = <<>>
         /\ Head(njob.todo) \in {"servers", "subs", "rules"} => njob.todo \in Renaming
<1> DEFINE s == njob.todo
<1>1. s \in Plans
  BY DEF NamesInv
<1>2. /\ Len(s) = 1 => njob'.todo = <<>>
      /\ Len(s) # 1 => /\ njob'.todo = Tail(s) /\ njob'.todo # <<>>
                       /\ njob'.old = njob.old /\ njob'.new = njob.new
  BY NamesDone
<1> DEFINE next == Head(Tail(s))
<1>3. Len(s) # 1 => Head(njob'.todo) = next
  BY <1>2
<1>4. /\ Head(s) = "list" => Len(s) # 1 /\ next = "put"
      /\ Head(s) = "put" => \/ Len(s) = 1
                            \/ s \in Renaming /\ Len(s) # 1 /\ next = "clear"
      /\ Head(s) = "clear" => Len(s) # 1 /\ next = "unlist"
      /\ Head(s) = "unlist" => \/ Len(s) = 1
                               \/ Len(s) # 1 /\ next = "servers"
      /\ Head(s) = "servers" => Len(s) # 1 /\ next = "subs"
      /\ Head(s) = "subs" => Len(s) # 1 /\ next = "rules"
      /\ Head(s) = "rules" => Len(s) = 1
      /\ Head(s) \in {"servers", "subs", "rules"} => s \in Renaming
  BY <1>1, PlanSteps
<1> HIDE DEF s, next
<1> QED BY <1>2, <1>3, <1>4 DEF Follows, s

(* A rename moves to another name.                                         *)
LEMMA Renamed ==
  ASSUME NamesInv, njob.todo \in Renaming
  PROVE  njob.new \in Outbounds!Names /\ njob.old # njob.new
  BY DEF NamesInv, Outbounds!Names

(* A request that begins has written nothing yet.                          *)
LEMMA NamesRequests ==
  ASSUME NamesInv, njob = Outbounds!Idle,
         \/ \E n \in Custom, set \in Settings :
              Outbounds!CreateOutbound(n, set) \/ Outbounds!UpdateOutbound(n, set)
         \/ \E n \in Custom : Outbounds!DeleteOutbound(n)
         \/ \E r \in AllRows, n \in Custom : Outbounds!Mention(r, n)
         \/ \E old, new \in Outbounds!Names : Outbounds!RenameOutbound(old, new)
  PROVE  NamesInv'
<1>0. Outbounds!Idle \in NameJobs /\ Outbounds!Idle.todo = <<>>
  BY PlanHeads DEF Outbounds!Idle, NameJobs, Plans
<1>1. ASSUME NEW n \in Custom, NEW set \in Settings, Outbounds!CreateOutbound(n, set)
      PROVE  NamesInv'
  <2>1. /\ njob' \in NameJobs /\ njob'.todo = <<"list", "put">> /\ njob'.new = n
        /\ UNCHANGED <<names, config, mention, owed>>
    BY <1>0, <1>1, PlanHeads DEF Outbounds!CreateOutbound, NameJobs
  <2>2. Outbounds!At("list")' /\ \A l : l # "list" => ~Outbounds!At(l)'
    BY <2>1, PlanHeads DEF Outbounds!At
  <2>3. Outbounds!KeepsConfigurations'
    BY <2>1 DEF NamesInv, Outbounds!KeepsConfigurations
  <2> QED BY <2>1, <2>2, <2>3, PlanHeads DEF NamesInv, NameJobs
<1>2. ASSUME NEW n \in Custom, NEW set \in Settings, Outbounds!UpdateOutbound(n, set)
      PROVE  NamesInv'
  <2>1. /\ njob' \in NameJobs /\ njob'.todo = <<"put">> /\ njob'.new = n /\ n \in names
        /\ UNCHANGED <<names, config, mention, owed>>
    BY <1>0, <1>2, PlanHeads DEF Outbounds!UpdateOutbound, NameJobs
  <2>2. Outbounds!At("put")' /\ \A l : l # "put" => ~Outbounds!At(l)'
    BY <2>1, PlanHeads DEF Outbounds!At
  <2>3. Outbounds!KeepsConfigurations'
    BY <2>1 DEF NamesInv, Outbounds!KeepsConfigurations
  <2> QED BY <2>1, <2>2, <2>3, PlanHeads DEF NamesInv, NameJobs
<1>3. ASSUME NEW n \in Custom, Outbounds!DeleteOutbound(n)
      PROVE  NamesInv'
  <2>1. /\ njob' \in NameJobs /\ njob'.todo = <<"clear", "unlist">> /\ njob'.old = n
        /\ owed' = {o \in owed : o.name # n} /\ UNCHANGED <<names, config, mention>>
    BY <1>0, <1>3, PlanHeads DEF Outbounds!DeleteOutbound, NameJobs
  <2>2. Outbounds!At("clear")' /\ \A l : l # "clear" => ~Outbounds!At(l)'
    BY <2>1, PlanHeads DEF Outbounds!At
  <2>3. Outbounds!KeepsConfigurations' /\ \A o \in owed' : o.name # n
    BY <2>1 DEF NamesInv, Outbounds!KeepsConfigurations
  <2> QED BY <2>1, <2>2, <2>3, PlanHeads DEF NamesInv, NameJobs
<1>4. ASSUME NEW r \in AllRows, NEW n \in Custom, Outbounds!Mention(r, n)
      PROVE  NamesInv'
  <2>1. /\ mention' = [mention EXCEPT ![r] = n] /\ UNCHANGED <<names, config, njob, owed>>
        /\ njob'.todo = <<>>
    BY <1>0, <1>4 DEF Outbounds!Mention
  <2>2. \A l : ~Outbounds!At(l)'
    BY <2>1 DEF Outbounds!At
  <2>3. mention' \in [AllRows -> Outbounds!Names]
    BY <2>1 DEF NamesInv, Outbounds!Names
  <2>4. Outbounds!KeepsConfigurations'
    BY <2>1 DEF NamesInv, Outbounds!KeepsConfigurations
  <2> QED BY <2>1, <2>2, <2>3, <2>4, PlanHeads DEF NamesInv
<1>5. ASSUME NEW old \in Outbounds!Names, NEW new \in Outbounds!Names,
             Outbounds!RenameOutbound(old, new)
      PROVE  NamesInv'
  <2>1. /\ old \in Custom /\ new \in Custom /\ old # new
        /\ config[old].set \in Settings \union {Outbounds!None}
    BY <1>5 DEF Outbounds!RenameOutbound, Outbounds!Names, NamesInv
  <2>2. /\ njob' \in NameJobs /\ njob'.new = new /\ njob'.old = old
        /\ njob'.todo = <<"list", "put", "clear", "unlist", "servers", "subs", "rules">>
        /\ UNCHANGED <<names, config, mention, owed>>
    BY <2>1, <1>5, PlanHeads DEF Outbounds!RenameOutbound, NameJobs
  <2>3. Outbounds!At("list")' /\ \A l : l # "list" => ~Outbounds!At(l)'
    BY <2>2, PlanHeads DEF Outbounds!At
  <2>4. Outbounds!KeepsConfigurations'
    BY <2>2 DEF NamesInv, Outbounds!KeepsConfigurations
  <2> QED BY <2>1, <2>2, <2>3, <2>4, PlanHeads DEF NamesInv, NameJobs
<1> QED BY <1>1, <1>2, <1>3, <1>4, <1>5

(* Each transaction leaves what the next relies on.                        *)
LEMMA NamesTransactions ==
  ASSUME NamesInv,
         \/ Outbounds!ListNew \/ Outbounds!PutNew \/ Outbounds!ClearOld \/ Outbounds!UnlistOld
         \/ Outbounds!Retarget("servers", OwnRows)
         \/ Outbounds!Retarget("subs", SubscribedRows)
         \/ Outbounds!Retarget("rules", RuleRows)
  PROVE  NamesInv' /\ (Outbounds!At("rules") => \A r \in AllRows : mention'[r] # njob.old)
<1>0. njob \in NameJobs
  BY DEF NamesInv, NameJobs
<1>1. CASE Outbounds!ListNew
  <2>1. /\ njob.todo # <<>> /\ Head(njob.todo) = "list" /\ Outbounds!Done
        /\ names' = names \union {njob.new} /\ UNCHANGED <<config, mention, owed>>
    BY <1>1 DEF Outbounds!ListNew, Outbounds!At
  <2>2. /\ njob'.todo # <<>> /\ Head(njob'.todo) = "put" /\ njob'.old = njob.old /\ njob'.new = njob.new
        /\ njob' \in NameJobs /\ (njob'.todo \in Renaming => njob.todo \in Renaming)
    BY <1>0, <2>1, NamesDone, NamesFollow DEF Follows
  <2>3. Outbounds!At("put")' /\ \A l : l # "put" => ~Outbounds!At(l)'
    BY <2>2 DEF Outbounds!At
  <2>4. njob.new \in Custom
    BY <2>1 DEF NamesInv, Outbounds!At
  <2>5. Outbounds!KeepsConfigurations'
    BY <2>1 DEF NamesInv, Outbounds!KeepsConfigurations
  <2> QED BY <2>1, <2>2, <2>3, <2>4, <2>5 DEF NamesInv, NameJobs, Outbounds!At
<1>2. CASE Outbounds!PutNew
  <2>1. /\ njob.todo # <<>> /\ Head(njob.todo) = "put" /\ Outbounds!Done
        /\ config' = [config EXCEPT ![njob.new] = [name |-> njob.new, set |-> njob.set]]
        /\ owed' = {o \in owed : o.name \notin {njob.old, njob.new}} \union
                   {[name |-> njob.new, set |-> njob.set]}
        /\ UNCHANGED <<names, mention>>
    BY <1>2 DEF Outbounds!PutNew, Outbounds!At, Outbounds!Owe
  <2>2. njob.new \in names /\ njob.new \in Custom /\ njob.new \in Outbounds!Names
    BY <2>1 DEF NamesInv, Outbounds!At, Outbounds!Names
  <2>3. config' \in [Outbounds!Names -> [name : Custom \union {Outbounds!None},
                                         set : Settings \union {Outbounds!None}]]
    BY <1>0, <2>1, <2>2 DEF NamesInv, NameJobs
  <2>4. Outbounds!KeepsConfigurations'
    BY <2>1, <2>2 DEF NamesInv, Outbounds!KeepsConfigurations
  <2>5. njob' \in NameJobs /\ (njob'.todo \in Renaming => njob.todo \in Renaming)
        /\ (njob'.todo = <<>> => njob' = Outbounds!Idle)
    BY <2>1, NamesDone
  <2>6. CASE Len(njob.todo) = 1
    <3>1. njob'.todo = <<>>
      BY <2>1, <2>6, NamesDone
    <3>2. \A l : ~Outbounds!At(l)'
      BY <3>1 DEF Outbounds!At
    <3> QED BY <2>1, <2>3, <2>4, <2>5, <3>1, <3>2, PlanHeads DEF NamesInv, NameJobs, Outbounds!At
  <2>7. CASE Len(njob.todo) # 1
    <3>1. njob.todo \in Renaming /\ njob'.todo # <<>> /\ Head(njob'.todo) = "clear"
          /\ njob'.old = njob.old /\ njob'.new = njob.new
      BY <1>0, <2>1, <2>7, NamesDone, NamesFollow DEF Follows
    <3>2. Outbounds!At("clear")' /\ \A l : l # "clear" => ~Outbounds!At(l)'
      BY <3>1 DEF Outbounds!At
    <3>3. njob.old \in Custom /\ njob.old # njob.new /\ \A o \in owed' : o.name # njob.old
      BY <2>1, <3>1 DEF NamesInv
    <3> QED BY <2>1, <2>3, <2>4, <2>5, <3>1, <3>2, <3>3 DEF NamesInv, NameJobs, Outbounds!At
  <2> QED BY <2>6, <2>7
<1>3. CASE Outbounds!ClearOld
  <2>1. /\ njob.todo # <<>> /\ Head(njob.todo) = "clear" /\ Outbounds!Done
        /\ config' = [config EXCEPT ![njob.old] = Outbounds!NoConfig]
        /\ UNCHANGED <<names, mention, owed>>
    BY <1>3 DEF Outbounds!ClearOld, Outbounds!At
  <2>2. /\ njob'.todo # <<>> /\ Head(njob'.todo) = "unlist" /\ njob'.old = njob.old /\ njob'.new = njob.new
        /\ njob' \in NameJobs /\ (njob'.todo \in Renaming => njob.todo \in Renaming)
    BY <1>0, <2>1, NamesDone, NamesFollow DEF Follows
  <2>3. Outbounds!At("unlist")' /\ \A l : l # "unlist" => ~Outbounds!At(l)'
    BY <2>2 DEF Outbounds!At
  <2>4. njob.old \in Custom /\ \A o \in owed : o.name # njob.old
    BY <2>1 DEF NamesInv, Outbounds!At
  <2>5. config' \in [Outbounds!Names -> [name : Custom \union {Outbounds!None},
                                         set : Settings \union {Outbounds!None}]]
    BY <2>1 DEF NamesInv, Outbounds!NoConfig
  <2>6. Outbounds!KeepsConfigurations'
    BY <2>1, <2>4 DEF NamesInv, Outbounds!KeepsConfigurations
  <2> QED BY <2>1, <2>2, <2>3, <2>4, <2>5, <2>6 DEF NamesInv, NameJobs, Outbounds!At
<1>4. CASE Outbounds!UnlistOld
  <2>1. /\ njob.todo # <<>> /\ Head(njob.todo) = "unlist" /\ Outbounds!Done
        /\ names' = names \ {njob.old} /\ UNCHANGED <<config, mention, owed>>
    BY <1>4 DEF Outbounds!UnlistOld, Outbounds!At
  <2>2. \A o \in owed : o.name # njob.old
    BY <2>1 DEF NamesInv, Outbounds!At
  <2>3. Outbounds!KeepsConfigurations'
    BY <2>1, <2>2 DEF NamesInv, Outbounds!KeepsConfigurations
  <2>4. njob' \in NameJobs /\ (njob'.todo \in Renaming => njob.todo \in Renaming)
        /\ (njob'.todo = <<>> => njob' = Outbounds!Idle)
    BY <2>1, NamesDone
  <2>5. njob'.todo = <<>> \/ (/\ njob'.todo # <<>> /\ Head(njob'.todo) = "servers"
                              /\ njob'.old = njob.old /\ njob'.new = njob.new)
    BY <1>0, <2>1, NamesDone, NamesFollow DEF Follows
  <2>6. /\ \A l : l # "servers" => ~Outbounds!At(l)'
        /\ njob'.todo = <<>> => ~Outbounds!At("servers")'
    BY <2>5 DEF Outbounds!At
  <2> QED BY <2>1, <2>3, <2>4, <2>5, <2>6, PlanHeads DEF NamesInv, NameJobs, Outbounds!At
<1>5. CASE Outbounds!Retarget("servers", OwnRows)
  <2>1. /\ njob.todo # <<>> /\ Head(njob.todo) = "servers" /\ Outbounds!Done
        /\ mention' = [r \in AllRows |->
             IF r \in OwnRows /\ mention[r] = njob.old THEN njob.new ELSE mention[r]]
        /\ UNCHANGED <<names, config, owed>>
    BY <1>5 DEF Outbounds!Retarget, Outbounds!At, AllRows
  <2>2. /\ njob'.todo # <<>> /\ Head(njob'.todo) = "subs" /\ njob'.old = njob.old /\ njob'.new = njob.new
        /\ njob' \in NameJobs /\ (njob'.todo \in Renaming => njob.todo \in Renaming)
        /\ njob.todo \in Renaming
    BY <1>0, <2>1, NamesDone, NamesFollow DEF Follows
  <2>3. Outbounds!At("subs")' /\ \A l : l # "subs" => ~Outbounds!At(l)'
    BY <2>2 DEF Outbounds!At
  <2>4. mention' \in [AllRows -> Outbounds!Names] /\ \A r \in OwnRows : mention'[r] # njob.old
    BY <1>0, <2>1, <2>2, Renamed DEF NamesInv, NameJobs, AllRows
  <2>5. Outbounds!KeepsConfigurations'
    BY <2>1 DEF NamesInv, Outbounds!KeepsConfigurations
  <2> QED BY <2>1, <2>2, <2>3, <2>4, <2>5 DEF NamesInv, NameJobs, Outbounds!At
<1>6. CASE Outbounds!Retarget("subs", SubscribedRows)
  <2>1. /\ njob.todo # <<>> /\ Head(njob.todo) = "subs" /\ Outbounds!Done
        /\ mention' = [r \in AllRows |->
             IF r \in SubscribedRows /\ mention[r] = njob.old THEN njob.new ELSE mention[r]]
        /\ UNCHANGED <<names, config, owed>>
    BY <1>6 DEF Outbounds!Retarget, Outbounds!At, AllRows
  <2>2. /\ njob'.todo # <<>> /\ Head(njob'.todo) = "rules" /\ njob'.old = njob.old /\ njob'.new = njob.new
        /\ njob' \in NameJobs /\ (njob'.todo \in Renaming => njob.todo \in Renaming)
        /\ njob.todo \in Renaming
    BY <1>0, <2>1, NamesDone, NamesFollow DEF Follows
  <2>3. Outbounds!At("rules")' /\ \A l : l # "rules" => ~Outbounds!At(l)'
    BY <2>2 DEF Outbounds!At
  <2>4. /\ \A r \in OwnRows : mention[r] # njob.old
        /\ ~Outbounds!At("rules")
    BY <2>1 DEF NamesInv, Outbounds!At
  <2>5. /\ mention' \in [AllRows -> Outbounds!Names]
        /\ \A r \in OwnRows \union SubscribedRows : mention'[r] # njob.old
    BY <1>0, <2>1, <2>2, <2>4, Renamed DEF NamesInv, NameJobs, AllRows
  <2>6. Outbounds!KeepsConfigurations'
    BY <2>1 DEF NamesInv, Outbounds!KeepsConfigurations
  <2> QED BY <2>1, <2>2, <2>3, <2>4, <2>5, <2>6 DEF NamesInv, NameJobs, Outbounds!At
<1>7. CASE Outbounds!Retarget("rules", RuleRows)
  <2>1. /\ njob.todo # <<>> /\ Head(njob.todo) = "rules" /\ Outbounds!Done
        /\ mention' = [r \in AllRows |->
             IF r \in RuleRows /\ mention[r] = njob.old THEN njob.new ELSE mention[r]]
        /\ UNCHANGED <<names, config, owed>>
    BY <1>7 DEF Outbounds!Retarget, Outbounds!At, AllRows
  <2>2. /\ njob'.todo = <<>> /\ njob' = Outbounds!Idle /\ njob' \in NameJobs
        /\ njob.todo \in Renaming
    BY <1>0, <2>1, NamesDone, NamesFollow DEF Follows
  <2>3. \A l : ~Outbounds!At(l)'
    BY <2>2 DEF Outbounds!At
  <2>4. \A r \in OwnRows \union SubscribedRows : mention[r] # njob.old
    BY <2>1 DEF NamesInv, Outbounds!At
  <2>5. /\ mention' \in [AllRows -> Outbounds!Names]
        /\ \A r \in AllRows : mention'[r] # njob.old
    BY <1>0, <2>1, <2>2, <2>4, Renamed DEF NamesInv, NameJobs, AllRows
  <2>6. Outbounds!KeepsConfigurations'
    BY <2>1 DEF NamesInv, Outbounds!KeepsConfigurations
  <2> QED BY <2>1, <2>2, <2>3, <2>5, <2>6, PlanHeads DEF NamesInv, NameJobs
<1> QED BY <1>1, <1>2, <1>3, <1>4, <1>5, <1>6, <1>7

(* No request is under way at first, and nothing names an outbound that is *)
(* not there.                                                              *)
LEMMA NamesInit == Outbounds!Init => NamesInv
<1> SUFFICES ASSUME Outbounds!Init PROVE NamesInv
  OBVIOUS
<1>1. Outbounds!Idle \in NameJobs /\ Outbounds!Idle.todo = <<>>
  BY PlanHeads DEF Outbounds!Idle, NameJobs, Plans
<1>2. \A l : ~Outbounds!At(l)
  BY <1>1 DEF Outbounds!Init, Outbounds!At
<1> QED BY <1>1, <1>2, PlanHeads
        DEF Outbounds!Init, NamesInv, NameJobs, Outbounds!KeepsConfigurations, Outbounds!NoConfig,
            Outbounds!Names, AllRows

(* Every step keeps the configurations and what names them.                *)
LEMMA NamesNext == NamesInv /\ [Outbounds!Next]_outbounds => NamesInv' /\ Outbounds!MovesMentions
<1> SUFFICES ASSUME NamesInv, [Outbounds!Next]_outbounds
             PROVE  NamesInv' /\ Outbounds!MovesMentions
  OBVIOUS
<1>1. Outbounds!MovesMentions
  BY NamesTransactions DEF Outbounds!MovesMentions, Outbounds!Retarget, AllRows
<1>2. CASE \/ \E n \in Custom, set \in Settings :
                Outbounds!CreateOutbound(n, set) \/ Outbounds!UpdateOutbound(n, set)
           \/ \E n \in Custom : Outbounds!DeleteOutbound(n)
           \/ \E r \in AllRows, n \in Custom : Outbounds!Mention(r, n)
           \/ \E old, new \in Outbounds!Names : Outbounds!RenameOutbound(old, new)
  <2>1. njob = Outbounds!Idle
    BY <1>2, Zenon DEF Outbounds!CreateOutbound, Outbounds!UpdateOutbound, Outbounds!DeleteOutbound,
                Outbounds!Mention, Outbounds!RenameOutbound, Outbounds!Quiet
  <2> QED BY <1>1, <1>2, <2>1, NamesRequests
<1>3. CASE \/ Outbounds!ListNew \/ Outbounds!PutNew \/ Outbounds!ClearOld \/ Outbounds!UnlistOld
           \/ Outbounds!Retarget("servers", OwnRows)
           \/ Outbounds!Retarget("subs", SubscribedRows)
           \/ Outbounds!Retarget("rules", RuleRows)
  BY <1>1, <1>3, NamesTransactions
<1>4. CASE Outbounds!Crash
  <2>1. njob' = Outbounds!Idle /\ Outbounds!Idle.todo = <<>> /\ UNCHANGED <<names, config, mention, owed>>
    BY <1>4 DEF Outbounds!Crash, Outbounds!Idle
  <2>2. Outbounds!Idle \in NameJobs /\ \A l : ~Outbounds!At(l)'
    BY <2>1, PlanHeads DEF Outbounds!At, Outbounds!Idle, NameJobs, Plans
  <2>3. Outbounds!KeepsConfigurations'
    BY <2>1 DEF NamesInv, Outbounds!KeepsConfigurations
  <2> QED BY <1>1, <2>1, <2>2, <2>3, PlanHeads DEF NamesInv, NameJobs
<1>5. CASE UNCHANGED outbounds
  BY <1>1, <1>5 DEF outbounds, NamesInv, Outbounds!At, Outbounds!KeepsConfigurations
<1> QED BY <1>2, <1>3, <1>4, <1>5 DEF Outbounds!Next, AllRows

(* "A rename must not lose the configuration" (outbound_rename_test.go:48),*)
(* at whichever transaction the process dies, and nothing names the old    *)
(* outbound when it is through; with any number of outbounds, nodes,       *)
(* subscriptions and rules.                                                *)
THEOREM RenameKeepsAll == Spec => RenameLosesNothing
<1>1. Init => (part = "outbounds" => NamesInv)
  BY NamesInit DEF Init
<1>2. (part = "outbounds" => NamesInv)
      /\ [Next]_<<part, lists, sidecars, outbounds, web, scores, dns, files>>
      => /\ (part = "outbounds" => NamesInv)'
         /\ [part = "outbounds" => Outbounds!MovesMentions]_outbounds
  <2> SUFFICES ASSUME part = "outbounds", NamesInv,
                      [Next]_<<part, lists, sidecars, outbounds, web, scores, dns, files>>
               PROVE  NamesInv' /\ Outbounds!MovesMentions
    BY DEF Next
  <2> QED BY NamesNext DEF Next, StoreParts, SidecarParts
<1>3. (part = "outbounds" => NamesInv) => (part = "outbounds" => Outbounds!KeepsConfigurations)
  <2>1. NamesInv => Outbounds!KeepsConfigurations
    BY Zenon DEF NamesInv
  <2> QED BY <2>1, Zenon
<1> QED BY <1>1, <1>2, <1>3, PTL DEF Spec, RenameLosesNothing

-----------------------------------------------------------------------------
(* The sessions.  A request that is about to renew one holds the lock, has *)
(* found the session stale under it, and nothing but the holder of the     *)
(* lock writes a session that exists.  The order of its steps is that of   *)
(* its list.                                                               *)
Labels == {"login", "get", "drop", "lock", "reread", "renew", "logout",
           "setting", "put", "load", "cache", "clear"}
LaterLabels == {"setting", "put", "load", "cache", "clear", "logout"}
Ordered(s) ==
  \A k \in 1 .. Len(s) :
    /\ s[k] = "renew" /\ k > 1 => s[k - 1] = "reread"
    /\ s[k] = "reread" /\ k > 1 => s[k - 1] = "lock"
    /\ s[k] = "reread" => k < Len(s) /\ s[k + 1] = "renew"
    /\ s[k] = "get" => k + 3 <= Len(s) /\ s[k + 3] = "renew"
    /\ s[k] = "login" => Len(s) = 1

Forms == [user : Users \union {Web!None}, pw : Passwords \union {Web!None}]
Sessions == [user : Users \union {Web!None}, age : Web!Ages]
WebJobs == [todo : Seq(Labels), id : Ids \union {Web!None}, read : Sessions,
            set : Forms, cached : Forms]

WebTypes ==
  /\ stored \in Forms /\ cache \in Forms
  /\ session \in [Ids -> Sessions]
  /\ drawn \in SUBSET Ids /\ revoked \in SUBSET drawn
  /\ wjob \in [Requests -> WebJobs]

RequestInv(r) ==
  /\ Ordered(wjob[r].todo)
  /\ wjob[r].todo # <<>> => wjob[r].id \in drawn \/ Web!At(r, "login")
  /\ Web!At(r, "reread") \/ Web!At(r, "renew") => lock = r
  /\ Web!At(r, "renew") =>
       /\ wjob[r].id \notin revoked
       /\ session[wjob[r].id] # Web!Nobody => session[wjob[r].id].age = "stale"

WebInv ==
  /\ WebTypes
  /\ \A i \in revoked : session[i] = Web!Nobody
  /\ \A r \in Requests : RequestInv(r)

(* Places in what is left of a list.                                       *)
LEMMA Shift ==
  ASSUME NEW l \in Nat, NEW n \in 1 .. l - 1, NEW m \in Nat, m = l - n, NEW k \in 1 .. m
  PROVE  /\ k + n \in 1 .. l /\ k + n > 1
         /\ k > 1 => k - 1 \in 1 .. m /\ (k - 1) + n = k + n - 1
         /\ k + n < l => k + 1 \in 1 .. m /\ (k + 1) + n = k + n + 1 /\ k < m
         /\ k + n + 3 <= l => k + 3 \in 1 .. m /\ (k + 3) + n = k + n + 3 /\ k + 3 <= m
<1>1. n \in Nat /\ n >= 1 /\ k \in Nat /\ k >= 1 /\ k <= m /\ m + n = l
  OBVIOUS
<1>2. k + n \in 1 .. l /\ k + n > 1
  BY <1>1
<1>3. k > 1 => k - 1 \in 1 .. m /\ (k - 1) + n = k + n - 1
  BY <1>1
<1>4. k + n < l => k + 1 \in 1 .. m /\ (k + 1) + n = k + n + 1 /\ k < m
  BY <1>1
<1>5. k + n + 3 <= l => k + 3 \in 1 .. m /\ (k + 3) + n = k + n + 3 /\ k + 3 <= m
  BY <1>1
<1> QED BY <1>2, <1>3, <1>4, <1>5, Zenon

(* What is left of an ordered list is ordered, and does not begin with the *)
(* steps under the lock unless the list did.                               *)
LEMMA OrderedRest ==
  ASSUME NEW s \in Seq(Labels), Ordered(s), NEW n \in 1 .. Len(s) - 1
  PROVE  /\ SubSeq(s, n + 1, Len(s)) \in Seq(Labels)
         /\ Ordered(SubSeq(s, n + 1, Len(s)))
         /\ SubSeq(s, n + 1, Len(s)) # <<>>
         /\ Head(SubSeq(s, n + 1, Len(s))) = s[n + 1]
         /\ s[n + 1] = "renew" => s[n] = "reread"
         /\ s[n + 1] = "reread" => s[n] = "lock"
<1> DEFINE q == SubSeq(s, n + 1, Len(s))
<1>1. /\ Len(s) \in Nat /\ n \in Nat /\ n + 1 \in 1 .. Len(s)
      /\ \A k \in 1 .. Len(s) : s[k] \in Labels
  OBVIOUS
<1>2. /\ q \in Seq(Labels) /\ Len(q) = Len(s) - n
      /\ \A k \in 1 .. Len(q) : q[k] = s[k + n]
  BY <1>1, SubSeqProperties
<1> HIDE DEF q
<1>3. q # <<>> /\ Head(q) = s[n + 1]
  BY <1>1, <1>2
<1>4. ASSUME NEW k \in 1 .. Len(q)
      PROVE  /\ q[k] = "renew" /\ k > 1 => q[k - 1] = "reread"
             /\ q[k] = "reread" /\ k > 1 => q[k - 1] = "lock"
             /\ q[k] = "reread" => k < Len(q) /\ q[k + 1] = "renew"
             /\ q[k] = "get" => k + 3 <= Len(q) /\ q[k + 3] = "renew"
             /\ q[k] = "login" => Len(q) = 1
  <2>0. Len(q) \in Nat /\ Len(s) \in Nat
    BY <1>1, <1>2
  <2>1. k + n \in 1 .. Len(s) /\ q[k] = s[k + n] /\ k + n > 1
    BY <1>2, <2>0, Shift, Zenon
  <2>2. /\ s[k + n] = "renew" => s[k + n - 1] = "reread"
        /\ s[k + n] = "reread" => s[k + n - 1] = "lock"
        /\ s[k + n] = "reread" => k + n < Len(s) /\ s[k + n + 1] = "renew"
        /\ s[k + n] = "get" => k + n + 3 <= Len(s) /\ s[k + n + 3] = "renew"
        /\ s[k + n] = "login" => Len(s) = 1
    BY <2>1 DEF Ordered
  <2>3. ASSUME k > 1 PROVE q[k - 1] = s[k + n - 1]
    <3>1. k - 1 \in 1 .. Len(q) /\ (k - 1) + n = k + n - 1
      BY <1>2, <2>0, <2>3, Shift, Zenon
    <3> QED BY <1>2, <3>1
  <2>4. ASSUME k + n < Len(s) PROVE k < Len(q) /\ q[k + 1] = s[k + n + 1]
    <3>1. k + 1 \in 1 .. Len(q) /\ (k + 1) + n = k + n + 1 /\ k < Len(q)
      BY <1>2, <2>0, <2>4, Shift, Zenon
    <3> QED BY <1>2, <3>1
  <2>5. ASSUME k + n + 3 <= Len(s) PROVE k + 3 <= Len(q) /\ q[k + 3] = s[k + n + 3]
    <3>1. k + 3 \in 1 .. Len(q) /\ (k + 3) + n = k + n + 3 /\ k + 3 <= Len(q)
      BY <1>2, <2>0, <2>5, Shift, Zenon
    <3> QED BY <1>2, <3>1
  <2>6. Len(s) # 1
    BY <1>1
  <2> QED BY <2>1, <2>2, <2>3, <2>4, <2>5, <2>6
<1>5. s[n + 1] = "renew" => s[n] = "reread"
  BY <1>1 DEF Ordered
<1>6. s[n + 1] = "reread" => s[n] = "lock"
  BY <1>1 DEF Ordered
<1> QED BY <1>2, <1>3, <1>4, <1>5, <1>6, Zenon DEF Ordered, q

(* A request's list: the validation of its session, and what it is for.    *)
LEMMA OrderedRequest ==
  ASSUME NEW rest \in Seq(LaterLabels)
  PROVE  /\ <<"get", "lock", "reread", "renew">> \o rest \in Seq(Labels)
         /\ Ordered(<<"get", "lock", "reread", "renew">> \o rest)
         /\ <<"get", "lock", "reread", "renew">> \o rest # <<>>
         /\ Head(<<"get", "lock", "reread", "renew">> \o rest) = "get"
<1> DEFINE b == <<"get", "lock", "reread", "renew">>
           s == b \o rest
<1>1. /\ b \in Seq(Labels) /\ Len(b) = 4
      /\ b[1] = "get" /\ b[2] = "lock" /\ b[3] = "reread" /\ b[4] = "renew"
  BY DEF Labels
<1>2. rest \in Seq(Labels) /\ Len(rest) \in Nat /\ \A k \in 1 .. Len(rest) : rest[k] \in LaterLabels
  BY DEF Labels, LaterLabels
<1> HIDE DEF b
<1>3. /\ s \in Seq(Labels) /\ Len(s) = 4 + Len(rest)
      /\ \A k \in 1 .. Len(b) + Len(rest) :
           s[k] = IF k <= Len(b) THEN b[k] ELSE rest[k - Len(b)]
  <2>1. b \in Seq(Labels) /\ rest \in Seq(Labels)
    BY <1>1, <1>2
  <2>2. s \in Seq(Labels) /\ Len(s) = Len(b) + Len(rest)
    BY <2>1, ConcatProperties
  <2>3. \A k \in 1 .. Len(b) + Len(rest) :
          s[k] = IF k <= Len(b) THEN b[k] ELSE rest[k - Len(b)]
    BY <2>1, ConcatProperties, Zenon
  <2> QED BY <1>1, <2>2, <2>3
<1> HIDE DEF s
<1>4. /\ s[1] = "get" /\ s[2] = "lock" /\ s[3] = "reread" /\ s[4] = "renew"
      /\ \A k \in 5 .. Len(s) : s[k] \in LaterLabels
  BY <1>1, <1>2, <1>3
<1>5. ASSUME NEW k \in 1 .. Len(s)
      PROVE  /\ s[k] = "renew" /\ k > 1 => s[k - 1] = "reread"
             /\ s[k] = "reread" /\ k > 1 => s[k - 1] = "lock"
             /\ s[k] = "reread" => k < Len(s) /\ s[k + 1] = "renew"
             /\ s[k] = "get" => k + 3 <= Len(s) /\ s[k + 3] = "renew"
             /\ s[k] = "login" => Len(s) = 1
  <2>1. CASE k = 1
    BY <1>2, <1>3, <1>4, <2>1
  <2>2. CASE k = 2
    BY <1>4, <2>2
  <2>3. CASE k = 3
    BY <1>2, <1>3, <1>4, <2>3
  <2>4. CASE k = 4
    BY <1>4, <2>4
  <2>5. CASE k \in 5 .. Len(s)
    BY <1>4, <2>5 DEF LaterLabels
  <2> QED BY <1>2, <1>3, <2>1, <2>2, <2>3, <2>4, <2>5
<1>6. s # <<>> /\ Head(s) = "get"
  BY <1>2, <1>3, <1>4
<1> QED BY <1>3, <1>5, <1>6 DEF Ordered, s, b

(* What a request is for comes after the validation of its session.        *)
LEMMA RestLabels ==
  /\ <<>> \in Seq(LaterLabels) /\ <<"logout">> \in Seq(LaterLabels)
  /\ Web!Put \in Seq(LaterLabels) /\ Web!Put \o <<"clear", "logout">> \in Seq(LaterLabels)
<1>1. /\ <<>> \in Seq(LaterLabels) /\ <<"logout">> \in Seq(LaterLabels)
      /\ Web!Put \in Seq(LaterLabels) /\ <<"clear", "logout">> \in Seq(LaterLabels)
  BY DEF LaterLabels, Web!Put
<1> QED BY <1>1, ConcatProperties

(* An idle request, a session that is none, and the shortest lists.        *)
LEMMA WebShape ==
  /\ Web!Idle \in WebJobs /\ Web!Idle.todo = <<>> /\ Web!Idle.id = Web!None
  /\ Web!Nobody \in Sessions /\ Web!Nobody.age = "old"
  /\ Ordered(<<>>)
  /\ \A l \in {"drop", "login"} :
       Ordered(<<l>>) /\ <<l>> \in Seq(Labels) /\ <<l>> # <<>> /\ Head(<<l>>) = l
<1>1. Web!Nobody \in Sessions /\ Web!Nobody.age = "old"
  BY DEF Web!Nobody, Sessions, Web!Ages
<1>2. Web!Idle \in WebJobs /\ Web!Idle.todo = <<>> /\ Web!Idle.id = Web!None
  BY <1>1 DEF Web!Idle, WebJobs, Forms
<1>3. Ordered(<<>>)
  BY DEF Ordered
<1>4. ASSUME NEW l \in {"drop", "login"}
      PROVE  Ordered(<<l>>) /\ <<l>> \in Seq(Labels) /\ <<l>> # <<>> /\ Head(<<l>>) = l
  BY DEF Ordered, Labels
<1> QED BY <1>1, <1>2, <1>3, <1>4

(* The request that moves on to what is left after n steps.                *)
LEMMA WebRest ==
  ASSUME WebInv, NEW r \in Requests, NEW n \in 1 .. Len(wjob[r].todo) - 1, NEW j \in WebJobs,
         j.todo = SubSeq(wjob[r].todo, n + 1, Len(wjob[r].todo)), j.id = wjob[r].id,
         wjob' = [wjob EXCEPT ![r] = j]
  PROVE  /\ wjob' \in [Requests -> WebJobs] /\ wjob'[r] = j
         /\ \A q \in Requests \ {r} : wjob'[q] = wjob[q]
         /\ Ordered(wjob'[r].todo)
         /\ wjob'[r].id \in drawn
         /\ Web!At(r, "renew")' => wjob[r].todo[n] = "reread"
         /\ Web!At(r, "reread")' => wjob[r].todo[n] = "lock"
<1> DEFINE s == wjob[r].todo
<1>1. wjob \in [Requests -> WebJobs] /\ s \in Seq(Labels) /\ Ordered(s)
  BY DEF WebInv, WebTypes, WebJobs, RequestInv
<1>2. wjob' \in [Requests -> WebJobs] /\ wjob'[r] = j /\ \A q \in Requests \ {r} : wjob'[q] = wjob[q]
  BY <1>1
<1>3. /\ Ordered(j.todo) /\ Head(j.todo) = s[n + 1]
      /\ s[n + 1] = "renew" => s[n] = "reread"
      /\ s[n + 1] = "reread" => s[n] = "lock"
  <2> HIDE DEF s
  <2>1. j.todo = SubSeq(s, n + 1, Len(s)) /\ n \in 1 .. Len(s) - 1
    BY DEF s
  <2>2. /\ Ordered(SubSeq(s, n + 1, Len(s))) /\ Head(SubSeq(s, n + 1, Len(s))) = s[n + 1]
        /\ s[n + 1] = "renew" => s[n] = "reread"
        /\ s[n + 1] = "reread" => s[n] = "lock"
    BY <1>1, <2>1, OrderedRest
  <2> QED BY <2>1, <2>2
<1>4. wjob[r].id \in drawn
  <2>1. s # <<>> /\ Len(s) \in Nat /\ Len(s) # 1
    BY <1>1, SMTT(30)
  <2>2. ~Web!At(r, "login")
    BY <1>1, <2>1 DEF Web!At, Ordered
  <2> QED BY <2>1, <2>2 DEF WebInv, RequestInv
<1> QED BY <1>2, <1>3, <1>4 DEF Web!At

(* A request that has made its step goes on with the rest of its list.     *)
LEMMA WebDone ==
  ASSUME WebInv, NEW r \in Requests, NEW known \in WebJobs, wjob[r].todo # <<>>,
         known.todo = wjob[r].todo, known.id = wjob[r].id, Web!Done(r, known)
  PROVE  /\ wjob' \in [Requests -> WebJobs]
         /\ \A q \in Requests \ {r} : wjob'[q] = wjob[q]
         /\ Ordered(wjob'[r].todo)
         /\ wjob'[r].todo # <<>> => wjob'[r].id \in drawn /\ wjob'[r].id = wjob[r].id
         /\ Web!At(r, "renew")' => Web!At(r, "reread")
         /\ Web!At(r, "reread")' => Web!At(r, "lock")
<1> DEFINE s == wjob[r].todo
<1>1. wjob \in [Requests -> WebJobs] /\ s \in Seq(Labels) /\ Len(s) \in Nat \ {0}
  BY DEF WebInv, WebTypes, WebJobs
<1>2. CASE Len(s) = 1
  <2>1. wjob' = [wjob EXCEPT ![r] = Web!Idle]
    BY <1>2 DEF Web!Done
  <2> QED BY <1>1, <2>1, WebShape DEF Web!At
<1>3. CASE Len(s) # 1
  <2> DEFINE j == [known EXCEPT !.todo = Tail(s)]
  <2>1. wjob' = [wjob EXCEPT ![r] = j]
    BY <1>3 DEF Web!Done
  <2>2. 1 \in 1 .. Len(s) - 1 /\ Tail(s) = SubSeq(s, 1 + 1, Len(s)) /\ s[1] = Head(s)
    <3>1. s # <<>> /\ s[1] = Head(s)
      BY <1>1
    <3>2. Tail(s) = SubSeq(s, 2, Len(s))
      BY <1>1, <3>1, TailIsSubSeq
    <3> HIDE DEF s
    <3>3. 1 + 1 = 2 /\ 1 \in 1 .. Len(s) - 1
      <4>1. 1 + 1 = 2 /\ \A n \in Nat \ {0} : n # 1 => 1 \in 1 .. n - 1
        OBVIOUS
      <4> QED BY <1>1, <1>3, <4>1, Zenon
    <3>4. Tail(s) = SubSeq(s, 1 + 1, Len(s))
      BY <3>2, <3>3, Zenon
    <3> QED BY <3>1, <3>3, <3>4, Zenon
  <2>3. Tail(s) \in Seq(Labels)
    BY <1>1, <1>3
  <2>4. j \in WebJobs /\ j.todo = Tail(s) /\ j.id = wjob[r].id
    BY <2>3 DEF WebJobs
  <2> HIDE DEF j
  <2>5. /\ wjob' \in [Requests -> WebJobs] /\ wjob'[r] = j
        /\ \A q \in Requests \ {r} : wjob'[q] = wjob[q]
        /\ Ordered(wjob'[r].todo)
        /\ wjob'[r].id \in drawn
        /\ Web!At(r, "renew")' => s[1] = "reread"
        /\ Web!At(r, "reread")' => s[1] = "lock"
    <3>1. j.todo = SubSeq(wjob[r].todo, 1 + 1, Len(wjob[r].todo))
          /\ 1 \in 1 .. Len(wjob[r].todo) - 1
      BY <2>2, <2>4
    <3> QED BY <2>1, <2>4, <3>1, WebRest
  <2> QED BY <2>2, <2>4, <2>5 DEF Web!At
<1> QED BY <1>2, <1>3

(* A request that has nothing to renew goes on with what it is for.        *)
LEMMA WebSkip ==
  ASSUME WebInv, NEW r \in Requests, NEW n \in 1 .. Len(wjob[r].todo), Web!Skip(r, n),
         wjob[r].todo[n] = "renew"
  PROVE  /\ wjob' \in [Requests -> WebJobs]
         /\ \A q \in Requests \ {r} : wjob'[q] = wjob[q]
         /\ Ordered(wjob'[r].todo)
         /\ wjob'[r].todo # <<>> => wjob'[r].id \in drawn
         /\ ~Web!At(r, "renew")' /\ ~Web!At(r, "reread")'
<1> DEFINE s == wjob[r].todo
<1>1. wjob \in [Requests -> WebJobs] /\ wjob[r] \in WebJobs /\ s \in Seq(Labels) /\ Len(s) \in Nat
  BY DEF WebInv, WebTypes, WebJobs
<1>2. CASE Len(s) = n
  <2>1. wjob' = [wjob EXCEPT ![r] = Web!Idle]
    BY <1>2 DEF Web!Skip
  <2> QED BY <1>1, <2>1, WebShape DEF Web!At
<1>3. CASE Len(s) # n
  <2> DEFINE j == [wjob[r] EXCEPT !.todo = SubSeq(s, n + 1, Len(s)), !.read = Web!Nobody]
  <2>1. wjob' = [wjob EXCEPT ![r] = j]
    BY <1>1, <1>3 DEF Web!Skip
  <2>2. n \in 1 .. Len(s) - 1
    BY <1>1, <1>3
  <2>3. SubSeq(s, n + 1, Len(s)) \in Seq(Labels)
    BY <1>1, <2>2, OrderedRest DEF WebInv, RequestInv
  <2>4. j \in WebJobs /\ j.todo = SubSeq(s, n + 1, Len(s)) /\ j.id = wjob[r].id
    BY <1>1, <2>3, WebShape DEF WebJobs
  <2> HIDE DEF j
  <2>5. /\ wjob' \in [Requests -> WebJobs]
        /\ \A q \in Requests \ {r} : wjob'[q] = wjob[q]
        /\ Ordered(wjob'[r].todo)
        /\ wjob'[r].id \in drawn
        /\ Web!At(r, "renew")' => s[n] = "reread"
        /\ Web!At(r, "reread")' => s[n] = "lock"
    BY <2>1, <2>2, <2>4, WebRest
  <2> QED BY <2>5
<1> QED BY <1>2, <1>3

(* What one request does leaves the invariant of the others if it leaves   *)
(* them the lock, and the session that one of them is about to renew.      *)
LEMMA WebOthers ==
  ASSUME WebInv, NEW r \in Requests, WebTypes', RequestInv(r)',
         \A q \in Requests \ {r} : wjob'[q] = wjob[q],
         drawn \subseteq drawn',
         \A i \in revoked' : session'[i] = Web!Nobody,
         \A q \in Requests \ {r} : lock = q => lock' = q,
         \A q \in Requests \ {r} : Web!At(q, "renew") =>
           /\ wjob[q].id \notin revoked'
           /\ session'[wjob[q].id] # Web!Nobody => session'[wjob[q].id].age = "stale"
  PROVE  WebInv'
<1>1. ASSUME NEW q \in Requests \ {r} PROVE RequestInv(q)'
  <2>1. \A l : Web!At(q, l)' <=> Web!At(q, l)
    BY DEF Web!At
  <2>2. RequestInv(q)
    BY DEF WebInv
  <2> QED BY <2>1, <2>2 DEF RequestInv
<1> QED BY <1>1 DEF WebInv

(* A step of the request r that changes neither sessions nor the lock.     *)
LEMMA WebOwn ==
  ASSUME WebInv, NEW r \in Requests, wjob' \in [Requests -> WebJobs], RequestInv(r)',
         \A q \in Requests \ {r} : wjob'[q] = wjob[q],
         stored' \in Forms, cache' \in Forms, UNCHANGED <<session, drawn, revoked>>,
         \A q \in Requests \ {r} : lock = q => lock' = q
  PROVE  WebInv'
<1>1. WebTypes'
  BY DEF WebInv, WebTypes
<1>2. \A q \in Requests : Web!At(q, "renew") =>
        /\ wjob[q].id \notin revoked
        /\ session[wjob[q].id] # Web!Nobody => session[wjob[q].id].age = "stale"
  BY DEF WebInv, RequestInv
<1>3. \A i \in revoked' : session'[i] = Web!Nobody
  BY DEF WebInv
<1> QED BY <1>1, <1>2, <1>3, WebOthers

(* One that leaves nothing to do asks nothing of the rest.                 *)
LEMMA WebIdle ==
  ASSUME NEW r, wjob'[r] = Web!Idle
  PROVE  RequestInv(r)'
<1>1. \A l : ~Web!At(r, l)'
  BY WebShape DEF Web!At
<1> QED BY <1>1, WebShape DEF RequestInv

(* A request that is refused has nothing left to do.                       *)
LEMMA WebLeave ==
  ASSUME WebInv, NEW r \in Requests, Web!Leave(r)
  PROVE  /\ wjob' \in [Requests -> WebJobs] /\ RequestInv(r)'
         /\ \A q \in Requests \ {r} : wjob'[q] = wjob[q]
<1>1. wjob' = [wjob EXCEPT ![r] = Web!Idle] /\ wjob \in [Requests -> WebJobs]
  BY DEF Web!Leave, WebInv, WebTypes
<1> QED BY <1>1, WebShape, WebIdle

(* A request that goes on with a later step: it neither holds the lock nor *)
(* needs it.                                                               *)
LEMMA WebLater ==
  ASSUME WebInv, NEW r \in Requests, NEW known \in WebJobs, wjob[r].todo # <<>>,
         known.todo = wjob[r].todo, known.id = wjob[r].id, Web!Done(r, known),
         Head(wjob[r].todo) \notin {"lock", "reread"}, UNCHANGED drawn
  PROVE  /\ wjob' \in [Requests -> WebJobs] /\ RequestInv(r)'
         /\ \A q \in Requests \ {r} : wjob'[q] = wjob[q]
<1>1. /\ wjob' \in [Requests -> WebJobs] /\ Ordered(wjob'[r].todo)
      /\ wjob'[r].todo # <<>> => wjob'[r].id \in drawn
      /\ ~Web!At(r, "renew")' /\ ~Web!At(r, "reread")'
      /\ \A q \in Requests \ {r} : wjob'[q] = wjob[q]
  BY WebDone DEF Web!At
<1> QED BY <1>1 DEF RequestInv

(* A session that is not valid is dropped next.                            *)
LEMMA WebDropping ==
  ASSUME WebInv, NEW r \in Requests, wjob[r].id \in drawn, UNCHANGED drawn,
         wjob' = [wjob EXCEPT ![r].todo = <<"drop">>]
  PROVE  /\ wjob' \in [Requests -> WebJobs] /\ RequestInv(r)'
         /\ \A q \in Requests \ {r} : wjob'[q] = wjob[q]
<1> DEFINE j == [wjob[r] EXCEPT !.todo = <<"drop">>]
<1>1. wjob \in [Requests -> WebJobs] /\ j \in WebJobs /\ j.todo = <<"drop">> /\ j.id = wjob[r].id
  BY WebShape DEF WebInv, WebTypes, WebJobs
<1>2. wjob' = [wjob EXCEPT ![r] = j]
  BY <1>1
<1> HIDE DEF j
<1>3. /\ wjob' \in [Requests -> WebJobs] /\ wjob'[r] = j
      /\ \A q \in Requests \ {r} : wjob'[q] = wjob[q]
  BY <1>1, <1>2
<1>4. ~Web!At(r, "reread")' /\ ~Web!At(r, "renew")'
  BY <1>1, <1>3, WebShape DEF Web!At
<1> QED BY <1>1, <1>3, <1>4, WebShape DEF RequestInv

(* A step of r that takes sessions back.                                   *)
LEMMA WebRevokes ==
  ASSUME WebInv, NEW r \in Requests, wjob' \in [Requests -> WebJobs], RequestInv(r)',
         \A q \in Requests \ {r} : wjob'[q] = wjob[q],
         \/ session' = [session EXCEPT ![wjob[r].id] = Web!Nobody]
         \/ session' = [i \in Ids |-> Web!Nobody],
         \/ UNCHANGED revoked
         \/ lock = Web!None /\ revoked' = revoked \union {wjob[r].id} /\ wjob[r].id \in drawn
            /\ session' = [session EXCEPT ![wjob[r].id] = Web!Nobody]
         \/ lock = Web!None /\ revoked' = revoked \union drawn
            /\ session' = [i \in Ids |-> Web!Nobody],
         \A q \in Requests \ {r} : lock = q => lock' = q,
         UNCHANGED <<stored, cache, drawn>>
  PROVE  WebInv'
<1>0. WebTypes /\ Web!None \notin Requests
  BY PartsAssumption DEF PartsAssumption, Web!AccessAssumption, WebInv
<1>1. session' \in [Ids -> Sessions]
  BY <1>0, WebShape DEF WebTypes
<1>2. \A i \in Ids : session'[i] = session[i] \/ session'[i] = Web!Nobody
  BY <1>0 DEF WebTypes
<1>3. revoked' \subseteq drawn
  BY <1>0 DEF WebTypes
<1>4. WebTypes'
  BY <1>0, <1>1, <1>3 DEF WebTypes
<1>5. \A i \in revoked' : session'[i] = Web!Nobody
  BY <1>0, <1>2 DEF WebInv, WebTypes
<1>6. ASSUME NEW q \in Requests \ {r}, Web!At(q, "renew")
      PROVE  /\ wjob[q].id \notin revoked'
             /\ session'[wjob[q].id] # Web!Nobody => session'[wjob[q].id].age = "stale"
  <2>1. RequestInv(q)
    BY DEF WebInv
  <2>2. lock = q /\ UNCHANGED revoked /\ wjob[q].id \notin revoked
    BY <1>0, <1>6, <2>1 DEF RequestInv
  <2>3. wjob[q].id \in drawn
    BY <1>6, <2>1 DEF RequestInv, Web!At
  <2> QED BY <1>0, <1>2, <1>6, <2>1, <2>2, <2>3 DEF RequestInv, WebTypes
<1> QED BY <1>4, <1>5, <1>6, WebOthers

(* No session and no request at first.                                     *)
LEMMA WebInit == Web!Init => WebInv
<1> SUFFICES ASSUME Web!Init PROVE WebInv
  OBVIOUS
<1>1. wjob = [r \in Requests |-> Web!Idle] /\ wjob \in [Requests -> WebJobs]
  BY WebShape DEF Web!Init
<1>2. \A r \in Requests : RequestInv(r)
  <2> TAKE r \in Requests
  <2>1. wjob[r].todo = <<>> /\ \A l : ~Web!At(r, l)
    BY <1>1, WebShape DEF Web!At
  <2> QED BY <2>1, WebShape DEF RequestInv
<1>3. stored \in Forms /\ cache \in Forms
  BY DEF Web!Init, Web!Credentials, Forms
<1>4. session \in [Ids -> Sessions] /\ drawn = {} /\ revoked = {}
  BY WebShape DEF Web!Init
<1> QED BY <1>1, <1>2, <1>3, <1>4 DEF WebInv, WebTypes

(* Every step keeps sessions that were taken back away from what the       *)
(* requests go on to renew.                                                *)
LEMMA WebNext == WebInv /\ [Web!Next]_web => WebInv'
<1> SUFFICES ASSUME WebInv, [Web!Next]_web PROVE WebInv'
  OBVIOUS
<1> USE DEF Web!setting
<1>0. /\ WebTypes /\ Web!None \notin Requests
      /\ \A r \in Requests : wjob[r] \in WebJobs /\ RequestInv(r)
  BY PartsAssumption DEF PartsAssumption, Web!AccessAssumption, WebInv, WebTypes
<1>1. ASSUME NEW r \in Requests, NEW typed \in Web!Credentials, Web!Login(r, typed)
      PROVE  WebInv'
  <2> DEFINE j == [Web!Idle EXCEPT !.todo = <<"login">>, !.read = [user |-> typed.user, age |-> "fresh"]]
  <2>1. j \in WebJobs /\ j.todo = <<"login">>
    BY WebShape DEF WebJobs, Sessions, Web!Credentials, Web!Ages
  <2> HIDE DEF j
  <2>2. wjob' = [wjob EXCEPT ![r] = j] /\ UNCHANGED <<stored, cache, session, lock, drawn, revoked>>
    BY <1>1 DEF Web!Login, j
  <2>3. /\ wjob' \in [Requests -> WebJobs] /\ wjob'[r] = j
        /\ \A q \in Requests \ {r} : wjob'[q] = wjob[q]
    BY <1>0, <2>1, <2>2 DEF WebTypes
  <2>4. Web!At(r, "login")' /\ ~Web!At(r, "reread")' /\ ~Web!At(r, "renew")'
    BY <2>1, <2>3, WebShape DEF Web!At
  <2>5. RequestInv(r)'
    BY <2>1, <2>3, <2>4, WebShape DEF RequestInv
  <2> QED BY <1>0, <2>2, <2>3, <2>5, WebOwn DEF WebTypes
<1>2. ASSUME NEW r \in Requests, NEW i \in Ids, Web!StoreLogin(r, i)
      PROVE  WebInv'
  <2>1. /\ i \notin drawn /\ session' = [session EXCEPT ![i] = wjob[r].read]
        /\ drawn' = drawn \union {i} /\ Web!Leave(r)
        /\ UNCHANGED <<stored, cache, lock, revoked>>
    BY <1>2 DEF Web!StoreLogin
  <2>2. /\ wjob' \in [Requests -> WebJobs] /\ RequestInv(r)'
        /\ \A q \in Requests \ {r} : wjob'[q] = wjob[q]
    BY <2>1, WebLeave
  <2>3. WebTypes'
    BY <1>0, <2>1, <2>2 DEF WebTypes, WebJobs
  <2>4. \A x \in Ids \ {i} : session'[x] = session[x]
    BY <1>0, <2>1 DEF WebTypes
  <2>5. \A x \in revoked' : session'[x] = Web!Nobody
    BY <1>0, <2>1, <2>4 DEF WebInv, WebTypes
  <2>6. ASSUME NEW q \in Requests \ {r}, Web!At(q, "renew")
        PROVE  /\ wjob[q].id \notin revoked'
               /\ session'[wjob[q].id] # Web!Nobody => session'[wjob[q].id].age = "stale"
    <3>1. wjob[q].id \in drawn
      BY <1>0, <2>6 DEF RequestInv, Web!At
    <3> QED BY <1>0, <2>1, <2>4, <2>6, <3>1 DEF RequestInv, WebTypes
  <2> QED BY <2>1, <2>2, <2>3, <2>5, <2>6, WebOthers
<1>3. ASSUME NEW r \in Requests, NEW i \in Ids, NEW rest \in Seq(LaterLabels), NEW set \in Forms,
             Web!Request(r, i, rest, set)
      PROVE  WebInv'
  <2> DEFINE s == <<"get", "lock", "reread", "renew">> \o rest
  <2>1. s \in Seq(Labels) /\ Ordered(s) /\ s # <<>> /\ Head(s) = "get"
    BY OrderedRequest
  <2> DEFINE j == [Web!Idle EXCEPT !.todo = s, !.id = i, !.set = set]
  <2>2. wjob' = [wjob EXCEPT ![r] = j] /\ i \in drawn
        /\ UNCHANGED <<stored, cache, session, lock, drawn, revoked>>
    BY <1>3 DEF Web!Request
  <2> HIDE DEF s
  <2>3. j \in WebJobs /\ j.todo = s /\ j.id = i
    BY <2>1, WebShape DEF WebJobs
  <2> HIDE DEF j
  <2>4. /\ wjob' \in [Requests -> WebJobs] /\ wjob'[r] = j
        /\ \A q \in Requests \ {r} : wjob'[q] = wjob[q]
    BY <1>0, <2>2, <2>3 DEF WebTypes
  <2>5. ~Web!At(r, "reread")' /\ ~Web!At(r, "renew")'
    BY <2>1, <2>3, <2>4 DEF Web!At
  <2>6. RequestInv(r)'
    BY <2>1, <2>2, <2>3, <2>4, <2>5 DEF RequestInv
  <2> QED BY <1>0, <2>2, <2>4, <2>6, WebOwn DEF WebTypes
<1>4. ASSUME NEW r \in Requests, Web!Get(r)
      PROVE  WebInv'
  <2> DEFINE s == session[wjob[r].id]
  <2>1. /\ wjob[r].todo # <<>> /\ Head(wjob[r].todo) = "get"
        /\ UNCHANGED <<stored, cache, session, lock, drawn, revoked>>
    BY <1>4 DEF Web!Get, Web!At
  <2>2. wjob[r].id \in drawn /\ s \in Sessions
    BY <1>0, <2>1 DEF RequestInv, Web!At, WebTypes
  <2>3. CASE Web!Leave(r)
    BY <1>0, <2>1, <2>3, WebLeave, WebOwn DEF WebTypes
  <2>4. CASE wjob' = [wjob EXCEPT ![r].todo = <<"drop">>]
    BY <1>0, <2>1, <2>2, <2>4, WebDropping, WebOwn DEF WebTypes
  <2>5. CASE Web!Skip(r, 4)
    <3>1. /\ wjob[r].todo \in Seq(Labels) /\ Ordered(wjob[r].todo)
          /\ wjob[r].todo[1] = "get" /\ 1 \in 1 .. Len(wjob[r].todo) /\ Len(wjob[r].todo) \in Nat
      BY <1>0, <2>1 DEF WebJobs, RequestInv
    <3>2. 4 \in 1 .. Len(wjob[r].todo) /\ wjob[r].todo[4] = "renew"
      BY <3>1 DEF Ordered
    <3>3. /\ wjob' \in [Requests -> WebJobs] /\ RequestInv(r)'
          /\ \A q \in Requests \ {r} : wjob'[q] = wjob[q]
      BY <2>1, <2>5, <3>2, WebSkip DEF RequestInv
    <3> QED BY <1>0, <2>1, <3>3, WebOwn DEF WebTypes
  <2>6. CASE Web!Done(r, [wjob[r] EXCEPT !.read = s])
    <3>1. [wjob[r] EXCEPT !.read = s] \in WebJobs
      BY <1>0, <2>2 DEF WebJobs
    <3>2. /\ wjob' \in [Requests -> WebJobs] /\ RequestInv(r)'
          /\ \A q \in Requests \ {r} : wjob'[q] = wjob[q]
      BY <1>0, <2>1, <2>6, <3>1, WebLater DEF WebJobs
    <3> QED BY <1>0, <2>1, <3>2, WebOwn DEF WebTypes
  <2> QED BY <1>4, <2>3, <2>4, <2>5, <2>6 DEF Web!Get
<1>5. ASSUME NEW r \in Requests, Web!Drop(r)
      PROVE  WebInv'
  <2>1. /\ session' = [session EXCEPT ![wjob[r].id] = Web!Nobody]
        /\ lock' = (IF lock = r THEN Web!None ELSE lock) /\ Web!Leave(r)
        /\ UNCHANGED <<stored, cache, drawn, revoked>>
    BY <1>5 DEF Web!Drop
  <2> QED BY <1>0, <2>1, WebLeave, WebRevokes
<1>6. ASSUME NEW r \in Requests, Web!Lock(r)
      PROVE  WebInv'
  <2>1. /\ wjob[r].todo # <<>> /\ Head(wjob[r].todo) = "lock" /\ lock = Web!None /\ lock' = r
        /\ Web!Done(r, wjob[r]) /\ UNCHANGED <<stored, cache, session, drawn, revoked>>
    BY <1>6 DEF Web!Lock, Web!At
  <2>2. /\ wjob' \in [Requests -> WebJobs] /\ Ordered(wjob'[r].todo)
        /\ wjob'[r].todo # <<>> => wjob'[r].id \in drawn
        /\ ~Web!At(r, "renew")'
        /\ \A q \in Requests \ {r} : wjob'[q] = wjob[q]
    BY <1>0, <2>1, WebDone DEF Web!At
  <2>3. RequestInv(r)'
    BY <2>1, <2>2 DEF RequestInv
  <2> QED BY <1>0, <2>1, <2>2, <2>3, WebOwn DEF WebTypes
<1>7. ASSUME NEW r \in Requests, Web!Reread(r)
      PROVE  WebInv'
  <2> DEFINE s == session[wjob[r].id]
  <2>1. /\ wjob[r].todo # <<>> /\ Head(wjob[r].todo) = "reread"
        /\ UNCHANGED <<stored, cache, session, drawn, revoked>>
    BY <1>7 DEF Web!Reread, Web!At
  <2>2. wjob[r].id \in drawn /\ s \in Sessions /\ lock = r
    BY <1>0, <2>1 DEF RequestInv, Web!At, WebTypes
  <2>3. CASE lock' = Web!None /\ Web!Leave(r)
    BY <1>0, <2>1, <2>2, <2>3, WebLeave, WebOwn DEF WebTypes
  <2>4. CASE wjob' = [wjob EXCEPT ![r].todo = <<"drop">>] /\ UNCHANGED lock
    BY <1>0, <2>1, <2>2, <2>4, WebDropping, WebOwn DEF WebTypes
  <2>5. CASE lock' = Web!None /\ Web!Skip(r, 2)
    <3>1. /\ wjob[r].todo \in Seq(Labels) /\ Ordered(wjob[r].todo)
          /\ wjob[r].todo[1] = "reread" /\ 1 \in 1 .. Len(wjob[r].todo) /\ Len(wjob[r].todo) \in Nat
      BY <1>0, <2>1 DEF WebJobs, RequestInv
    <3>2. 2 \in 1 .. Len(wjob[r].todo) /\ wjob[r].todo[2] = "renew"
      BY <3>1 DEF Ordered
    <3>3. /\ wjob' \in [Requests -> WebJobs] /\ RequestInv(r)'
          /\ \A q \in Requests \ {r} : wjob'[q] = wjob[q]
      BY <2>1, <2>5, <3>2, WebSkip DEF RequestInv
    <3> QED BY <1>0, <2>1, <2>2, <3>3, WebOwn DEF WebTypes
  <2>6. CASE /\ Web!Valid(s) /\ s.age = "stale" /\ UNCHANGED lock
             /\ Web!Done(r, [wjob[r] EXCEPT !.read = s])
    <3>1. [wjob[r] EXCEPT !.read = s] \in WebJobs
      BY <1>0, <2>2 DEF WebJobs
    <3>2. /\ wjob' \in [Requests -> WebJobs] /\ Ordered(wjob'[r].todo)
          /\ wjob'[r].todo # <<>> => wjob'[r].id \in drawn /\ wjob'[r].id = wjob[r].id
          /\ \A q \in Requests \ {r} : wjob'[q] = wjob[q]
      BY <1>0, <2>1, <2>6, <3>1, WebDone DEF WebJobs
    <3>3. wjob[r].id \notin revoked
      BY <2>6, WebShape DEF WebInv
    <3>4. RequestInv(r)'
      BY <2>1, <2>2, <2>6, <3>2, <3>3 DEF RequestInv, Web!At
    <3> QED BY <1>0, <2>1, <2>6, <3>2, <3>4, WebOwn DEF WebTypes
  <2> QED BY <1>7, <2>3, <2>4, <2>5, <2>6 DEF Web!Reread
<1>8. ASSUME NEW r \in Requests, Web!Renew(r)
      PROVE  WebInv'
  <2> DEFINE i == wjob[r].id
  <2>1. /\ wjob[r].todo # <<>> /\ Head(wjob[r].todo) = "renew"
        /\ session' = [session EXCEPT ![i] = [wjob[r].read EXCEPT !.age = "fresh"]]
        /\ lock' = Web!None /\ Web!Done(r, wjob[r])
        /\ UNCHANGED <<stored, cache, drawn, revoked>>
    BY <1>8 DEF Web!Renew, Web!At
  <2>2. lock = r /\ i \notin revoked
    BY <1>0, <2>1 DEF RequestInv, Web!At
  <2>3. /\ wjob' \in [Requests -> WebJobs] /\ RequestInv(r)'
        /\ \A q \in Requests \ {r} : wjob'[q] = wjob[q]
    BY <1>0, <2>1, WebLater
  <2>4. [wjob[r].read EXCEPT !.age = "fresh"] \in Sessions
    BY <1>0 DEF WebJobs, Sessions, Web!Ages
  <2>5. WebTypes' /\ \A x \in revoked' : session'[x] = Web!Nobody
    BY <1>0, <2>1, <2>2, <2>3, <2>4 DEF WebTypes, WebInv
  <2>6. \A q \in Requests \ {r} : ~Web!At(q, "renew")
    BY <1>0, <2>2 DEF RequestInv
  <2> QED BY <2>1, <2>2, <2>3, <2>5, <2>6, WebOthers
<1>9. ASSUME NEW r \in Requests, Web!Logout(r)
      PROVE  WebInv'
  <2>1. /\ wjob[r].todo # <<>> /\ Head(wjob[r].todo) = "logout"
        /\ session' = [session EXCEPT ![wjob[r].id] = Web!Nobody]
        /\ Web!Revoke({wjob[r].id}) /\ Web!Done(r, wjob[r])
        /\ UNCHANGED <<stored, cache, lock, drawn>>
    BY <1>9 DEF Web!Logout, Web!At
  <2>2. wjob[r].id \in drawn
    BY <1>0, <2>1 DEF RequestInv, Web!At
  <2> QED BY <1>0, <2>1, <2>2, WebLater, WebRevokes DEF Web!Revoke
<1>10. ASSUME NEW r \in Requests, Web!ClearAll(r)
       PROVE  WebInv'
  <2>1. /\ wjob[r].todo # <<>> /\ Head(wjob[r].todo) = "clear"
        /\ session' = [i \in Ids |-> Web!Nobody]
        /\ Web!Revoke(drawn) /\ Web!Done(r, wjob[r])
        /\ UNCHANGED <<stored, cache, lock, drawn>>
    BY <1>10 DEF Web!ClearAll, Web!At
  <2> QED BY <1>0, <2>1, WebLater, WebRevokes DEF Web!Revoke
<1>11. ASSUME NEW r \in Requests,
              Web!ReadSetting(r) \/ Web!PutSetting(r) \/ Web!LoadSetting(r) \/ Web!CacheSetting(r)
       PROVE  WebInv'
  <2>1. /\ wjob[r].todo # <<>> /\ Head(wjob[r].todo) \notin {"lock", "reread"}
        /\ UNCHANGED <<session, lock, drawn, revoked>>
    BY <1>11 DEF Web!ReadSetting, Web!PutSetting, Web!LoadSetting, Web!CacheSetting, Web!At
  <2>2. /\ wjob[r] \in WebJobs /\ wjob[r].set \in Forms /\ wjob[r].cached \in Forms
        /\ stored \in Forms /\ cache \in Forms
    BY <1>0 DEF WebJobs, WebTypes
  <2>3. /\ stored' \in Forms /\ cache' \in Forms
        /\ \E known \in WebJobs : known.todo = wjob[r].todo /\ known.id = wjob[r].id /\ Web!Done(r, known)
    <3>1. CASE Web!ReadSetting(r)
      <4> DEFINE f == [user |-> IF wjob[r].set.user = Web!None THEN cache.user ELSE wjob[r].set.user,
                       pw |-> IF wjob[r].set.pw = Web!None THEN cache.pw ELSE wjob[r].set.pw]
      <4>1. f \in Forms
        BY <2>2 DEF Forms
      <4>2. Web!Done(r, [wjob[r] EXCEPT !.set = f]) /\ UNCHANGED <<stored, cache>>
        BY <3>1 DEF Web!ReadSetting
      <4> HIDE DEF f
      <4>3. [wjob[r] EXCEPT !.set = f] \in WebJobs
        BY <2>2, <4>1 DEF WebJobs
      <4> QED BY <2>2, <4>2, <4>3 DEF WebJobs
    <3>2. CASE Web!PutSetting(r)
      BY <2>2, <3>2 DEF Web!PutSetting
    <3>3. CASE Web!LoadSetting(r)
      <4>1. [wjob[r] EXCEPT !.cached = stored] \in WebJobs
        BY <2>2 DEF WebJobs
      <4> QED BY <2>2, <3>3, <4>1 DEF Web!LoadSetting, WebJobs
    <3>4. CASE Web!CacheSetting(r)
      BY <2>2, <3>4 DEF Web!CacheSetting
    <3> QED BY <1>11, <3>1, <3>2, <3>3, <3>4
  <2>4. /\ wjob' \in [Requests -> WebJobs] /\ RequestInv(r)'
        /\ \A q \in Requests \ {r} : wjob'[q] = wjob[q]
    BY <2>1, <2>3, WebLater
  <2> QED BY <2>1, <2>3, <2>4, WebOwn
<1>12. ASSUME NEW i \in Ids, Web!Age(i)
       PROVE  WebInv'
  <2>1. /\ \A r \in Requests : wjob[r] = Web!Idle
        /\ session[i] # Web!Nobody
        /\ session' = [session EXCEPT ![i].age = IF @ = "fresh" THEN "stale" ELSE "old"]
        /\ UNCHANGED <<stored, cache, lock, wjob, drawn, revoked>>
    BY <1>12 DEF Web!Age, Web!Quiet
  <2>2. WebTypes'
    BY <1>0, <2>1 DEF WebTypes, Sessions, Web!Ages
  <2>3. \A x \in revoked' : session'[x] = Web!Nobody
    BY <1>0, <2>1 DEF WebTypes, WebInv
  <2> QED BY <2>1, <2>2, <2>3, WebIdle DEF WebInv
<1>13. CASE Web!Boot
  <2>1. /\ session' = [i \in Ids |-> IF session[i].age = "old" THEN Web!Nobody ELSE session[i]]
        /\ cache' = stored /\ wjob' = [r \in Requests |-> Web!Idle]
        /\ UNCHANGED <<stored, drawn, revoked>>
    BY <1>13 DEF Web!Boot
  <2>2. WebTypes'
    BY <1>0, <2>1, WebShape DEF WebTypes
  <2>3. \A x \in revoked' : session'[x] = Web!Nobody
    BY <1>0, <2>1 DEF WebTypes, WebInv
  <2> QED BY <2>1, <2>2, <2>3, WebIdle DEF WebInv
<1>14. CASE UNCHANGED web
  BY <1>14 DEF web, WebInv, WebTypes, RequestInv, Web!At
<1>15. ASSUME NEW r \in Requests, NEW i \in Ids,
              \/ Web!Request(r, i, <<>>, Web!NoChange)
              \/ Web!Request(r, i, <<"logout">>, Web!NoChange)
              \/ \E pw \in Passwords :
                   Web!Request(r, i, Web!Put \o <<"clear", "logout">>, [Web!NoChange EXCEPT !.pw = pw])
              \/ \E user \in Users, pw \in Passwords \union {Web!None} :
                   Web!Request(r, i, Web!Put, [user |-> user, pw |-> pw])
       PROVE  WebInv'
  <2>1. /\ Web!NoChange \in Forms
        /\ \A pw \in Passwords : [Web!NoChange EXCEPT !.pw = pw] \in Forms
        /\ \A user \in Users, pw \in Passwords \union {Web!None} : [user |-> user, pw |-> pw] \in Forms
    BY DEF Web!NoChange, Forms
  <2> QED BY <1>3, <1>15, <2>1, RestLabels
<1> QED BY <1>1, <1>2, <1>4, <1>5, <1>6, <1>7, <1>8, <1>9, <1>10, <1>11, <1>12, <1>13, <1>14, <1>15
        DEF Web!Next

(* A session that was taken back, while no renewal held the lock, is not   *)
(* written again, although requests that found it valid are still under    *)
(* way; and a session is renewed only if it is due, by one request; for    *)
(* any number of requests and sessions.                                    *)
THEOREM RevokedSessionsStay == Spec => []RevokedStay
<1>1. Init => (part = "web" => WebInv)
  BY WebInit DEF Init
<1>2. (part = "web" => WebInv)
      /\ [Next]_<<part, lists, sidecars, outbounds, web, scores, dns, files>>
      => (part = "web" => WebInv)'
  <2> SUFFICES ASSUME part = "web", WebInv,
                      [Next]_<<part, lists, sidecars, outbounds, web, scores, dns, files>>
               PROVE  WebInv'
    BY DEF Next
  <2> QED BY WebNext DEF Next, StoreParts, SidecarParts
<1>3. (part = "web" => WebInv) => RevokedStay
  BY DEF WebInv, RequestInv, RevokedStay, Web!RevokedStay
<1> QED BY <1>1, <1>2, <1>3, PTL DEF Spec

(* The types of the sessions.  The settings are stored after they were     *)
(* completed and cached after they were read back, so that the credentials *)
(* have a user and a password; and a session that is stored or renewed is  *)
(* that of a user.                                                         *)
Completed(s) ==
  \A k \in 2 .. Len(s) :
    /\ s[k] = "put" => s[k - 1] = "setting"
    /\ s[k] = "cache" => s[k - 1] = "load"

RequestRecords(r) ==
  /\ Completed(wjob[r].todo)
  /\ Web!At(r, "put") => wjob[r].set \in Web!Credentials
  /\ Web!At(r, "cache") => wjob[r].cached \in Web!Credentials
  /\ Web!At(r, "login") \/ Web!At(r, "renew") => wjob[r].read.user \in Users

WebRecords ==
  /\ stored \in Web!Credentials /\ cache \in Web!Credentials
  /\ \A i \in Ids : session[i] = Web!Nobody \/ session[i].user \in Users
  /\ lock \in Requests \union {Web!None}
  /\ \A r \in Requests : RequestRecords(r)

(* What is left of a list whose settings are completed.                    *)
LEMMA CompletedRest ==
  ASSUME NEW s \in Seq(Labels), Completed(s), NEW n \in 1 .. Len(s) - 1
  PROVE  /\ Completed(SubSeq(s, n + 1, Len(s)))
         /\ s[n + 1] = "put" => s[n] = "setting"
         /\ s[n + 1] = "cache" => s[n] = "load"
<1> DEFINE q == SubSeq(s, n + 1, Len(s))
<1>1. /\ Len(s) \in Nat /\ n \in Nat /\ n + 1 \in 2 .. Len(s) /\ (n + 1) - 1 = n
  OBVIOUS
<1>2. /\ q \in Seq(Labels) /\ Len(q) = Len(s) - n
      /\ \A k \in 1 .. Len(q) : q[k] = s[k + n]
  BY <1>1, SubSeqProperties
<1> HIDE DEF q
<1>3. ASSUME NEW k \in 2 .. Len(q)
      PROVE  /\ q[k] = "put" => q[k - 1] = "setting"
             /\ q[k] = "cache" => q[k - 1] = "load"
  <2>0. Len(q) \in Nat /\ Len(s) \in Nat /\ k \in Nat
    BY <1>1, <1>2
  <2>1. /\ k + n \in 2 .. Len(s) /\ (k - 1) + n = (k + n) - 1
        /\ k \in 1 .. Len(q) /\ k - 1 \in 1 .. Len(q)
    BY <1>1, <1>2, <2>0
  <2>2. q[k] = s[k + n] /\ q[k - 1] = s[(k - 1) + n]
    BY <1>2, <2>1, Zenon
  <2> QED BY <2>1, <2>2, Zenon DEF Completed
<1>4. /\ s[n + 1] = "put" => s[n] = "setting"
      /\ s[n + 1] = "cache" => s[n] = "load"
  <2>1. /\ s[n + 1] = "put" => s[(n + 1) - 1] = "setting"
        /\ s[n + 1] = "cache" => s[(n + 1) - 1] = "load"
    BY <1>1, Zenon DEF Completed
  <2> QED BY <1>1, <2>1
<1> QED BY <1>3, <1>4, Zenon DEF Completed, q

(* The lists of the requests are completed.                                *)
LEMMA CompletedRequest ==
  ASSUME NEW rest \in {<<>>, <<"logout">>, Web!Put, Web!Put \o <<"clear", "logout">>}
  PROVE  Completed(<<"get", "lock", "reread", "renew">> \o rest)
<1> DEFINE b == <<"get", "lock", "reread", "renew">>
           e == <<"clear", "logout">>
           p == Web!Put \o e
           s == b \o p
<1>2. CASE rest = <<>>
  BY <1>2 DEF Completed
<1>3. CASE rest = <<"logout">>
  BY <1>3 DEF Completed
<1>4. CASE rest = Web!Put
  BY <1>4 DEF Completed, Web!Put
<1>5. CASE rest = Web!Put \o <<"clear", "logout">>
  <2>1. /\ Web!Put \in Seq(Labels) /\ Len(Web!Put) = 4
        /\ Web!Put[1] = "setting" /\ Web!Put[2] = "put" /\ Web!Put[3] = "load" /\ Web!Put[4] = "cache"
    BY DEF Web!Put, Labels
  <2>2. e \in Seq(Labels) /\ Len(e) = 2 /\ e[1] = "clear" /\ e[2] = "logout"
    BY DEF Labels
  <2> HIDE DEF e
  <2>3. /\ p \in Seq(Labels) /\ Len(p) = 6
        /\ \A k \in 1 .. 6 : p[k] = IF k <= 4 THEN Web!Put[k] ELSE e[k - 4]
    <3>1. /\ p \in Seq(Labels) /\ Len(p) = Len(Web!Put) + Len(e)
          /\ \A k \in 1 .. Len(Web!Put) + Len(e) :
               p[k] = IF k <= Len(Web!Put) THEN Web!Put[k] ELSE e[k - Len(Web!Put)]
      BY <2>1, <2>2, ConcatProperties, Zenon
    <3>2. 4 + 2 = 6
      OBVIOUS
    <3> QED BY <2>1, <2>2, <3>1, <3>2, Zenon
  <2> HIDE DEF p
  <2>4. /\ p[1] = "setting" /\ p[2] = "put" /\ p[3] = "load" /\ p[4] = "cache"
        /\ p[5] = "clear" /\ p[6] = "logout"
    BY <2>1, <2>2, <2>3
  <2>5. b \in Seq(Labels) /\ Len(b) = 4 /\ b[1] = "get" /\ b[2] = "lock" /\ b[3] = "reread" /\ b[4] = "renew"
    BY DEF Labels
  <2> HIDE DEF b
  <2>6. Len(s) = 10 /\ \A k \in 1 .. 10 : s[k] = IF k <= 4 THEN b[k] ELSE p[k - 4]
    <3>1. /\ Len(s) = Len(b) + Len(p)
          /\ \A k \in 1 .. Len(b) + Len(p) :
               s[k] = IF k <= Len(b) THEN b[k] ELSE p[k - Len(b)]
      BY <2>3, <2>5, ConcatProperties, Zenon
    <3>2. 4 + 6 = 10
      OBVIOUS
    <3> QED BY <2>3, <2>5, <3>1, <3>2, Zenon
  <2> HIDE DEF s
  <2>7. /\ s[1] = "get" /\ s[2] = "lock" /\ s[3] = "reread" /\ s[4] = "renew"
        /\ s[5] = "setting" /\ s[6] = "put" /\ s[7] = "load" /\ s[8] = "cache"
        /\ s[9] = "clear" /\ s[10] = "logout"
    BY <2>4, <2>5, <2>6
  <2>8. Completed(s)
    BY <2>6, <2>7 DEF Completed
  <2> QED BY <1>5, <2>8 DEF s, b, p, e
<1> QED BY <1>2, <1>3, <1>4, <1>5

(* The shortest lists.                                                     *)
LEMMA RecordsShape ==
  /\ Completed(<<>>) /\ \A l \in {"drop", "login"} : Completed(<<l>>)
  /\ Web!Idle.todo = <<>>
  /\ \A s \in Web!Credentials : s.user \in Users /\ s.pw \in Passwords
<1>1. Completed(<<>>) /\ \A l \in {"drop", "login"} : Completed(<<l>>)
  BY DEF Completed
<1> QED BY <1>1, WebShape DEF Web!Credentials

(* The request that moves on to what is left after n steps.                *)
LEMMA RecordsRest ==
  ASSUME WebInv, NEW r \in Requests, RequestRecords(r),
         NEW n \in 1 .. Len(wjob[r].todo) - 1, NEW j \in WebJobs,
         j.todo = SubSeq(wjob[r].todo, n + 1, Len(wjob[r].todo)),
         wjob' = [wjob EXCEPT ![r] = j]
  PROVE  /\ wjob'[r] = j /\ Completed(wjob'[r].todo)
         /\ Web!At(r, "put")' => wjob[r].todo[n] = "setting"
         /\ Web!At(r, "cache")' => wjob[r].todo[n] = "load"
         /\ Web!At(r, "renew")' => wjob[r].todo[n] = "reread"
         /\ ~Web!At(r, "login")'
<1> DEFINE s == wjob[r].todo
<1>1. wjob \in [Requests -> WebJobs] /\ s \in Seq(Labels) /\ Ordered(s) /\ Completed(s)
  BY DEF WebInv, WebTypes, WebJobs, RequestInv, RequestRecords
<1>2. wjob'[r] = j
  BY <1>1
<1>3. /\ Completed(j.todo) /\ Head(j.todo) = s[n + 1]
      /\ s[n + 1] = "put" => s[n] = "setting"
      /\ s[n + 1] = "cache" => s[n] = "load"
      /\ s[n + 1] = "renew" => s[n] = "reread"
      /\ s[n + 1] # "login"
  <2> HIDE DEF s
  <2>1. j.todo = SubSeq(s, n + 1, Len(s)) /\ n \in 1 .. Len(s) - 1
    BY DEF s
  <2>2. /\ Completed(SubSeq(s, n + 1, Len(s))) /\ Head(SubSeq(s, n + 1, Len(s))) = s[n + 1]
        /\ s[n + 1] = "put" => s[n] = "setting"
        /\ s[n + 1] = "cache" => s[n] = "load"
        /\ s[n + 1] = "renew" => s[n] = "reread"
    BY <1>1, <2>1, OrderedRest, CompletedRest
  <2>3. s[n + 1] # "login"
    <3>1. Len(s) \in Nat
      BY <1>1
    <3>2. n + 1 \in 1 .. Len(s) /\ Len(s) # 1
      BY <2>1, <3>1
    <3> QED BY <1>1, <3>2, Zenon DEF Ordered
  <2> QED BY <2>1, <2>2, <2>3
<1> QED BY <1>2, <1>3 DEF Web!At

(* A request that has made its step goes on with the rest of its list.     *)
LEMMA RecordsDone ==
  ASSUME WebInv, NEW r \in Requests, RequestRecords(r), NEW known \in WebJobs,
         wjob[r].todo # <<>>, known.todo = wjob[r].todo, Web!Done(r, known)
  PROVE  /\ Completed(wjob'[r].todo)
         /\ \A q \in Requests \ {r} : wjob'[q] = wjob[q]
         /\ Web!At(r, "put")' => Web!At(r, "setting") /\ wjob'[r].set = known.set
         /\ Web!At(r, "cache")' => Web!At(r, "load") /\ wjob'[r].cached = known.cached
         /\ Web!At(r, "renew")' => Web!At(r, "reread") /\ wjob'[r].read = known.read
         /\ ~Web!At(r, "login")'
<1> DEFINE s == wjob[r].todo
<1>1. wjob \in [Requests -> WebJobs] /\ s \in Seq(Labels) /\ Len(s) \in Nat \ {0}
  BY DEF WebInv, WebTypes, WebJobs
<1>2. CASE Len(s) = 1
  <2>1. wjob' = [wjob EXCEPT ![r] = Web!Idle]
    BY <1>2 DEF Web!Done
  <2> QED BY <1>1, <2>1, RecordsShape DEF Web!At
<1>3. CASE Len(s) # 1
  <2> DEFINE j == [known EXCEPT !.todo = Tail(s)]
  <2>1. wjob' = [wjob EXCEPT ![r] = j]
    BY <1>3 DEF Web!Done
  <2>2. 1 \in 1 .. Len(s) - 1 /\ Tail(s) = SubSeq(s, 1 + 1, Len(s)) /\ s[1] = Head(s)
    <3>1. s # <<>> /\ s[1] = Head(s)
      BY <1>1
    <3>2. Tail(s) = SubSeq(s, 2, Len(s))
      BY <1>1, <3>1, TailIsSubSeq
    <3> HIDE DEF s
    <3>3. 1 + 1 = 2 /\ 1 \in 1 .. Len(s) - 1
      <4>1. 1 + 1 = 2 /\ \A n \in Nat \ {0} : n # 1 => 1 \in 1 .. n - 1
        OBVIOUS
      <4> QED BY <1>1, <1>3, <4>1, Zenon
    <3>4. Tail(s) = SubSeq(s, 1 + 1, Len(s))
      BY <3>2, <3>3, Zenon
    <3> QED BY <3>1, <3>3, <3>4, Zenon
  <2>3. Tail(s) \in Seq(Labels)
    BY <1>1, <1>3
  <2>4. /\ j \in WebJobs /\ j.todo = Tail(s)
        /\ j.set = known.set /\ j.cached = known.cached /\ j.read = known.read
    BY <2>3 DEF WebJobs
  <2> HIDE DEF j
  <2>5. /\ wjob'[r] = j /\ Completed(wjob'[r].todo)
        /\ Web!At(r, "put")' => s[1] = "setting"
        /\ Web!At(r, "cache")' => s[1] = "load"
        /\ Web!At(r, "renew")' => s[1] = "reread"
        /\ ~Web!At(r, "login")'
    <3>1. j.todo = SubSeq(wjob[r].todo, 1 + 1, Len(wjob[r].todo))
          /\ 1 \in 1 .. Len(wjob[r].todo) - 1
      BY <2>2, <2>4
    <3> QED BY <2>1, <2>4, <3>1, RecordsRest
  <2>6. \A q \in Requests \ {r} : wjob'[q] = wjob[q]
    BY <1>1, <2>1
  <2> QED BY <2>2, <2>4, <2>5, <2>6 DEF Web!At
<1> QED BY <1>2, <1>3

(* A request that has nothing to renew.                                    *)
LEMMA RecordsSkip ==
  ASSUME WebInv, NEW r \in Requests, RequestRecords(r), NEW n \in 1 .. Len(wjob[r].todo),
         Web!Skip(r, n), wjob[r].todo[n] = "renew"
  PROVE  RequestRecords(r)' /\ \A q \in Requests \ {r} : wjob'[q] = wjob[q]
<1> DEFINE s == wjob[r].todo
<1>1. wjob \in [Requests -> WebJobs] /\ wjob[r] \in WebJobs /\ s \in Seq(Labels) /\ Len(s) \in Nat
  BY DEF WebInv, WebTypes, WebJobs
<1>2. CASE Len(s) = n
  <2>1. wjob' = [wjob EXCEPT ![r] = Web!Idle]
    BY <1>2 DEF Web!Skip
  <2> QED BY <1>1, <2>1, RecordsShape DEF Web!At, RequestRecords
<1>3. CASE Len(s) # n
  <2> DEFINE j == [wjob[r] EXCEPT !.todo = SubSeq(s, n + 1, Len(s)), !.read = Web!Nobody]
  <2>1. wjob' = [wjob EXCEPT ![r] = j]
    BY <1>1, <1>3 DEF Web!Skip
  <2>2. n \in 1 .. Len(s) - 1
    BY <1>1, <1>3
  <2>3. SubSeq(s, n + 1, Len(s)) \in Seq(Labels)
    BY <1>1, <2>2, OrderedRest DEF WebInv, RequestInv
  <2>4. j \in WebJobs /\ j.todo = SubSeq(s, n + 1, Len(s))
    BY <1>1, <2>3, WebShape DEF WebJobs
  <2> HIDE DEF j
  <2>5. /\ wjob'[r] = j /\ Completed(wjob'[r].todo)
        /\ ~Web!At(r, "put")' /\ ~Web!At(r, "cache")' /\ ~Web!At(r, "renew")' /\ ~Web!At(r, "login")'
    BY <2>1, <2>2, <2>4, RecordsRest
  <2>6. \A q \in Requests \ {r} : wjob'[q] = wjob[q]
    BY <1>1, <2>1
  <2> QED BY <2>5, <2>6 DEF RequestRecords
<1> QED BY <1>2, <1>3

(* What one request does leaves the others as they are.                    *)
LEMMA RecordsKept ==
  ASSUME WebRecords, NEW r \in Requests, RequestRecords(r)',
         \A q \in Requests \ {r} : wjob'[q] = wjob[q],
         stored' \in Web!Credentials, cache' \in Web!Credentials,
         \A i \in Ids : session'[i] = Web!Nobody \/ session'[i].user \in Users,
         lock' \in Requests \union {Web!None}
  PROVE  WebRecords'
<1>1. ASSUME NEW q \in Requests \ {r} PROVE RequestRecords(q)'
  <2>1. \A l : Web!At(q, l)' <=> Web!At(q, l)
    BY DEF Web!At
  <2>2. RequestRecords(q)
    BY DEF WebRecords
  <2> QED BY <2>1, <2>2 DEF RequestRecords
<1> QED BY <1>1 DEF WebRecords

(* Neither what begins nor what follows a step that reads nothing needs    *)
(* anything read.                                                          *)
LEMMA RecordsLater ==
  ASSUME WebInv, NEW r \in Requests, RequestRecords(r), NEW known \in WebJobs,
         wjob[r].todo # <<>>, known.todo = wjob[r].todo, Web!Done(r, known),
         Head(wjob[r].todo) \notin {"setting", "load", "reread"}
  PROVE  RequestRecords(r)' /\ \A q \in Requests \ {r} : wjob'[q] = wjob[q]
<1>1. /\ Completed(wjob'[r].todo)
      /\ \A q \in Requests \ {r} : wjob'[q] = wjob[q]
      /\ ~Web!At(r, "put")' /\ ~Web!At(r, "cache")' /\ ~Web!At(r, "renew")' /\ ~Web!At(r, "login")'
  BY RecordsDone DEF Web!At
<1> QED BY <1>1 DEF RequestRecords

(* A request that leaves or is to drop its session.                        *)
LEMMA RecordsLeave ==
  ASSUME WebInv, NEW r \in Requests,
         Web!Leave(r) \/ wjob' = [wjob EXCEPT ![r].todo = <<"drop">>]
  PROVE  RequestRecords(r)' /\ \A q \in Requests \ {r} : wjob'[q] = wjob[q]
<1>1. wjob \in [Requests -> WebJobs] /\ wjob[r] \in WebJobs
  BY DEF WebInv, WebTypes
<1>2. CASE Web!Leave(r)
  <2>1. wjob' = [wjob EXCEPT ![r] = Web!Idle]
    BY <1>2 DEF Web!Leave
  <2>2. wjob'[r].todo = <<>> /\ \A q \in Requests \ {r} : wjob'[q] = wjob[q]
    BY <1>1, <2>1, RecordsShape
  <2> QED BY <2>2, RecordsShape DEF RequestRecords, Web!At
<1>3. CASE wjob' = [wjob EXCEPT ![r].todo = <<"drop">>]
  <2>1. wjob'[r].todo = <<"drop">> /\ \A q \in Requests \ {r} : wjob'[q] = wjob[q]
    BY <1>1, <1>3 DEF WebJobs
  <2>2. Head(wjob'[r].todo) = "drop"
    BY <2>1
  <2> QED BY <2>1, <2>2, RecordsShape DEF RequestRecords, Web!At
<1> QED BY <1>2, <1>3

(* All are well at first.                                                  *)
LEMMA RecordsInit == Web!Init => WebRecords
<1> SUFFICES ASSUME Web!Init PROVE WebRecords
  OBVIOUS
<1>1. \A r \in Requests : wjob[r].todo = <<>>
  BY RecordsShape DEF Web!Init
<1>2. \A r \in Requests : RequestRecords(r)
  BY <1>1, RecordsShape DEF RequestRecords, Web!At
<1> QED BY <1>2 DEF Web!Init, WebRecords

(* Every step keeps the records of the requests, the credentials whole,    *)
(* and the lock with a request.                                            *)
LEMMA RecordsNext == WebInv /\ WebRecords /\ [Web!Next]_web => WebRecords'
<1> SUFFICES ASSUME WebInv, WebRecords, [Web!Next]_web PROVE WebRecords'
  OBVIOUS
<1> USE DEF Web!setting
<1>0. /\ WebTypes /\ \A r \in Requests : wjob[r] \in WebJobs /\ RequestRecords(r)
      /\ stored \in Web!Credentials /\ cache \in Web!Credentials
      /\ \A i \in Ids : session[i] = Web!Nobody \/ session[i].user \in Users
      /\ lock \in Requests \union {Web!None}
  BY DEF WebInv, WebTypes, WebRecords
<1>1. ASSUME NEW r \in Requests, NEW typed \in Web!Credentials, Web!Login(r, typed)
      PROVE  WebRecords'
  <2> DEFINE j == [Web!Idle EXCEPT !.todo = <<"login">>, !.read = [user |-> typed.user, age |-> "fresh"]]
  <2>1. j.todo = <<"login">> /\ j.read.user \in Users
    BY RecordsShape DEF Web!Idle
  <2> HIDE DEF j
  <2>2. wjob' = [wjob EXCEPT ![r] = j] /\ UNCHANGED <<stored, cache, session, lock, drawn, revoked>>
    BY <1>1 DEF Web!Login, j
  <2>3. /\ wjob'[r] = j /\ \A q \in Requests \ {r} : wjob'[q] = wjob[q]
    BY <1>0, <2>2 DEF WebTypes
  <2>4. ~Web!At(r, "put")' /\ ~Web!At(r, "cache")'
    BY <2>1, <2>3 DEF Web!At
  <2>5. RequestRecords(r)'
    BY <2>1, <2>3, <2>4, RecordsShape DEF RequestRecords
  <2> QED BY <1>0, <2>2, <2>3, <2>5, RecordsKept
<1>2. ASSUME NEW r \in Requests, NEW i \in Ids, Web!StoreLogin(r, i)
      PROVE  WebRecords'
  <2>1. /\ session' = [session EXCEPT ![i] = wjob[r].read] /\ Web!Leave(r)
        /\ UNCHANGED <<stored, cache, lock>> /\ Web!At(r, "login")
    BY <1>2 DEF Web!StoreLogin
  <2>2. wjob[r].read.user \in Users
    BY <1>0, <2>1 DEF RequestRecords
  <2>3. \A k \in Ids : session'[k] = Web!Nobody \/ session'[k].user \in Users
    BY <1>0, <2>1, <2>2 DEF WebTypes
  <2> QED BY <1>0, <2>1, <2>3, RecordsLeave, RecordsKept
<1>3. ASSUME NEW r \in Requests, NEW i \in Ids, NEW set,
             NEW rest \in {<<>>, <<"logout">>, Web!Put, Web!Put \o <<"clear", "logout">>},
             Web!Request(r, i, rest, set)
      PROVE  WebRecords'
  <2> DEFINE t == <<"get", "lock", "reread", "renew">> \o rest
             j == [Web!Idle EXCEPT !.todo = t, !.id = i, !.set = set]
  <2>1. Completed(t) /\ Head(t) = "get"
    BY CompletedRequest, OrderedRequest, RestLabels
  <2> HIDE DEF t
  <2>2. j.todo = t
    BY DEF Web!Idle
  <2> HIDE DEF j
  <2>3. wjob' = [wjob EXCEPT ![r] = j] /\ UNCHANGED <<stored, cache, session, lock>>
    BY <1>3 DEF Web!Request, j, t
  <2>4. /\ wjob'[r] = j /\ \A q \in Requests \ {r} : wjob'[q] = wjob[q]
    BY <1>0, <2>3 DEF WebTypes
  <2>5. RequestRecords(r)'
    BY <2>1, <2>2, <2>4 DEF RequestRecords, Web!At
  <2> QED BY <1>0, <2>3, <2>4, <2>5, RecordsKept
<1>4. ASSUME NEW r \in Requests, Web!Get(r) PROVE WebRecords'
  <2> DEFINE s == session[wjob[r].id]
  <2>1. Web!At(r, "get") /\ UNCHANGED <<stored, cache, session, lock>>
    BY <1>4 DEF Web!Get
  <2>2. \/ Web!Leave(r) \/ wjob' = [wjob EXCEPT ![r].todo = <<"drop">>]
        \/ Web!Skip(r, 4) \/ Web!Done(r, [wjob[r] EXCEPT !.read = s])
    BY <1>4 DEF Web!Get
  <2>3. /\ wjob[r].todo # <<>> /\ Head(wjob[r].todo) = "get" /\ wjob[r].todo \in Seq(Labels)
        /\ wjob[r].todo[1] = "get" /\ Ordered(wjob[r].todo) /\ Len(wjob[r].todo) \in Nat \ {0}
    BY <1>0, <2>1 DEF Web!At, WebInv, RequestInv, WebJobs
  <2>4. 4 \in 1 .. Len(wjob[r].todo) /\ wjob[r].todo[4] = "renew"
    <3>1. 1 \in 1 .. Len(wjob[r].todo)
      BY <2>3
    <3>2. 1 + 3 <= Len(wjob[r].todo) /\ wjob[r].todo[1 + 3] = "renew"
      BY <2>3, <3>1, Zenon DEF Ordered
    <3> QED BY <2>3, <3>2
  <2>5. [wjob[r] EXCEPT !.read = s] \in WebJobs /\ [wjob[r] EXCEPT !.read = s].todo = wjob[r].todo
    <3>1. ~Web!At(r, "login")
      BY <2>3 DEF Web!At
    <3>2. wjob[r].id \in drawn /\ drawn \subseteq Ids
      BY <1>0, <2>3, <3>1 DEF WebInv, RequestInv, WebTypes
    <3> QED BY <1>0, <3>2 DEF WebTypes, WebJobs
  <2>6. RequestRecords(r)' /\ \A q \in Requests \ {r} : wjob'[q] = wjob[q]
    <3>1. CASE Web!Leave(r) \/ wjob' = [wjob EXCEPT ![r].todo = <<"drop">>]
      BY <3>1, RecordsLeave
    <3>2. CASE Web!Skip(r, 4)
      BY <1>0, <2>4, <3>2, RecordsSkip
    <3>3. CASE Web!Done(r, [wjob[r] EXCEPT !.read = s])
      BY <1>0, <2>3, <2>5, <3>3, RecordsLater
    <3> QED BY <2>2, <3>1, <3>2, <3>3
  <2> QED BY <1>0, <2>1, <2>6, RecordsKept
<1>5. ASSUME NEW r \in Requests, Web!Drop(r) PROVE WebRecords'
  <2>1. /\ session' = [session EXCEPT ![wjob[r].id] = Web!Nobody] /\ Web!Leave(r)
        /\ lock' \in {lock, Web!None} /\ UNCHANGED <<stored, cache>>
    BY <1>5 DEF Web!Drop
  <2>2. \A k \in Ids : session'[k] = Web!Nobody \/ session'[k].user \in Users
    BY <1>0, <2>1 DEF WebTypes
  <2> QED BY <1>0, <2>1, <2>2, RecordsLeave, RecordsKept
<1>6. ASSUME NEW r \in Requests, Web!Lock(r) PROVE WebRecords'
  <2>1. /\ wjob[r].todo # <<>> /\ Head(wjob[r].todo) = "lock" /\ Web!Done(r, wjob[r])
        /\ lock' = r /\ UNCHANGED <<stored, cache, session>>
    BY <1>6 DEF Web!Lock, Web!At
  <2>2. RequestRecords(r)' /\ \A q \in Requests \ {r} : wjob'[q] = wjob[q]
    BY <1>0, <2>1, RecordsLater
  <2> QED BY <1>0, <2>1, <2>2, RecordsKept
<1>7. ASSUME NEW r \in Requests, Web!Reread(r) PROVE WebRecords'
  <2> DEFINE s == session[wjob[r].id]
             j == [wjob[r] EXCEPT !.read = s]
  <2>1. Web!At(r, "reread") /\ UNCHANGED <<stored, cache, session>> /\ lock' \in {lock, Web!None}
    BY <1>7 DEF Web!Reread
  <2>2. \/ Web!Leave(r) \/ wjob' = [wjob EXCEPT ![r].todo = <<"drop">>]
        \/ Web!Skip(r, 2)
        \/ Web!Done(r, j) /\ Web!Valid(s)
    BY <1>7 DEF Web!Reread
  <2>3. /\ wjob[r].todo # <<>> /\ Head(wjob[r].todo) = "reread" /\ wjob[r].todo \in Seq(Labels)
        /\ wjob[r].todo[1] = "reread" /\ Ordered(wjob[r].todo) /\ Len(wjob[r].todo) \in Nat \ {0}
    BY <1>0, <2>1 DEF Web!At, WebInv, RequestInv, WebJobs
  <2>4. 2 \in 1 .. Len(wjob[r].todo) /\ wjob[r].todo[2] = "renew"
    BY <2>3 DEF Ordered
  <2>5. wjob[r].id \in Ids
    <3>1. ~Web!At(r, "login")
      BY <2>3 DEF Web!At
    <3> QED BY <1>0, <2>3, <3>1 DEF WebInv, RequestInv, WebTypes
  <2>6. j \in WebJobs /\ j.todo = wjob[r].todo /\ j.read = s
    BY <1>0, <2>5 DEF WebTypes, WebJobs
  <2>7. Web!Valid(s) => s.user \in Users
    BY <1>0, RecordsShape DEF Web!Valid
  <2> HIDE DEF j
  <2>8. RequestRecords(r)' /\ \A q \in Requests \ {r} : wjob'[q] = wjob[q]
    <3>1. CASE Web!Leave(r) \/ wjob' = [wjob EXCEPT ![r].todo = <<"drop">>]
      BY <3>1, RecordsLeave
    <3>2. CASE Web!Skip(r, 2)
      BY <1>0, <2>4, <3>2, RecordsSkip
    <3>3. CASE Web!Done(r, j) /\ Web!Valid(s)
      <4>1. /\ Completed(wjob'[r].todo)
            /\ \A q \in Requests \ {r} : wjob'[q] = wjob[q]
            /\ ~Web!At(r, "put")' /\ ~Web!At(r, "cache")' /\ ~Web!At(r, "login")'
            /\ Web!At(r, "renew")' => wjob'[r].read = j.read
        BY <1>0, <2>3, <2>6, <3>3, RecordsDone DEF Web!At
      <4> QED BY <2>6, <2>7, <3>3, <4>1 DEF RequestRecords
    <3> QED BY <2>2, <3>1, <3>2, <3>3
  <2> QED BY <1>0, <2>1, <2>8, RecordsKept
<1>8. ASSUME NEW r \in Requests, Web!Renew(r) PROVE WebRecords'
  <2>1. /\ Web!At(r, "renew") /\ wjob[r].todo # <<>> /\ Head(wjob[r].todo) = "renew"
        /\ session' = [session EXCEPT ![wjob[r].id] = [wjob[r].read EXCEPT !.age = "fresh"]]
        /\ lock' = Web!None /\ Web!Done(r, wjob[r]) /\ UNCHANGED <<stored, cache>>
    BY <1>8 DEF Web!Renew, Web!At
  <2>2. [wjob[r].read EXCEPT !.age = "fresh"].user \in Users
    BY <1>0, <2>1 DEF RequestRecords, WebJobs, Sessions
  <2>3. \A k \in Ids : session'[k] = Web!Nobody \/ session'[k].user \in Users
    BY <1>0, <2>1, <2>2 DEF WebTypes
  <2>4. RequestRecords(r)' /\ \A q \in Requests \ {r} : wjob'[q] = wjob[q]
    BY <1>0, <2>1, RecordsLater
  <2> QED BY <1>0, <2>1, <2>3, <2>4, RecordsKept
<1>9. ASSUME NEW r \in Requests, Web!Logout(r) \/ Web!ClearAll(r) PROVE WebRecords'
  <2>1. /\ wjob[r].todo # <<>> /\ Head(wjob[r].todo) \in {"logout", "clear"} /\ Web!Done(r, wjob[r])
        /\ \/ session' = [session EXCEPT ![wjob[r].id] = Web!Nobody]
           \/ session' = [i \in Ids |-> Web!Nobody]
        /\ UNCHANGED <<stored, cache, lock>>
    BY <1>9 DEF Web!Logout, Web!ClearAll, Web!At
  <2>2. \A k \in Ids : session'[k] = Web!Nobody \/ session'[k].user \in Users
    BY <1>0, <2>1 DEF WebTypes
  <2>3. RequestRecords(r)' /\ \A q \in Requests \ {r} : wjob'[q] = wjob[q]
    BY <1>0, <2>1, RecordsLater
  <2> QED BY <1>0, <2>1, <2>2, <2>3, RecordsKept
<1>10. ASSUME NEW r \in Requests, Web!ReadSetting(r) PROVE WebRecords'
  <2> DEFINE set == [user |-> IF wjob[r].set.user = Web!None THEN cache.user ELSE wjob[r].set.user,
                     pw |-> IF wjob[r].set.pw = Web!None THEN cache.pw ELSE wjob[r].set.pw]
             j == [wjob[r] EXCEPT !.set = set]
  <2>1. /\ wjob[r].todo # <<>> /\ Head(wjob[r].todo) = "setting"
        /\ UNCHANGED <<stored, cache, session, lock>>
    BY <1>10 DEF Web!ReadSetting, Web!At
  <2>2. Web!Done(r, j)
    BY <1>10 DEF Web!ReadSetting
  <2>3. set \in Web!Credentials
    <3>1. /\ wjob[r].set.user \in Users \union {Web!None} /\ wjob[r].set.pw \in Passwords \union {Web!None}
          /\ cache.user \in Users /\ cache.pw \in Passwords
      BY <1>0, RecordsShape DEF WebJobs, Forms
    <3> QED BY <3>1 DEF Web!Credentials
  <2>4. j \in WebJobs /\ j.todo = wjob[r].todo /\ j.set = set
    <3> HIDE DEF set
    <3>1. set \in Forms
      BY <2>3 DEF Web!Credentials, Forms
    <3> QED BY <1>0, <3>1 DEF WebJobs
  <2> HIDE DEF j, set
  <2>5. /\ Completed(wjob'[r].todo)
        /\ \A q \in Requests \ {r} : wjob'[q] = wjob[q]
        /\ Web!At(r, "put")' => wjob'[r].set = set
        /\ ~Web!At(r, "cache")' /\ ~Web!At(r, "renew")' /\ ~Web!At(r, "login")'
    BY <1>0, <2>1, <2>2, <2>4, RecordsDone DEF Web!At
  <2>6. RequestRecords(r)'
    BY <2>3, <2>5 DEF RequestRecords
  <2> QED BY <1>0, <2>1, <2>5, <2>6, RecordsKept
<1>11. ASSUME NEW r \in Requests, Web!PutSetting(r) PROVE WebRecords'
  <2>1. /\ Web!At(r, "put") /\ wjob[r].todo # <<>> /\ Head(wjob[r].todo) = "put"
        /\ stored' = wjob[r].set /\ Web!Done(r, wjob[r]) /\ UNCHANGED <<cache, session, lock>>
    BY <1>11 DEF Web!PutSetting, Web!At
  <2>2. stored' \in Web!Credentials
    BY <1>0, <2>1 DEF RequestRecords
  <2>3. RequestRecords(r)' /\ \A q \in Requests \ {r} : wjob'[q] = wjob[q]
    BY <1>0, <2>1, RecordsLater
  <2> QED BY <1>0, <2>1, <2>2, <2>3, RecordsKept
<1>12. ASSUME NEW r \in Requests, Web!LoadSetting(r) PROVE WebRecords'
  <2> DEFINE j == [wjob[r] EXCEPT !.cached = stored]
  <2>1. /\ wjob[r].todo # <<>> /\ Head(wjob[r].todo) = "load" /\ Web!Done(r, j)
        /\ UNCHANGED <<stored, cache, session, lock>>
    BY <1>12 DEF Web!LoadSetting, Web!At
  <2>2. j \in WebJobs /\ j.todo = wjob[r].todo /\ j.cached = stored
    BY <1>0 DEF WebJobs, WebTypes
  <2> HIDE DEF j
  <2>3. /\ Completed(wjob'[r].todo)
        /\ \A q \in Requests \ {r} : wjob'[q] = wjob[q]
        /\ Web!At(r, "cache")' => wjob'[r].cached = stored
        /\ ~Web!At(r, "put")' /\ ~Web!At(r, "renew")' /\ ~Web!At(r, "login")'
    BY <1>0, <2>1, <2>2, RecordsDone DEF Web!At
  <2>4. RequestRecords(r)'
    BY <1>0, <2>3 DEF RequestRecords
  <2> QED BY <1>0, <2>1, <2>3, <2>4, RecordsKept
<1>13. ASSUME NEW r \in Requests, Web!CacheSetting(r) PROVE WebRecords'
  <2>1. /\ Web!At(r, "cache") /\ wjob[r].todo # <<>> /\ Head(wjob[r].todo) = "cache"
        /\ cache' = wjob[r].cached /\ Web!Done(r, wjob[r]) /\ UNCHANGED <<stored, session, lock>>
    BY <1>13 DEF Web!CacheSetting, Web!At
  <2>2. cache' \in Web!Credentials
    BY <1>0, <2>1 DEF RequestRecords
  <2>3. RequestRecords(r)' /\ \A q \in Requests \ {r} : wjob'[q] = wjob[q]
    BY <1>0, <2>1, RecordsLater
  <2> QED BY <1>0, <2>1, <2>2, <2>3, RecordsKept
<1>14. ASSUME NEW i \in Ids, Web!Age(i) PROVE WebRecords'
  <2>1. /\ \E age \in Web!Ages : session' = [session EXCEPT ![i].age = age]
        /\ session[i] # Web!Nobody /\ UNCHANGED <<stored, cache, lock, wjob>>
    BY <1>14 DEF Web!Age, Web!Ages
  <2>2. \A k \in Ids : session'[k] = Web!Nobody \/ session'[k].user \in Users
    BY <1>0, <2>1 DEF WebTypes, Sessions
  <2> QED BY <1>0, <2>1, <2>2 DEF WebRecords, RequestRecords, Web!At
<1>15. CASE Web!Boot
  <2>1. /\ \A r \in Requests : wjob'[r] = Web!Idle
        /\ \A k \in Ids : session'[k] = Web!Nobody \/ session'[k] = session[k]
        /\ stored' = stored /\ cache' = stored /\ lock' = Web!None
    BY <1>15 DEF Web!Boot
  <2>2. \A r \in Requests : RequestRecords(r)'
    BY <2>1, RecordsShape DEF RequestRecords, Web!At
  <2> QED BY <1>0, <2>1, <2>2 DEF WebRecords
<1>16. CASE UNCHANGED web
  BY <1>0, <1>16 DEF web, WebRecords, RequestRecords, Web!At
<1>17. ASSUME NEW r \in Requests, NEW i \in Ids,
              \/ Web!Request(r, i, <<>>, Web!NoChange) \/ Web!Request(r, i, <<"logout">>, Web!NoChange)
              \/ \E pw \in Passwords :
                   Web!Request(r, i, Web!Put \o <<"clear", "logout">>, [Web!NoChange EXCEPT !.pw = pw])
              \/ \E user \in Users, pw \in Passwords \union {Web!None} :
                   Web!Request(r, i, Web!Put, [user |-> user, pw |-> pw])
       PROVE  WebRecords'
  BY <1>3, <1>17
<1> QED BY <1>1, <1>2, <1>4, <1>5, <1>6, <1>7, <1>8, <1>9, <1>10, <1>11, <1>12, <1>13, <1>14,
           <1>15, <1>16, <1>17, Zenon DEF Web!Next

(* The sessions are well typed.                                            *)
LEMMA WebTyped == WebInv /\ WebRecords => Web!TypeOK
<1> SUFFICES ASSUME WebInv, WebRecords PROVE Web!TypeOK
  OBVIOUS
<1>1. ASSUME NEW i \in Ids
      PROVE  session[i] = Web!Nobody \/ session[i] \in [user : Users, age : Web!Ages]
  <2>1. session[i] \in Sessions /\ (session[i] = Web!Nobody \/ session[i].user \in Users)
    BY DEF WebInv, WebTypes, WebRecords
  <2> QED BY <2>1 DEF Sessions
<1>2. \A r \in Requests : wjob[r].id \in Ids \union {Web!None}
  BY DEF WebInv, WebTypes, WebJobs
<1> QED BY <1>1, <1>2 DEF WebRecords, Web!TypeOK

-----------------------------------------------------------------------------
(* The lists of nodes.  What was proved of NodeStore is proved of each of  *)
(* its three sizes: the instances of the module with the proofs are those  *)
(* of MCStore, definition by definition.                                   *)
MixedP == INSTANCE NodeStoreProofs WITH
  Nodes <- MixedSize.nodes, Manual <- MixedSize.manual, Subs <- MixedSize.subs,
  Workers <- {Worker}, MaxServers <- MixedSize.servers, MaxRefs <- MixedSize.refs,
  MaxGroups <- MixedSize.groups

OwnP == INSTANCE NodeStoreProofs WITH
  Nodes <- OwnSize.nodes, Manual <- OwnSize.manual, Subs <- OwnSize.subs,
  Workers <- {Worker}, MaxServers <- OwnSize.servers, MaxRefs <- OwnSize.refs,
  MaxGroups <- OwnSize.groups

SubscribedP == INSTANCE NodeStoreProofs WITH
  Nodes <- SubscribedSize.nodes, Manual <- SubscribedSize.manual, Subs <- SubscribedSize.subs,
  Workers <- {Worker}, MaxServers <- SubscribedSize.servers, MaxRefs <- SubscribedSize.refs,
  MaxGroups <- SubscribedSize.groups

(* What starts the lists with a group of the user.                         *)
LEMMA MixedInit ==
  MixedLists!Init => MixedP!Init
  BY Zenon DEF
     MixedLists!NoSub, MixedLists!NoGroup, MixedLists!Idle, MixedLists!Init,
     MixedP!NoSub, MixedP!NoGroup, MixedP!Idle, MixedP!Init

(* What moves the lists with a group of the user.                          *)
LEMMA MixedNext ==
  [MixedLists!Next]_lists => [MixedP!Next]_(MixedP!vars)
  BY Zenon DEF lists,
     MixedLists!Nth, MixedLists!Pick, MixedLists!SetToSeq,
     MixedLists!IsInjective, MixedLists!Cardinality, MixedLists!NoSub,
     MixedLists!NoGroup, MixedLists!Idle, MixedLists!GroupIds,
     MixedLists!Downloads, MixedLists!ListRemove, MixedLists!ListSet,
     MixedLists!Place, MixedLists!Snapshot, MixedLists!Refs,
     MixedLists!GroupHas, MixedLists!AddToGroup, MixedLists!Room,
     MixedLists!RemoveFromGroup, MixedLists!IsIdle, MixedLists!At,
     MixedLists!Begin, MixedLists!Leave, MixedLists!Done,
     MixedLists!ImportAuto, MixedLists!CopyServersToGroup,
     MixedLists!CountServers, MixedLists!AppendServers, MixedLists!FindGroup,
     MixedLists!CreateServerGroup, MixedLists!ListRefs,
     MixedLists!MoveServersToGroup, MixedLists!UnlistRefs,
     MixedLists!CleanupInvalidNodes, MixedLists!Relocate,
     MixedLists!DeleteServers, MixedLists!EditServer, MixedLists!PutServer,
     MixedLists!AddSubscription, MixedLists!AppendGroup,
     MixedLists!AppendSubscription, MixedLists!TakePlace,
     MixedLists!UpdateSubscriptionNodes, MixedLists!Fetch,
     MixedLists!PutSubscription, MixedLists!Regroup, MixedLists!PutGroup,
     MixedLists!EditSubscription, MixedLists!DeleteSubscription,
     MixedLists!DropSubscription, MixedLists!CreateGroup,
     MixedLists!AddServerToGroup, MixedLists!RemoveServersFromGroup,
     MixedLists!UpdateGroup, MixedLists!DeleteGroup, MixedLists!DropNodes,
     MixedLists!DropGroups, MixedLists!CleanupOrphanGroups,
     MixedLists!FindOrphans, MixedLists!Crash, MixedLists!Start,
     MixedLists!Continue, MixedLists!Next, MixedLists!lists, MixedLists!vars,
     MixedP!Nth, MixedP!Pick, MixedP!SetToSeq, MixedP!IsInjective,
     MixedP!Cardinality, MixedP!NoSub, MixedP!NoGroup, MixedP!Idle,
     MixedP!GroupIds, MixedP!Downloads, MixedP!ListRemove, MixedP!ListSet,
     MixedP!Place, MixedP!Snapshot, MixedP!Refs, MixedP!GroupHas,
     MixedP!AddToGroup, MixedP!Room, MixedP!RemoveFromGroup, MixedP!IsIdle,
     MixedP!At, MixedP!Begin, MixedP!Leave, MixedP!Done, MixedP!ImportAuto,
     MixedP!CopyServersToGroup, MixedP!CountServers, MixedP!AppendServers,
     MixedP!FindGroup, MixedP!CreateServerGroup, MixedP!ListRefs,
     MixedP!MoveServersToGroup, MixedP!UnlistRefs, MixedP!CleanupInvalidNodes,
     MixedP!Relocate, MixedP!DeleteServers, MixedP!EditServer,
     MixedP!PutServer, MixedP!AddSubscription, MixedP!AppendGroup,
     MixedP!AppendSubscription, MixedP!TakePlace,
     MixedP!UpdateSubscriptionNodes, MixedP!Fetch, MixedP!PutSubscription,
     MixedP!Regroup, MixedP!PutGroup, MixedP!EditSubscription,
     MixedP!DeleteSubscription, MixedP!DropSubscription, MixedP!CreateGroup,
     MixedP!AddServerToGroup, MixedP!RemoveServersFromGroup,
     MixedP!UpdateGroup, MixedP!DeleteGroup, MixedP!DropNodes,
     MixedP!DropGroups, MixedP!CleanupOrphanGroups, MixedP!FindOrphans,
     MixedP!Crash, MixedP!Start, MixedP!Continue, MixedP!Next, MixedP!lists,
     MixedP!vars

(* What is said of the lists with a group of the user.                     *)
LEMMA MixedProperties ==
  /\ MixedP!TypeOK => MixedLists!TypeOK
  /\ MixedP!NewRefsAreTheNewNodes => MixedLists!NewRefsAreTheNewNodes
  /\ MixedP!MoveLosesNothing => MixedLists!MoveLosesNothing
  /\ MixedP!CleanupIsExact => MixedLists!CleanupIsExact
  /\ MixedP!SubscriptionsKept => MixedLists!SubscriptionsKept
  BY Zenon DEF
     MixedLists!TypeOK, MixedLists!NewRefsAreTheNewNodes,
     MixedLists!MoveLosesNothing, MixedLists!CleanupIsExact,
     MixedLists!SubscriptionsKept, MixedLists!Listed, MixedLists!ListRefs,
     MixedLists!UnlistRefs, MixedLists!DropGroups, MixedLists!DropSubscription,
     MixedLists!Place, MixedLists!Nth, MixedLists!Pick, MixedLists!ListRemove,
     MixedLists!AddToGroup, MixedLists!RemoveFromGroup, MixedLists!Done,
     MixedLists!Leave, MixedLists!At, MixedLists!IsIdle, MixedLists!Idle,
     MixedLists!NoSub, MixedLists!NoGroup, MixedLists!GroupIds,
     MixedLists!Downloads, MixedLists!Cardinality, MixedP!TypeOK,
     MixedP!NewRefsAreTheNewNodes, MixedP!MoveLosesNothing,
     MixedP!CleanupIsExact, MixedP!SubscriptionsKept, MixedP!Listed,
     MixedP!ListRefs, MixedP!UnlistRefs, MixedP!DropGroups,
     MixedP!DropSubscription, MixedP!Place, MixedP!Nth, MixedP!Pick,
     MixedP!ListRemove, MixedP!AddToGroup, MixedP!RemoveFromGroup, MixedP!Done,
     MixedP!Leave, MixedP!At, MixedP!IsIdle, MixedP!Idle, MixedP!NoSub,
     MixedP!NoGroup, MixedP!GroupIds, MixedP!Downloads, MixedP!Cardinality

(* A step of the lists with a group of the user keeps their invariant.     *)
LEMMA MixedStep ==
  ASSUME MixedP!IInv, [MixedLists!Next]_lists
  PROVE  /\ MixedP!IInv'
         /\ MixedLists!NewRefsAreTheNewNodes /\ MixedLists!MoveLosesNothing
         /\ MixedLists!CleanupIsExact
         /\ MixedLists!SubscriptionsKept
<1>1. MixedP!StoreAssumption /\ MixedP!Single
  BY PartsAssumption DEF MixedLists!StoreAssumption, MixedP!StoreAssumption, MixedP!Single
<1>2. [MixedP!Next]_(MixedP!vars)
  BY MixedNext
<1>3. MixedP!IInv'
  BY <1>1, <1>2, MixedP!IInvNext
<1>4. /\ MixedP!NewRefsAreTheNewNodes /\ MixedP!MoveLosesNothing
      /\ MixedP!CleanupIsExact /\ MixedP!SubscriptionsKept
  BY <1>1, <1>2, MixedP!NewRefsShown, MixedP!MoveShown, MixedP!CleanupShown, MixedP!SubscriptionsShown
<1> QED BY <1>3, <1>4, MixedProperties

(* What starts the lists of own nodes.                                     *)
LEMMA OwnInit ==
  OwnLists!Init => OwnP!Init
  BY Zenon DEF
     OwnLists!NoSub, OwnLists!NoGroup, OwnLists!Idle, OwnLists!Init,
     OwnP!NoSub, OwnP!NoGroup, OwnP!Idle, OwnP!Init

(* What moves the lists of own nodes.                                      *)
LEMMA OwnNext ==
  [OwnLists!Next]_lists => [OwnP!Next]_(OwnP!vars)
  BY Zenon DEF lists,
     OwnLists!Nth, OwnLists!Pick, OwnLists!SetToSeq, OwnLists!IsInjective,
     OwnLists!Cardinality, OwnLists!NoSub, OwnLists!NoGroup, OwnLists!Idle,
     OwnLists!GroupIds, OwnLists!Downloads, OwnLists!ListRemove,
     OwnLists!ListSet, OwnLists!Place, OwnLists!Snapshot, OwnLists!Refs,
     OwnLists!GroupHas, OwnLists!AddToGroup, OwnLists!Room,
     OwnLists!RemoveFromGroup, OwnLists!IsIdle, OwnLists!At, OwnLists!Begin,
     OwnLists!Leave, OwnLists!Done, OwnLists!ImportAuto,
     OwnLists!CopyServersToGroup, OwnLists!CountServers,
     OwnLists!AppendServers, OwnLists!FindGroup, OwnLists!CreateServerGroup,
     OwnLists!ListRefs, OwnLists!MoveServersToGroup, OwnLists!UnlistRefs,
     OwnLists!CleanupInvalidNodes, OwnLists!Relocate, OwnLists!DeleteServers,
     OwnLists!EditServer, OwnLists!PutServer, OwnLists!AddSubscription,
     OwnLists!AppendGroup, OwnLists!AppendSubscription, OwnLists!TakePlace,
     OwnLists!UpdateSubscriptionNodes, OwnLists!Fetch,
     OwnLists!PutSubscription, OwnLists!Regroup, OwnLists!PutGroup,
     OwnLists!EditSubscription, OwnLists!DeleteSubscription,
     OwnLists!DropSubscription, OwnLists!CreateGroup,
     OwnLists!AddServerToGroup, OwnLists!RemoveServersFromGroup,
     OwnLists!UpdateGroup, OwnLists!DeleteGroup, OwnLists!DropNodes,
     OwnLists!DropGroups, OwnLists!CleanupOrphanGroups, OwnLists!FindOrphans,
     OwnLists!Crash, OwnLists!Start, OwnLists!Continue, OwnLists!Next,
     OwnLists!lists, OwnLists!vars, OwnP!Nth, OwnP!Pick, OwnP!SetToSeq,
     OwnP!IsInjective, OwnP!Cardinality, OwnP!NoSub, OwnP!NoGroup, OwnP!Idle,
     OwnP!GroupIds, OwnP!Downloads, OwnP!ListRemove, OwnP!ListSet, OwnP!Place,
     OwnP!Snapshot, OwnP!Refs, OwnP!GroupHas, OwnP!AddToGroup, OwnP!Room,
     OwnP!RemoveFromGroup, OwnP!IsIdle, OwnP!At, OwnP!Begin, OwnP!Leave,
     OwnP!Done, OwnP!ImportAuto, OwnP!CopyServersToGroup, OwnP!CountServers,
     OwnP!AppendServers, OwnP!FindGroup, OwnP!CreateServerGroup, OwnP!ListRefs,
     OwnP!MoveServersToGroup, OwnP!UnlistRefs, OwnP!CleanupInvalidNodes,
     OwnP!Relocate, OwnP!DeleteServers, OwnP!EditServer, OwnP!PutServer,
     OwnP!AddSubscription, OwnP!AppendGroup, OwnP!AppendSubscription,
     OwnP!TakePlace, OwnP!UpdateSubscriptionNodes, OwnP!Fetch,
     OwnP!PutSubscription, OwnP!Regroup, OwnP!PutGroup, OwnP!EditSubscription,
     OwnP!DeleteSubscription, OwnP!DropSubscription, OwnP!CreateGroup,
     OwnP!AddServerToGroup, OwnP!RemoveServersFromGroup, OwnP!UpdateGroup,
     OwnP!DeleteGroup, OwnP!DropNodes, OwnP!DropGroups,
     OwnP!CleanupOrphanGroups, OwnP!FindOrphans, OwnP!Crash, OwnP!Start,
     OwnP!Continue, OwnP!Next, OwnP!lists, OwnP!vars

(* What is said of the lists of own nodes.                                 *)
LEMMA OwnProperties ==
  /\ OwnP!TypeOK => OwnLists!TypeOK
  /\ OwnP!NewRefsAreTheNewNodes => OwnLists!NewRefsAreTheNewNodes
  /\ OwnP!MoveLosesNothing => OwnLists!MoveLosesNothing
  /\ OwnP!CleanupIsExact => OwnLists!CleanupIsExact
  /\ OwnP!SubscriptionsKept => OwnLists!SubscriptionsKept
  BY Zenon DEF
     OwnLists!TypeOK, OwnLists!NewRefsAreTheNewNodes,
     OwnLists!MoveLosesNothing, OwnLists!CleanupIsExact,
     OwnLists!SubscriptionsKept, OwnLists!Listed, OwnLists!ListRefs,
     OwnLists!UnlistRefs, OwnLists!DropGroups, OwnLists!DropSubscription,
     OwnLists!Place, OwnLists!Nth, OwnLists!Pick, OwnLists!ListRemove,
     OwnLists!AddToGroup, OwnLists!RemoveFromGroup, OwnLists!Done,
     OwnLists!Leave, OwnLists!At, OwnLists!IsIdle, OwnLists!Idle,
     OwnLists!NoSub, OwnLists!NoGroup, OwnLists!GroupIds, OwnLists!Downloads,
     OwnLists!Cardinality, OwnP!TypeOK, OwnP!NewRefsAreTheNewNodes,
     OwnP!MoveLosesNothing, OwnP!CleanupIsExact, OwnP!SubscriptionsKept,
     OwnP!Listed, OwnP!ListRefs, OwnP!UnlistRefs, OwnP!DropGroups,
     OwnP!DropSubscription, OwnP!Place, OwnP!Nth, OwnP!Pick, OwnP!ListRemove,
     OwnP!AddToGroup, OwnP!RemoveFromGroup, OwnP!Done, OwnP!Leave, OwnP!At,
     OwnP!IsIdle, OwnP!Idle, OwnP!NoSub, OwnP!NoGroup, OwnP!GroupIds,
     OwnP!Downloads, OwnP!Cardinality

(* A step of the lists of own nodes keeps their invariant.                 *)
LEMMA OwnStep ==
  ASSUME OwnP!IInv, [OwnLists!Next]_lists
  PROVE  /\ OwnP!IInv'
         /\ OwnLists!NewRefsAreTheNewNodes /\ OwnLists!MoveLosesNothing
         /\ OwnLists!CleanupIsExact
         /\ OwnLists!SubscriptionsKept
<1>1. OwnP!StoreAssumption /\ OwnP!Single
  BY PartsAssumption DEF OwnLists!StoreAssumption, OwnP!StoreAssumption, OwnP!Single
<1>2. [OwnP!Next]_(OwnP!vars)
  BY OwnNext
<1>3. OwnP!IInv'
  BY <1>1, <1>2, OwnP!IInvNext
<1>4. /\ OwnP!NewRefsAreTheNewNodes /\ OwnP!MoveLosesNothing
      /\ OwnP!CleanupIsExact /\ OwnP!SubscriptionsKept
  BY <1>1, <1>2, OwnP!NewRefsShown, OwnP!MoveShown, OwnP!CleanupShown, OwnP!SubscriptionsShown
<1> QED BY <1>3, <1>4, OwnProperties

(* What starts the lists of subscriptions.                                 *)
LEMMA SubscribedInit ==
  SubscriptionLists!Init => SubscribedP!Init
  BY Zenon DEF
     SubscriptionLists!NoSub, SubscriptionLists!NoGroup,
     SubscriptionLists!Idle, SubscriptionLists!Init, SubscribedP!NoSub,
     SubscribedP!NoGroup, SubscribedP!Idle, SubscribedP!Init

(* What moves the lists of subscriptions.                                  *)
LEMMA SubscribedNext ==
  [SubscriptionLists!Next]_lists => [SubscribedP!Next]_(SubscribedP!vars)
  BY Zenon DEF lists,
     SubscriptionLists!Nth, SubscriptionLists!Pick, SubscriptionLists!SetToSeq,
     SubscriptionLists!IsInjective, SubscriptionLists!Cardinality,
     SubscriptionLists!NoSub, SubscriptionLists!NoGroup,
     SubscriptionLists!Idle, SubscriptionLists!GroupIds,
     SubscriptionLists!Downloads, SubscriptionLists!ListRemove,
     SubscriptionLists!ListSet, SubscriptionLists!Place,
     SubscriptionLists!Snapshot, SubscriptionLists!Refs,
     SubscriptionLists!GroupHas, SubscriptionLists!AddToGroup,
     SubscriptionLists!Room, SubscriptionLists!RemoveFromGroup,
     SubscriptionLists!IsIdle, SubscriptionLists!At, SubscriptionLists!Begin,
     SubscriptionLists!Leave, SubscriptionLists!Done,
     SubscriptionLists!ImportAuto, SubscriptionLists!CopyServersToGroup,
     SubscriptionLists!CountServers, SubscriptionLists!AppendServers,
     SubscriptionLists!FindGroup, SubscriptionLists!CreateServerGroup,
     SubscriptionLists!ListRefs, SubscriptionLists!MoveServersToGroup,
     SubscriptionLists!UnlistRefs, SubscriptionLists!CleanupInvalidNodes,
     SubscriptionLists!Relocate, SubscriptionLists!DeleteServers,
     SubscriptionLists!EditServer, SubscriptionLists!PutServer,
     SubscriptionLists!AddSubscription, SubscriptionLists!AppendGroup,
     SubscriptionLists!AppendSubscription, SubscriptionLists!TakePlace,
     SubscriptionLists!UpdateSubscriptionNodes, SubscriptionLists!Fetch,
     SubscriptionLists!PutSubscription, SubscriptionLists!Regroup,
     SubscriptionLists!PutGroup, SubscriptionLists!EditSubscription,
     SubscriptionLists!DeleteSubscription, SubscriptionLists!DropSubscription,
     SubscriptionLists!CreateGroup, SubscriptionLists!AddServerToGroup,
     SubscriptionLists!RemoveServersFromGroup, SubscriptionLists!UpdateGroup,
     SubscriptionLists!DeleteGroup, SubscriptionLists!DropNodes,
     SubscriptionLists!DropGroups, SubscriptionLists!CleanupOrphanGroups,
     SubscriptionLists!FindOrphans, SubscriptionLists!Crash,
     SubscriptionLists!Start, SubscriptionLists!Continue,
     SubscriptionLists!Next, SubscriptionLists!lists, SubscriptionLists!vars,
     SubscribedP!Nth, SubscribedP!Pick, SubscribedP!SetToSeq,
     SubscribedP!IsInjective, SubscribedP!Cardinality, SubscribedP!NoSub,
     SubscribedP!NoGroup, SubscribedP!Idle, SubscribedP!GroupIds,
     SubscribedP!Downloads, SubscribedP!ListRemove, SubscribedP!ListSet,
     SubscribedP!Place, SubscribedP!Snapshot, SubscribedP!Refs,
     SubscribedP!GroupHas, SubscribedP!AddToGroup, SubscribedP!Room,
     SubscribedP!RemoveFromGroup, SubscribedP!IsIdle, SubscribedP!At,
     SubscribedP!Begin, SubscribedP!Leave, SubscribedP!Done,
     SubscribedP!ImportAuto, SubscribedP!CopyServersToGroup,
     SubscribedP!CountServers, SubscribedP!AppendServers,
     SubscribedP!FindGroup, SubscribedP!CreateServerGroup,
     SubscribedP!ListRefs, SubscribedP!MoveServersToGroup,
     SubscribedP!UnlistRefs, SubscribedP!CleanupInvalidNodes,
     SubscribedP!Relocate, SubscribedP!DeleteServers, SubscribedP!EditServer,
     SubscribedP!PutServer, SubscribedP!AddSubscription,
     SubscribedP!AppendGroup, SubscribedP!AppendSubscription,
     SubscribedP!TakePlace, SubscribedP!UpdateSubscriptionNodes,
     SubscribedP!Fetch, SubscribedP!PutSubscription, SubscribedP!Regroup,
     SubscribedP!PutGroup, SubscribedP!EditSubscription,
     SubscribedP!DeleteSubscription, SubscribedP!DropSubscription,
     SubscribedP!CreateGroup, SubscribedP!AddServerToGroup,
     SubscribedP!RemoveServersFromGroup, SubscribedP!UpdateGroup,
     SubscribedP!DeleteGroup, SubscribedP!DropNodes, SubscribedP!DropGroups,
     SubscribedP!CleanupOrphanGroups, SubscribedP!FindOrphans,
     SubscribedP!Crash, SubscribedP!Start, SubscribedP!Continue,
     SubscribedP!Next, SubscribedP!lists, SubscribedP!vars

(* What is said of the lists of subscriptions.                             *)
LEMMA SubscribedProperties ==
  /\ SubscribedP!TypeOK => SubscriptionLists!TypeOK
  /\ SubscribedP!NewRefsAreTheNewNodes => SubscriptionLists!NewRefsAreTheNewNodes
  /\ SubscribedP!MoveLosesNothing => SubscriptionLists!MoveLosesNothing
  /\ SubscribedP!CleanupIsExact => SubscriptionLists!CleanupIsExact
  /\ SubscribedP!SubscriptionsKept => SubscriptionLists!SubscriptionsKept
  BY Zenon DEF
     SubscriptionLists!TypeOK, SubscriptionLists!NewRefsAreTheNewNodes,
     SubscriptionLists!MoveLosesNothing, SubscriptionLists!CleanupIsExact,
     SubscriptionLists!SubscriptionsKept, SubscriptionLists!Listed,
     SubscriptionLists!ListRefs, SubscriptionLists!UnlistRefs,
     SubscriptionLists!DropGroups, SubscriptionLists!DropSubscription,
     SubscriptionLists!Place, SubscriptionLists!Nth, SubscriptionLists!Pick,
     SubscriptionLists!ListRemove, SubscriptionLists!AddToGroup,
     SubscriptionLists!RemoveFromGroup, SubscriptionLists!Done,
     SubscriptionLists!Leave, SubscriptionLists!At, SubscriptionLists!IsIdle,
     SubscriptionLists!Idle, SubscriptionLists!NoSub,
     SubscriptionLists!NoGroup, SubscriptionLists!GroupIds,
     SubscriptionLists!Downloads, SubscriptionLists!Cardinality,
     SubscribedP!TypeOK, SubscribedP!NewRefsAreTheNewNodes,
     SubscribedP!MoveLosesNothing, SubscribedP!CleanupIsExact,
     SubscribedP!SubscriptionsKept, SubscribedP!Listed, SubscribedP!ListRefs,
     SubscribedP!UnlistRefs, SubscribedP!DropGroups,
     SubscribedP!DropSubscription, SubscribedP!Place, SubscribedP!Nth,
     SubscribedP!Pick, SubscribedP!ListRemove, SubscribedP!AddToGroup,
     SubscribedP!RemoveFromGroup, SubscribedP!Done, SubscribedP!Leave,
     SubscribedP!At, SubscribedP!IsIdle, SubscribedP!Idle, SubscribedP!NoSub,
     SubscribedP!NoGroup, SubscribedP!GroupIds, SubscribedP!Downloads,
     SubscribedP!Cardinality

(* A step of the lists of subscriptions keeps their invariant.             *)
LEMMA SubscribedStep ==
  ASSUME SubscribedP!IInv, [SubscriptionLists!Next]_lists
  PROVE  /\ SubscribedP!IInv'
         /\ SubscriptionLists!NewRefsAreTheNewNodes /\ SubscriptionLists!MoveLosesNothing
         /\ SubscriptionLists!CleanupIsExact
         /\ SubscriptionLists!SubscriptionsKept
<1>1. SubscribedP!StoreAssumption /\ SubscribedP!Single
  BY PartsAssumption DEF SubscriptionLists!StoreAssumption, SubscribedP!StoreAssumption, SubscribedP!Single
<1>2. [SubscribedP!Next]_(SubscribedP!vars)
  BY SubscribedNext
<1>3. SubscribedP!IInv'
  BY <1>1, <1>2, SubscribedP!IInvNext
<1>4. /\ SubscribedP!NewRefsAreTheNewNodes /\ SubscribedP!MoveLosesNothing
      /\ SubscribedP!CleanupIsExact /\ SubscribedP!SubscriptionsKept
  BY <1>1, <1>2, SubscribedP!NewRefsShown, SubscribedP!MoveShown, SubscribedP!CleanupShown, SubscribedP!SubscriptionsShown
<1> QED BY <1>3, <1>4, SubscribedProperties

ListsInv == OfLists(MixedP!IInv, OwnP!IInv, SubscribedP!IInv)

(* The lists that move keep their invariant, and what is said of them      *)
(* holds of each step.                                                     *)
LEMMA ListsNext ==
  ASSUME ListsInv, [Next]_<<part, lists, sidecars, outbounds, web, scores, dns, files>>
  PROVE  /\ ListsInv'
         /\ OfLists(MixedLists!NewRefsAreTheNewNodes, OwnLists!NewRefsAreTheNewNodes,
                    SubscriptionLists!NewRefsAreTheNewNodes)
         /\ OfLists(MixedLists!MoveLosesNothing, OwnLists!MoveLosesNothing,
                    SubscriptionLists!MoveLosesNothing)
         /\ OfLists(MixedLists!CleanupIsExact, OwnLists!CleanupIsExact,
                    SubscriptionLists!CleanupIsExact)
         /\ OfLists(MixedLists!SubscriptionsKept, OwnLists!SubscriptionsKept,
                    SubscriptionLists!SubscriptionsKept)
<1>1. part' = part
  BY DEF Next
<1>2. CASE part = "mixed"
  <2>1. [MixedLists!Next]_lists
    BY <1>2 DEF Next, SidecarParts
  <2> QED BY <1>1, <1>2, <2>1, MixedStep DEF ListsInv, OfLists
<1>3. CASE part = "own"
  <2>1. [OwnLists!Next]_lists
    BY <1>3 DEF Next, SidecarParts
  <2> QED BY <1>1, <1>3, <2>1, OwnStep DEF ListsInv, OfLists
<1>4. CASE part = "subscribed"
  <2>1. [SubscriptionLists!Next]_lists
    BY <1>4 DEF Next, SidecarParts
  <2> QED BY <1>1, <1>4, <2>1, SubscribedStep DEF ListsInv, OfLists
<1>5. CASE part \notin StoreParts
  BY <1>1, <1>5 DEF ListsInv, OfLists, StoreParts
<1> QED BY <1>2, <1>3, <1>4, <1>5 DEF StoreParts

(* They start well.                                                        *)
LEMMA ListsInit == Init => ListsInv
<1> SUFFICES ASSUME Init PROVE ListsInv
  OBVIOUS
<1>1. part = "mixed" => MixedP!IInv
  BY MixedInit, MixedP!IInvInit DEF Init
<1>2. part = "own" => OwnP!IInv
  BY OwnInit, OwnP!IInvInit DEF Init
<1>3. part = "subscribed" => SubscribedP!IInv
  BY SubscribedInit, SubscribedP!IInvInit DEF Init
<1> QED BY <1>1, <1>2, <1>3 DEF ListsInv, OfLists

(* "never reuses an existing node" (handlers.go:1583): though the place of *)
(* a new node is only guessed from the length of the list, what an import  *)
(* or a copy lists is the node it has appended; with any nodes, groups and *)
(* subscriptions.                                                          *)
THEOREM ImportsListTheirNodes == Spec => NewRefsAreTheNewNodes
BY ListsInit, ListsNext, PTL DEF Spec, NewRefsAreTheNewNodes

(* A move lists its nodes in the target before it takes them out of the    *)
(* source (scheduler.go:154), which is another group: nothing is lost at   *)
(* whichever step the process dies.                                        *)
THEOREM MovesLoseNothing == Spec => MoveLosesNothing
BY ListsInit, ListsNext, PTL DEF Spec, MoveLosesNothing

(* The places a cleanup of orphan groups has found are those of the        *)
(* orphans when it deletes (handlers.go:1993), although users create       *)
(* groups and list nodes in them meanwhile.                                *)
THEOREM CleanupsAreExact == Spec => CleanupIsExact
BY ListsInit, ListsNext, PTL DEF Spec, CleanupIsExact

(* The place with which a download is started is still that of its         *)
(* subscription when the download is stored (handlers.go:1926, 2094): no   *)
(* subscription is written over, and only the one that is deleted goes.    *)
THEOREM SubscriptionsStay == Spec => SubscriptionsKept
BY ListsInit, ListsNext, PTL DEF Spec, SubscriptionsKept
-----------------------------------------------------------------------------
(* The inbounds.  What was proved of InboundNodes is proved of it with and *)
(* without crashes, in the same way.                                       *)
SidecarsP == INSTANCE InboundNodesProofs WITH
  Ordinary <- SidecarsSize.users, Cfdo <- SidecarsSize.cfdo,
  CfGoodNet <- SidecarsSize.goodnet, Ports <- SidecarsSize.ports, Lists <- SidecarsSize.lists,
  Handlers <- {Handler}, WithCrash <- FALSE, MaxServers <- SidecarsSize.servers,
  servers <- nodes, job <- ijob

BootsP == INSTANCE InboundNodesProofs WITH
  Ordinary <- BootsSize.users, Cfdo <- BootsSize.cfdo,
  CfGoodNet <- BootsSize.goodnet, Ports <- BootsSize.ports, Lists <- BootsSize.lists,
  Handlers <- {Handler}, WithCrash <- TRUE, MaxServers <- BootsSize.servers,
  servers <- nodes, job <- ijob

(* What starts the inbounds without crashes.                               *)
LEMMA SidecarsInit ==
  Sidecars!Init => SidecarsP!Init
  BY Zenon DEF
     Sidecars!Inbounds, Sidecars!Groups, Sidecars!NoPort, Sidecars!Idle,
     Sidecars!Node, Sidecars!Source, Sidecars!Sources, Sidecars!Init,
     SidecarsP!Inbounds, SidecarsP!Groups, SidecarsP!NoPort, SidecarsP!Idle,
     SidecarsP!Node, SidecarsP!Source, SidecarsP!Sources, SidecarsP!Init

(* What moves the inbounds without crashes.                                *)
LEMMA SidecarsNext ==
  [Sidecars!Next]_sidecars => [SidecarsP!Next]_(SidecarsP!vars)
  BY Zenon DEF sidecars,
     Sidecars!Nth, Sidecars!Pick, Sidecars!SetToSeq, Sidecars!IsInjective,
     Sidecars!Cardinality, Sidecars!Restrict, Sidecars!Inbounds,
     Sidecars!Groups, Sidecars!NoPort, Sidecars!Rows, Sidecars!Distinct,
     Sidecars!lists, Sidecars!tables, Sidecars!Idle, Sidecars!Node,
     Sidecars!FromInbound, Sidecars!Source, Sidecars!Sources, Sidecars!OwnServers,
     Sidecars!Running, Sidecars!NewServers, Sidecars!NewPlace,
     Sidecars!NewRefs, Sidecars!At, Sidecars!Begin, Sidecars!Done,
     Sidecars!SetCustomInbounds, Sidecars!RestartBuiltinProxy, Sidecars!Stop,
     Sidecars!WaitForStops, Sidecars!CloseSocket, Sidecars!First,
     Sidecars!Starts, Sidecars!Ensuring, Sidecars!Id, Sidecars!Starting,
     Sidecars!Mine, Sidecars!Next1, Sidecars!Register, Sidecars!Free,
     Sidecars!Listen, Sidecars!ListenFails, Sidecars!WithPort,
     Sidecars!SyncServers, Sidecars!SetAddr, Sidecars!EnsureDone,
     Sidecars!Store, Sidecars!Read, Sidecars!PutServers, Sidecars!PutGroup,
     Sidecars!Quiet, Sidecars!StartKernel, Sidecars!TakeKind, Sidecars!Import,
     Sidecars!ListNode, Sidecars!Crash, Sidecars!FindShared,
     Sidecars!AppendCopy, Sidecars!PutCopy, Sidecars!Parted, Sidecars!Load,
     Sidecars!Continue, Sidecars!Next, Sidecars!vars, SidecarsP!Nth,
     SidecarsP!Pick, SidecarsP!SetToSeq, SidecarsP!IsInjective,
     SidecarsP!Cardinality, SidecarsP!Restrict, SidecarsP!Inbounds,
     SidecarsP!Groups, SidecarsP!NoPort, SidecarsP!Rows, SidecarsP!Distinct,
     SidecarsP!lists, SidecarsP!tables, SidecarsP!Idle, SidecarsP!Node,
     SidecarsP!FromInbound, SidecarsP!Source, SidecarsP!Sources,
     SidecarsP!OwnServers, SidecarsP!Running, SidecarsP!NewServers,
     SidecarsP!NewPlace, SidecarsP!NewRefs, SidecarsP!At, SidecarsP!Begin,
     SidecarsP!Done, SidecarsP!SetCustomInbounds,
     SidecarsP!RestartBuiltinProxy, SidecarsP!Stop, SidecarsP!WaitForStops,
     SidecarsP!CloseSocket, SidecarsP!First, SidecarsP!Starts,
     SidecarsP!Ensuring, SidecarsP!Id, SidecarsP!Starting, SidecarsP!Mine,
     SidecarsP!Next1, SidecarsP!Register, SidecarsP!Free, SidecarsP!Listen,
     SidecarsP!ListenFails, SidecarsP!WithPort, SidecarsP!SyncServers,
     SidecarsP!SetAddr, SidecarsP!EnsureDone, SidecarsP!Store, SidecarsP!Read,
     SidecarsP!PutServers, SidecarsP!PutGroup, SidecarsP!Quiet,
     SidecarsP!StartKernel, SidecarsP!TakeKind, SidecarsP!Import,
     SidecarsP!ListNode, SidecarsP!Crash, SidecarsP!FindShared,
     SidecarsP!AppendCopy, SidecarsP!PutCopy, SidecarsP!Parted, SidecarsP!Load,
     SidecarsP!Continue, SidecarsP!Next, SidecarsP!vars

(* What is said of the inbounds without crashes, and of the migration.     *)
LEMMA SidecarsTables ==
  /\ SidecarsP!TableMatchesSockets => Sidecars!TableMatchesSockets
  /\ SidecarsP!SidecarsHaveNodes => Sidecars!SidecarsHaveNodes
  BY Zenon DEF
     Sidecars!Quiet, Sidecars!Idle, Sidecars!NoPort,
     Sidecars!TableMatchesSockets, Sidecars!SidecarsHaveNodes, SidecarsP!Quiet,
     SidecarsP!Idle, SidecarsP!NoPort, SidecarsP!TableMatchesSockets,
     SidecarsP!SidecarsHaveNodes
(* What is said of the groups without crashes.                             *)
LEMMA SidecarsMembers ==
  SidecarsP!GroupsKeepMembers => Sidecars!GroupsKeepMembers
  BY Zenon DEF
     Sidecars!Quiet, Sidecars!Idle, Sidecars!NoPort, Sidecars!Inbounds,
     Sidecars!Groups, Sidecars!Source, Sidecars!GroupsKeepMembers,
     SidecarsP!Quiet, SidecarsP!Idle, SidecarsP!NoPort, SidecarsP!Inbounds,
     SidecarsP!Groups, SidecarsP!Source, SidecarsP!GroupsKeepMembers
(* The types without crashes.                                              *)
LEMMA SidecarsTypes ==
  SidecarsP!TypeOK => Sidecars!TypeOK
  BY Zenon DEF
     Sidecars!Inbounds, Sidecars!Groups, Sidecars!NoPort, Sidecars!Rows,
     Sidecars!TypeOK, SidecarsP!Inbounds, SidecarsP!Groups, SidecarsP!NoPort,
     SidecarsP!Rows, SidecarsP!TypeOK
(* What is said of the migration without crashes.                          *)
LEMMA SidecarsParting ==
  SidecarsP!NodesParted => Sidecars!NodesParted
  BY Zenon DEF
     Sidecars!At, Sidecars!Done, Sidecars!Idle, Sidecars!NoPort,
     Sidecars!Parted, Sidecars!NodesParted, Sidecars!lists, Sidecars!tables,
     SidecarsP!At, SidecarsP!Done, SidecarsP!Idle, SidecarsP!NoPort,
     SidecarsP!Parted, SidecarsP!NodesParted, SidecarsP!lists, SidecarsP!tables

(* What starts the inbounds with crashes.                                  *)
LEMMA BootsInit ==
  Boots!Init => BootsP!Init
  BY Zenon DEF
     Boots!Inbounds, Boots!Groups, Boots!NoPort, Boots!Idle, Boots!Node,
     Boots!Source, Boots!Sources, Boots!Init, BootsP!Inbounds, BootsP!Groups,
     BootsP!NoPort, BootsP!Idle, BootsP!Node, BootsP!Source, BootsP!Sources,
     BootsP!Init

(* What moves the inbounds with crashes.                                   *)
LEMMA BootsNext ==
  [Boots!Next]_sidecars => [BootsP!Next]_(BootsP!vars)
  BY Zenon DEF sidecars,
     Boots!Nth, Boots!Pick, Boots!SetToSeq, Boots!IsInjective,
     Boots!Cardinality, Boots!Restrict, Boots!Inbounds, Boots!Groups,
     Boots!NoPort, Boots!Rows, Boots!Distinct, Boots!lists, Boots!tables,
     Boots!Idle, Boots!Node, Boots!FromInbound, Boots!Source, Boots!Sources,
     Boots!OwnServers, Boots!Running, Boots!NewServers, Boots!NewPlace,
     Boots!NewRefs, Boots!At, Boots!Begin, Boots!Done, Boots!SetCustomInbounds,
     Boots!RestartBuiltinProxy, Boots!Stop, Boots!WaitForStops,
     Boots!CloseSocket, Boots!First, Boots!Starts, Boots!Ensuring, Boots!Id,
     Boots!Starting, Boots!Mine, Boots!Next1, Boots!Register, Boots!Free,
     Boots!Listen, Boots!ListenFails, Boots!WithPort, Boots!SyncServers,
     Boots!SetAddr, Boots!EnsureDone, Boots!Store, Boots!Read,
     Boots!PutServers, Boots!PutGroup, Boots!Quiet, Boots!StartKernel,
     Boots!TakeKind, Boots!Import, Boots!ListNode, Boots!Crash,
     Boots!FindShared, Boots!AppendCopy, Boots!PutCopy, Boots!Parted,
     Boots!Load, Boots!Continue, Boots!Next, Boots!vars, BootsP!Nth,
     BootsP!Pick, BootsP!SetToSeq, BootsP!IsInjective, BootsP!Cardinality,
     BootsP!Restrict, BootsP!Inbounds, BootsP!Groups, BootsP!NoPort,
     BootsP!Rows, BootsP!Distinct, BootsP!lists, BootsP!tables, BootsP!Idle,
     BootsP!Node, BootsP!FromInbound, BootsP!Source, BootsP!Sources,
     BootsP!OwnServers, BootsP!Running, BootsP!NewServers, BootsP!NewPlace,
     BootsP!NewRefs, BootsP!At, BootsP!Begin, BootsP!Done,
     BootsP!SetCustomInbounds, BootsP!RestartBuiltinProxy, BootsP!Stop,
     BootsP!WaitForStops, BootsP!CloseSocket, BootsP!First, BootsP!Starts,
     BootsP!Ensuring, BootsP!Id, BootsP!Starting, BootsP!Mine, BootsP!Next1,
     BootsP!Register, BootsP!Free, BootsP!Listen, BootsP!ListenFails,
     BootsP!WithPort, BootsP!SyncServers, BootsP!SetAddr, BootsP!EnsureDone,
     BootsP!Store, BootsP!Read, BootsP!PutServers, BootsP!PutGroup,
     BootsP!Quiet, BootsP!StartKernel, BootsP!TakeKind, BootsP!Import,
     BootsP!ListNode, BootsP!Crash, BootsP!FindShared, BootsP!AppendCopy,
     BootsP!PutCopy, BootsP!Parted, BootsP!Load, BootsP!Continue, BootsP!Next,
     BootsP!vars

(* What is said of the inbounds with crashes, and of the migration.        *)
LEMMA BootsTables ==
  /\ BootsP!TableMatchesSockets => Boots!TableMatchesSockets
  /\ BootsP!SidecarsHaveNodes => Boots!SidecarsHaveNodes
  BY Zenon DEF
     Boots!Quiet, Boots!Idle, Boots!NoPort, Boots!TableMatchesSockets,
     Boots!SidecarsHaveNodes, BootsP!Quiet, BootsP!Idle, BootsP!NoPort,
     BootsP!TableMatchesSockets, BootsP!SidecarsHaveNodes
(* What is said of the groups with crashes.                                *)
LEMMA BootsMembers ==
  BootsP!GroupsKeepMembers => Boots!GroupsKeepMembers
  BY Zenon DEF
     Boots!Quiet, Boots!Idle, Boots!NoPort, Boots!Inbounds, Boots!Groups,
     Boots!Source, Boots!GroupsKeepMembers, BootsP!Quiet, BootsP!Idle,
     BootsP!NoPort, BootsP!Inbounds, BootsP!Groups, BootsP!Source,
     BootsP!GroupsKeepMembers
(* The types with crashes.                                                 *)
LEMMA BootsTypes ==
  BootsP!TypeOK => Boots!TypeOK
  BY Zenon DEF
     Boots!Inbounds, Boots!Groups, Boots!NoPort, Boots!Rows, Boots!TypeOK,
     BootsP!Inbounds, BootsP!Groups, BootsP!NoPort, BootsP!Rows, BootsP!TypeOK
(* What is said of the migration with crashes.                             *)
LEMMA BootsParting ==
  BootsP!NodesParted => Sidecars!NodesParted
  BY Zenon DEF
     Sidecars!At, Sidecars!Done, Sidecars!Idle, Sidecars!NoPort,
     Sidecars!Parted, Sidecars!NodesParted, Sidecars!lists, Sidecars!tables,
     BootsP!At, BootsP!Done, BootsP!Idle, BootsP!NoPort, BootsP!Parted,
     BootsP!NodesParted, BootsP!lists, BootsP!tables

(* The constants of both are what the proofs ask for.                      *)
LEMMA InboundConstants ==
  /\ SidecarsP!InboundAssumption /\ SidecarsP!Single
  /\ BootsP!InboundAssumption /\ BootsP!Single
<1>1. SidecarsP!InboundAssumption
  BY PartsAssumption, Zenon DEF
     Sidecars!InboundAssumption, Sidecars!Rows, Sidecars!Inbounds, Sidecars!NoPort,
     SidecarsP!InboundAssumption, SidecarsP!Rows, SidecarsP!Inbounds, SidecarsP!NoPort
<1>2. BootsP!InboundAssumption
  BY PartsAssumption, Zenon DEF
     Boots!InboundAssumption, Boots!Rows, Boots!Inbounds, Boots!NoPort,
     BootsP!InboundAssumption, BootsP!Rows, BootsP!Inbounds, BootsP!NoPort
<1> QED BY <1>1, <1>2 DEF SidecarsP!Single, BootsP!Single

SidecarsInv ==
  /\ part = "sidecars" => SidecarsP!IInv
  /\ part = "boots" => BootsP!IInv

(* They start well.                                                        *)
LEMMA InboundsStart == Init => SidecarsInv
<1> SUFFICES ASSUME Init PROVE SidecarsInv
  OBVIOUS
<1>1. part = "sidecars" => SidecarsP!IInv
  BY SidecarsInit, InboundConstants, SidecarsP!IInvInit DEF Init
<1>2. part = "boots" => BootsP!IInv
  BY BootsInit, InboundConstants, BootsP!IInvInit DEF Init
<1> QED BY <1>1, <1>2 DEF SidecarsInv

(* The inbounds that move keep their invariant, and the migration is what  *)
(* it should be.                                                           *)
LEMMA InboundsStep ==
  ASSUME SidecarsInv, [Next]_<<part, lists, sidecars, outbounds, web, scores, dns, files>>
  PROVE  SidecarsInv' /\ (part \in SidecarParts => Sidecars!NodesParted)
<1>1. part' = part
  BY DEF Next
<1>2. CASE part = "sidecars"
  <2>1. [Sidecars!Next]_sidecars
    BY <1>2 DEF Next, StoreParts
  <2>2. SidecarsP!IInv /\ [SidecarsP!Next]_(SidecarsP!vars)
    BY <1>2, <2>1, SidecarsNext DEF SidecarsInv
  <2>3. SidecarsP!IInv' /\ SidecarsP!NodesParted
    BY <2>2, InboundConstants, SidecarsP!IInvNext, SidecarsP!PartingHolds
  <2> QED BY <1>1, <1>2, <2>3, SidecarsParting DEF SidecarsInv
<1>3. CASE part = "boots"
  <2>1. [Boots!Next]_sidecars
    BY <1>3 DEF Next, StoreParts
  <2>2. BootsP!IInv /\ [BootsP!Next]_(BootsP!vars)
    BY <1>3, <2>1, BootsNext DEF SidecarsInv
  <2>3. BootsP!IInv' /\ BootsP!NodesParted
    BY <2>2, InboundConstants, BootsP!IInvNext, BootsP!PartingHolds
  <2> QED BY <1>1, <1>3, <2>3, BootsParting DEF SidecarsInv
<1>4. CASE part \notin SidecarParts
  BY <1>1, <1>4 DEF SidecarsInv, SidecarParts
<1> QED BY <1>2, <1>3, <1>4 DEF SidecarParts

(* Their invariant says what the run checks.                               *)
LEMMA InboundsShown == SidecarsInv => SidecarsReachable /\ GroupsKeepMembers
<1>1. ASSUME SidecarsP!IInv
      PROVE  Sidecars!TableMatchesSockets /\ Sidecars!SidecarsHaveNodes /\ Sidecars!GroupsKeepMembers
  BY <1>1, SidecarsTables, SidecarsMembers, SidecarsP!TableHolds, SidecarsP!NodesHold, SidecarsP!MembersHold
<1>2. ASSUME BootsP!IInv
      PROVE  Boots!TableMatchesSockets /\ Boots!SidecarsHaveNodes /\ Boots!GroupsKeepMembers
  BY <1>2, BootsTables, BootsMembers, BootsP!TableHolds, BootsP!NodesHold, BootsP!MembersHold
<1> QED BY <1>1, <1>2 DEF SidecarsInv, SidecarsReachable, GroupsKeepMembers

(* Whenever no request is under way, the sidecars that listen are those of *)
(* the table (cfdo.go, cfgoodnet.go), each once and on the                 *)
(* port of its one node: Stop reaches each, and each can be used; with any *)
(* inbounds and ports, whatever the process died in the middle of.         *)
THEOREM SidecarsStayReachable == Spec => []SidecarsReachable
BY InboundsStart, InboundsStep, InboundsShown, PTL DEF Spec

(* A rebuild of the nodes of inbounds moves the places of nodes and no     *)
(* group loses or gains a node by it (rebuildInboundProxyServers), and     *)
(* neither does the migration at boot.                                     *)
THEOREM RebuildsKeepMembers == Spec => []GroupsKeepMembers
BY InboundsStart, InboundsStep, InboundsShown, PTL DEF Spec

(* "repair nodes shared between groups" (main.go:296): once the migration  *)
(* is over no node is in two groups, whichever boot it took.               *)
THEOREM MigrationParts == Spec => NodesParted
BY InboundsStart, InboundsStep, PTL DEF Spec, NodesParted

-----------------------------------------------------------------------------
(* All parts together.                                                     *)
RestInv ==
  /\ part = "outbounds" => NamesInv
  /\ part = "web" => WebInv /\ WebRecords
  /\ part = "scores" => ScoresInv
  /\ part = "dns" => DnsInv /\ DnsRecords
  /\ part = "files" => FilesInv /\ FilesRecords

(* The other parts start well.                                             *)
LEMMA RestStart == Init => RestInv
<1> SUFFICES ASSUME Init PROVE RestInv
  OBVIOUS
<1>1. part = "outbounds" => NamesInv
  BY NamesInit DEF Init
<1>2. part = "web" => WebInv /\ WebRecords
  BY WebInit, RecordsInit DEF Init
<1>3. part = "scores" => ScoresInv
  BY ScoresInit DEF Init
<1>4. part = "dns" => DnsInv /\ DnsRecords
  BY DnsInit, DnsRecordsInit DEF Init
<1>5. part = "files" => FilesInv /\ FilesRecords
  BY FilesInit, FilesRecordsInit DEF Init
<1> QED BY <1>1, <1>2, <1>3, <1>4, <1>5 DEF RestInv

(* They keep their invariants.                                             *)
LEMMA RestStep ==
  ASSUME RestInv, [Next]_<<part, lists, sidecars, outbounds, web, scores, dns, files>>
  PROVE  RestInv'
<1>1. part' = part
  BY DEF Next
<1>2. /\ part = "outbounds" => [Outbounds!Next]_outbounds
      /\ part = "web" => [Web!Next]_web
      /\ part = "scores" => [Scores!Next]_scores
      /\ part = "dns" => [Dns!Next]_dns
      /\ part = "files" => [Files!Next]_files
  BY DEF Next, StoreParts, SidecarParts
<1>3. /\ NamesInv /\ [Outbounds!Next]_outbounds => NamesInv'
      /\ WebInv /\ WebRecords /\ [Web!Next]_web => WebInv' /\ WebRecords'
      /\ ScoresInv /\ [Scores!Next]_scores => ScoresInv'
      /\ DnsInv /\ DnsRecords /\ [Dns!Next]_dns => DnsInv' /\ DnsRecords'
      /\ FilesInv /\ FilesRecords /\ [Files!Next]_files => FilesInv' /\ FilesRecords'
  BY NamesNext, WebNext, RecordsNext, ScoresNext, DnsNext, DnsRecordsNext, FilesNext,
     FilesRecordsNext, Zenon
<1> QED BY <1>1, <1>2, <1>3, Zenon DEF RestInv

(* Their invariants have their types.                                      *)
LEMMA TypesShown == ListsInv /\ SidecarsInv /\ RestInv => TypeOK
<1> SUFFICES ASSUME ListsInv, SidecarsInv, RestInv PROVE TypeOK
  OBVIOUS
<1>1. OfLists(MixedLists!TypeOK, OwnLists!TypeOK, SubscriptionLists!TypeOK)
  BY MixedP!TypesShown, OwnP!TypesShown, SubscribedP!TypesShown,
     MixedProperties, OwnProperties, SubscribedProperties DEF ListsInv, OfLists
<1>2. (part = "sidecars" => Sidecars!TypeOK) /\ (part = "boots" => Boots!TypeOK)
  BY SidecarsP!TypesHold, BootsP!TypesHold, SidecarsTypes, BootsTypes DEF SidecarsInv
<1>3. NamesInv => Outbounds!TypeOK
  BY DEF NamesInv, NameJobs, Outbounds!TypeOK, Outbounds!Names, AllRows
<1>4. WebInv /\ WebRecords => Web!TypeOK
  BY WebTyped
<1>5. ScoresInv => Scores!TypeOK
  BY DEF ScoresInv
<1>6. DnsInv /\ DnsRecords => Dns!TypeOK
  BY DnsTypes
<1>7. FilesRecords => Files!TypeOK
  BY DEF FilesRecords, Files!TypeOK
<1> QED BY <1>1, <1>2, <1>3, <1>4, <1>5, <1>6, <1>7, Zenon DEF RestInv, TypeOK

(* Every part that moves is well typed: among others the credentials have  *)
(* a user and a password, though each request completes only some fields   *)
(* of the settings (setting.go); each session is that of a user; no group  *)
(* refers to a place before the first; and the breaker counts no further   *)
(* than its threshold; for all constants.                                  *)
THEOREM StoreTyped == Spec => []TypeOK
<1>1. Init => ListsInv /\ SidecarsInv /\ RestInv
  BY ListsInit, InboundsStart, RestStart
<1>2. ListsInv /\ SidecarsInv /\ RestInv
      /\ [Next]_<<part, lists, sidecars, outbounds, web, scores, dns, files>>
      => (ListsInv /\ SidecarsInv /\ RestInv)'
  BY ListsNext, InboundsStep, RestStep
<1> QED BY <1>1, <1>2, TypesShown, PTL DEF Spec
=============================================================================
