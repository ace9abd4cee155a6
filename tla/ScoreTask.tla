------------------------------- MODULE ScoreTask -------------------------------
(***************************************************************************)
(* Scores of nodes are asked from a service that takes a question every    *)
(* second or so.  One task does so in the background, with progress that   *)
(* can be polled and a cancel; what probes want scored meanwhile is queued *)
(* and given to the task that follows.  ipScoreStartMu makes a start one   *)
(* step, ipScoreTask.mu each of the others.                                *)
(***************************************************************************)
EXTENDS Naturals, FiniteSets

CONSTANTS
  Nodes,   \* nodes, by reference
  Hosts,   \* their addresses
  Tasks    \* bound: the goroutines that live at the same time

NoTask == "none"
Gone == "gone"

TaskAssumption ==
  /\ Nodes # {} /\ Hosts # {} /\ IsFiniteSet(Tasks)
  /\ NoTask \notin Tasks /\ Gone \notin Hosts

VARIABLES
  host,      \* the address of each node; Gone when its place is empty
  running,   \* state.Running
  cancel,    \* whose channel ipScoreTask.cancel is
  closed,    \* tasks whose channel is closed
  pending,   \* nodes queued for the task that follows
  task,      \* the goroutines
  scored     \* history: nodes with the address their score is of

vars == <<host, running, cancel, closed, pending, task, scored>>

NoWork == [at |-> "none", refs |-> {}, known |-> {}, got |-> {}, now |-> Gone]
Free == {t \in Tasks : task[t] = NoWork}
Working == {t \in Tasks : task[t].at \in {"loop", "lookup", "save", "finish"}}

Init ==
  /\ host \in [Nodes -> Hosts]
  /\ running = FALSE /\ cancel = NoTask /\ closed = {} /\ pending = {}
  /\ task = [t \in Tasks |-> NoWork]
  /\ scored = {}

Goto(t, stage) == task' = [task EXCEPT ![t].at = stage]

-----------------------------------------------------------------------------
(* startIPScoreTaskSerialized: refused while a task is running.            *)
Start(t, refs) ==
  /\ ~running
  /\ running' = TRUE /\ cancel' = t /\ closed' = closed \ {t}
  /\ task' = [task EXCEPT ![t] = [NoWork EXCEPT !.at = "loop", !.refs = refs]]

ScoreServerIP(t, refs) ==
  /\ t \in Free /\ refs # {}
  /\ Start(t, refs)
  /\ UNCHANGED <<host, pending, scored>>

(* Variant: the flag is not looked at.                                     *)
QueueAlways(t, refs) ==
  /\ refs # {}
  /\ \/ running /\ pending' = pending \union refs /\ UNCHANGED <<running, cancel, closed, task>>
     \/ /\ t \in Free /\ UNCHANGED pending
        /\ running' = TRUE /\ cancel' = t /\ closed' = closed \ {t}
        /\ task' = [task EXCEPT ![t] = [NoWork EXCEPT !.at = "loop", !.refs = refs]]
  /\ UNCHANGED <<host, scored>>

(* queueIPScoreTask, after a probe, for nodes that have no score yet.      *)
Queue(t, refs) ==
  /\ refs # {}
  /\ \/ running /\ pending' = pending \union refs /\ UNCHANGED <<running, cancel, closed, task>>
     \/ t \in Free /\ Start(t, refs) /\ UNCHANGED pending
  /\ UNCHANGED <<host, scored>>

Cancel ==
  /\ running /\ cancel # NoTask
  /\ closed' = closed \union {cancel}
  /\ cancel' = NoTask
  /\ UNCHANGED <<host, running, pending, task, scored>>

-----------------------------------------------------------------------------
(* runIPScoreTask: the channel is looked at before each node; an address   *)
(* is asked for once a task.                                               *)
NextNode(t, n) ==
  /\ task[t].at = "loop" /\ t \notin closed /\ n \in task[t].refs
  /\ LET left == [task[t] EXCEPT !.refs = @ \ {n}]
         answer == {a \in task[t].known : a.host = host[n]}
     IN task' = [task EXCEPT ![t] =
          IF host[n] = Gone THEN left
          ELSE IF answer # {}
               THEN [left EXCEPT !.got = @ \union {[node |-> n, host |-> a.host] : a \in {a \in answer : a.ok}}]
               ELSE [task[t] EXCEPT !.at = "lookup", !.now = host[n]]]
  /\ UNCHANGED <<host, running, cancel, closed, pending, scored>>

(* Lookup waits for its turn, then for the answer.                         *)
Answered(t) ==
  /\ task[t].at = "lookup"
  /\ \E ok \in BOOLEAN :
       task' = [task EXCEPT ![t].at = "loop", ![t].now = Gone,
                            ![t].known = @ \union {[host |-> task[t].now, ok |-> ok]}]
  /\ UNCHANGED <<host, running, cancel, closed, pending, scored>>

LoopEnds(t) ==
  /\ task[t].at = "loop" /\ (t \in closed \/ task[t].refs = {})
  /\ Goto(t, "save")
  /\ UNCHANGED <<host, running, cancel, closed, pending, scored>>

(* saveIPScores writes by place, to whatever node is there.                *)
Save(t) ==
  /\ task[t].at = "save"
  /\ scored' = {s \in scored : s.node \notin {g.node : g \in task[t].got}} \union
               {g \in task[t].got : host[g.node] # Gone}
  /\ Goto(t, "finish")
  /\ UNCHANGED <<host, running, cancel, closed, pending>>

(* A task that was cancelled drops the queue; another leaves a goroutine   *)
(* that starts the next.                                                   *)
Finish(t) ==
  /\ task[t].at = "finish"
  /\ running' = FALSE /\ cancel' = NoTask /\ pending' = {}
  /\ task' = [task EXCEPT ![t] =
       IF (t \in closed /\ task[t].refs # {}) \/ pending = {} THEN NoWork
       ELSE [NoWork EXCEPT !.at = "restart", !.refs = pending]]
  /\ UNCHANGED <<host, closed, scored>>

(* ... unless a task was started in between: then the queue is lost.       *)
Restart(t) ==
  /\ task[t].at = "restart"
  /\ \/ Start(t, task[t].refs)
     \/ running /\ task' = [task EXCEPT ![t] = NoWork] /\ UNCHANGED <<running, cancel, closed>>
  /\ UNCHANGED <<host, pending, scored>>

(* The list of nodes changes.                                              *)
Move(n, h) ==
  /\ host[n] # h
  /\ host' = [host EXCEPT ![n] = h]
  /\ scored' = {s \in scored : s.node # n}
  /\ UNCHANGED <<running, cancel, closed, pending, task>>

Next ==
  \/ \E t \in Tasks :
       \/ \E refs \in SUBSET Nodes : ScoreServerIP(t, refs) \/ Queue(t, refs)
       \/ \E n \in Nodes : NextNode(t, n)
       \/ Answered(t) \/ LoopEnds(t) \/ Save(t) \/ Finish(t) \/ Restart(t)
  \/ Cancel
  \/ \E n \in Nodes, h \in Hosts \union {Gone} : Move(n, h)

Spec == Init /\ [][Next]_vars
-----------------------------------------------------------------------------
Addresses == Hosts \union {Gone}
Jobs ==
  [at : {"none", "loop", "lookup", "save", "finish", "restart"},
   refs : SUBSET Nodes, known : SUBSET [host : Addresses, ok : BOOLEAN],
   got : SUBSET [node : Nodes, host : Addresses], now : Addresses]

TypeOK ==
  /\ host \in [Nodes -> Addresses]
  /\ running \in BOOLEAN /\ cancel \in Tasks \union {NoTask} /\ closed \subseteq Tasks
  /\ pending \subseteq Nodes
  /\ task \in [Tasks -> Jobs]

(* "one task at a time, lest requests add up to more than the service      *)
(* takes" (ipscore_task.go:63), whoever starts it: a user, a probe or the  *)
(* queue; the cancel is that of the task that runs, and nodes are queued   *)
(* only while one runs that will hand them on.                             *)
OneTask ==
  /\ Cardinality(Working) = (IF running THEN 1 ELSE 0)
  /\ cancel # NoTask => cancel \in Working \ closed
  /\ pending # {} => running
=============================================================================
