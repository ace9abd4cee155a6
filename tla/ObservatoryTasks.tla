-------------------------- MODULE ObservatoryTasks --------------------------
(***************************************************************************)
(* The life of the background probing tasks of pkg/observatory: one task   *)
(* per outbound that is bound to a group, and the patrol of the active     *)
(* nodes.  Handlers call Reload after a settings change and                *)
(* OnOutboundUpdated after they changed an outbound, from any goroutine.   *)
(* A task has a goroutine for its first, delayed probe and one for its     *)
(* ticker; all probes share a semaphore with one permit, which is only     *)
(* ever tried.  What a probe does to the active node is in NodeSwitching.  *)
(***************************************************************************)
EXTENDS Naturals, FiniteSets

CONSTANTS
  Names,      \* names of outbounds
  Patrol,     \* the owner of the task that watches the active nodes
  Callers,    \* handlers (and main) that call Reload or OnOutboundUpdated
  Tasks,      \* bound: the tasks that may exist at the same time
  NoTask

ASSUME TasksAssumption == Patrol \notin Names /\ NoTask \notin Tasks

Owners == Names \union {Patrol}

VARIABLES
  wanted,   \* the outbounds bound to a group; Patrol when it is enabled
  task,     \* global.tasks and global.activeNodeTask
  closed,   \* the tasks whose stopCh is closed
  first,    \* goroutine of the first probe: "off", "wait" or "probe"
  tick,     \* goroutine of the ticker
  permits,  \* free permits of scheduledProbeSem
  pc,       \* control point of a caller
  todo      \* the owners whose task the caller has still to set up

callVars == <<pc, todo>>
goVars   == <<first, tick, permits>>
vars     == <<wanted, task, closed, goVars, callVars>>

Mapped == {task[o] : o \in Owners} \ {NoTask}
Free == {t \in Tasks \ Mapped : first[t] = "off" /\ tick[t] = "off"}

Init ==
  /\ wanted \in SUBSET Owners
  /\ task = [o \in Owners |-> NoTask]
  /\ closed = {}
  /\ first = [t \in Tasks |-> "off"] /\ tick = [t \in Tasks |-> "off"]
  /\ permits = 1
  /\ \E m \in Callers :   \* main, which calls Start
       pc = [c \in Callers |-> IF c = m THEN "stop" ELSE "idle"]
  /\ todo = [c \in Callers |-> {}]

-----------------------------------------------------------------------------
(* setSetting: the patrol is switched on or off, then Reload is called.    *)
ChangeSetting(c) ==
  /\ pc[c] = "idle"
  /\ \/ wanted' = wanted \union {Patrol}
     \/ wanted' = wanted \ {Patrol}
  /\ pc' = [pc EXCEPT ![c] = "stop"]
  /\ UNCHANGED <<task, closed, goVars, todo>>

(* A handler binds an outbound to a group or to something else and calls   *)
(* OnOutboundUpdated.                                                      *)
ChangeOutbound(c, n) ==
  /\ pc[c] = "idle"
  /\ \/ wanted' = wanted \union {n}
     \/ wanted' = wanted \ {n}
  /\ pc' = [pc EXCEPT ![c] = "close"]
  /\ todo' = [todo EXCEPT ![c] = {n}]
  /\ UNCHANGED <<task, closed, goVars>>

(* Variant: Stop forgets to reset the active-node task.                    *)
StopAllKeepingPatrol(c) ==
  /\ pc[c] = "stop"
  /\ closed' = closed \union Mapped
  /\ task' = [o \in Owners |-> IF o = Patrol THEN task[o] ELSE NoTask]
  /\ todo' = [todo EXCEPT ![c] = Owners]
  /\ pc' = [pc EXCEPT ![c] = "read"]
  /\ UNCHANGED <<wanted, goVars>>

(* Stop, under global.mu; Start goes on with every outbound.               *)
StopAll(c) ==
  /\ pc[c] = "stop"
  /\ closed' = closed \union Mapped
  /\ task' = [o \in Owners |-> NoTask]
  /\ todo' = [todo EXCEPT ![c] = Owners]
  /\ pc' = [pc EXCEPT ![c] = "read"]
  /\ UNCHANGED <<wanted, goVars>>

(* Variant: only a task that was running is restarted.                     *)
CloseOneKnown(c) ==
  /\ pc[c] = "close"
  /\ closed' = closed \union ({task[o] : o \in todo[c]} \ {NoTask})
  /\ task' = [o \in Owners |-> IF o \in todo[c] THEN NoTask ELSE task[o]]
  /\ todo' = [todo EXCEPT ![c] = {o \in @ : task[o] # NoTask}]
  /\ pc' = [pc EXCEPT ![c] = "read"]
  /\ UNCHANGED <<wanted, goVars>>

(* OnOutboundUpdated, under global.mu.                                     *)
CloseOne(c) ==
  /\ pc[c] = "close"
  /\ closed' = closed \union ({task[o] : o \in todo[c]} \ {NoTask})
  /\ task' = [o \in Owners |-> IF o \in todo[c] THEN NoTask ELSE task[o]]
  /\ pc' = [pc EXCEPT ![c] = "read"]
  /\ UNCHANGED <<wanted, goVars, todo>>

(* The next owner: the outbounds first, in the order of their names, the   *)
(* patrol last.                                                            *)
NextOwner(c) ==
  IF todo[c] = {Patrol} THEN Patrol ELSE CHOOSE n \in todo[c] \ {Patrol} : TRUE

(* GetOutbound or GetProbeConfig: is the owner's task wanted?              *)
ReadOwner(c) ==
  /\ pc[c] = "read" /\ todo[c] # {}
  /\ IF NextOwner(c) \in wanted
     THEN pc' = [pc EXCEPT ![c] = "start"] /\ UNCHANGED todo
     ELSE todo' = [todo EXCEPT ![c] = @ \ {NextOwner(c)}] /\ UNCHANGED pc
  /\ UNCHANGED <<wanted, task, closed, goVars>>

(* startTask and startActiveNodeProbeTask: enter the task, start its       *)
(* goroutines.  An entry of the map is overwritten, never closed.          *)
StartTask(c) ==
  /\ pc[c] = "start"
  /\ \E t \in Free :
       /\ task' = [task EXCEPT ![NextOwner(c)] = t]
       /\ closed' = closed \ {t}
       /\ tick' = [tick EXCEPT ![t] = "wait"]
       /\ first' = [first EXCEPT ![t] = IF NextOwner(c) = Patrol THEN "off" ELSE "wait"]
  /\ todo' = [todo EXCEPT ![c] = @ \ {NextOwner(c)}]
  /\ pc' = [pc EXCEPT ![c] = "read"]
  /\ UNCHANGED <<wanted, permits>>

Return(c) ==
  /\ pc[c] = "read" /\ todo[c] = {}
  /\ pc' = [pc EXCEPT ![c] = "idle"]
  /\ UNCHANGED <<wanted, task, closed, goVars, todo>>

-----------------------------------------------------------------------------
(* The goroutine of the first probe of task t.                             *)

(* Variant: the permit is released although it was not acquired.           *)
FirstProbeReleasing(t) ==
  /\ first[t] = "wait"
  /\ first' = [first EXCEPT ![t] = IF permits > 0 THEN "probe" ELSE "off"]
  /\ permits' = IF permits > 0 THEN permits - 1 ELSE permits + 1
  /\ UNCHANGED <<wanted, task, closed, tick, callVars>>

FirstProbe(t) ==
  /\ first[t] = "wait"
  /\ IF permits > 0
     THEN first' = [first EXCEPT ![t] = "probe"] /\ permits' = permits - 1
     ELSE first' = [first EXCEPT ![t] = "off"] /\ UNCHANGED permits
  /\ UNCHANGED <<wanted, task, closed, tick, callVars>>

FirstStopped(t) ==
  /\ first[t] = "wait" /\ t \in closed
  /\ first' = [first EXCEPT ![t] = "off"]
  /\ UNCHANGED <<wanted, task, closed, tick, permits, callVars>>

FirstDone(t) ==
  /\ first[t] = "probe"
  /\ first' = [first EXCEPT ![t] = "off"]
  /\ permits' = permits + 1
  /\ UNCHANGED <<wanted, task, closed, tick, callVars>>

(* The ticker goroutine.  A tick that finds no permit is skipped.  Between *)
(* a tick and a closed stopCh that are both ready select may choose either.*)
(* A second patrol that waits for activeNodeProbeMu is still at "wait".    *)

TickProbe(t) ==
  /\ tick[t] = "wait" /\ permits > 0
  /\ tick' = [tick EXCEPT ![t] = "probe"]
  /\ permits' = permits - 1
  /\ UNCHANGED <<wanted, task, closed, first, callVars>>

(* Variant: stopCh is polled after a probe instead of selected.            *)
TickStoppedPolled(t) ==
  /\ tick[t] = "probe" /\ t \in closed
  /\ tick' = [tick EXCEPT ![t] = "off"]
  /\ permits' = permits + 1
  /\ UNCHANGED <<wanted, task, closed, first, callVars>>

TickStopped(t) ==
  /\ tick[t] = "wait" /\ t \in closed
  /\ tick' = [tick EXCEPT ![t] = "off"]
  /\ UNCHANGED <<wanted, task, closed, first, permits, callVars>>

(* Variant: a finished probe keeps its permit.                             *)
TickDoneKeeping(t) ==
  /\ tick[t] = "probe"
  /\ tick' = [tick EXCEPT ![t] = "wait"]
  /\ UNCHANGED <<wanted, task, closed, first, permits, callVars>>

TickDone(t) ==
  /\ tick[t] = "probe"
  /\ tick' = [tick EXCEPT ![t] = "wait"]
  /\ permits' = permits + 1
  /\ UNCHANGED <<wanted, task, closed, first, callVars>>

-----------------------------------------------------------------------------
CallStep(c) == StopAll(c) \/ CloseOne(c) \/ ReadOwner(c) \/ StartTask(c) \/ Return(c)

Next ==
  \/ \E c \in Callers :
       \/ ChangeSetting(c)
       \/ \E n \in Names : ChangeOutbound(c, n)
       \/ CallStep(c)
  \/ \E t \in Tasks :
       \/ FirstProbe(t) \/ FirstStopped(t) \/ FirstDone(t)
       \/ TickProbe(t) \/ TickStopped(t) \/ TickDone(t)

Spec == Init /\ [][Next]_vars

(* Goroutines run; a probe is bounded by the timeouts of its dials; timers *)
(* fire; select chooses at random among the ready cases, so a stopCh that  *)
(* stays closed is chosen in the end (SF).  Nobody has to call anything.   *)
Fairness ==
  /\ \A c \in Callers : WF_vars(CallStep(c))
  /\ \A t \in Tasks :
       /\ WF_vars(FirstProbe(t)) /\ WF_vars(FirstDone(t)) /\ WF_vars(TickDone(t))
       /\ SF_vars(TickStopped(t))
FairSpec == Spec /\ Fairness

-----------------------------------------------------------------------------
TypeOK ==
  /\ wanted \subseteq Owners
  /\ task \in [Owners -> Tasks \union {NoTask}]
  /\ closed \subseteq Tasks
  /\ first \in [Tasks -> {"off", "wait", "probe"}]
  /\ tick \in [Tasks -> {"off", "wait", "probe"}]
  /\ permits \in 0 .. 1
  /\ pc \in [Callers -> {"idle", "stop", "close", "read", "start"}]
  /\ todo \in [Callers -> SUBSET Owners]

(* A task that can still be found, and so closed, has not been closed yet: *)
(* closing a stopCh twice panics.  Stop and OnOutboundUpdated may run at   *)
(* the same time.                                                          *)
NoDoubleClose == Mapped \intersect closed = {}

(* The one permit is held by the goroutine that probes: background probes  *)
(* never overlap (maxScheduledProbeConcurrency) and never lose the permit. *)
OneBackgroundProbe ==
  permits + Cardinality({t \in Tasks : first[t] = "probe"})
          + Cardinality({t \in Tasks : tick[t] = "probe"}) = 1

(* However the calls of several handlers interleave: once they are done,   *)
(* every outbound bound to a group has a running task, and so has the      *)
(* patrol when it is enabled.                                              *)
WantedRuns ==
  (\A c \in Callers : pc[c] = "idle") =>
    \A o \in wanted : task[o] # NoTask /\ tick[task[o]] # "off"

(* "Stop 停止所有测速任务" (observatory.go:132): Stop stops all the probing *)
(* tasks, so no task keeps running that Stop could not find.               *)
NoOrphanTask ==
  \A t \in Tasks : tick[t] # "off" => t \in closed \/ t \in Mapped

(* The goroutines of a task end once it was stopped.                       *)
StoppedTaskEnds ==
  \A t \in Tasks : t \in closed ~> (first[t] = "off" /\ tick[t] = "off")
=============================================================================
