------------------------------- MODULE Engine -------------------------------
(***************************************************************************)
(* The life cycle of the proxy kernel process: EngineManager in            *)
(* core/engine/engine.go, the main-probe users of core/engine/             *)
(* main_probe.go, and the coalescing restart worker that the HTTP handlers *)
(* of server/handlers.go use after they change the stored configuration.   *)
(*                                                                         *)
(* Two locks order everything.  lifecycleMu is a sync.RWMutex: Start, Stop,*)
(* Restart and UpdateAndRestart are its writers, a user of the internal    *)
(* probe inbound is a reader for as long as it probes.  em.mu is a mutex   *)
(* that protects the fields; start() keeps it for the whole launch, and    *)
(* the goroutine that waits for a kernel process takes it to clear them.   *)
(*                                                                         *)
(* A configuration is its version number: every write to the store that    *)
(* the kernel's configuration is built from increments cfg.                *)
(***************************************************************************)
EXTENDS Naturals

CONSTANTS
  Clients,     \* goroutines that call Start, Stop or UpdateAndRestart
  Handlers,    \* HTTP handlers that write the store, then ask for a restart
  Holders,     \* goroutines that call AcquireMainProbe
  Worker,      \* the goroutine of restartEngineAsync
  NoThread,    \* nobody: a free lock
  Procs,       \* kernel processes that may exist at the same time
  NoProc,      \* em.proc = nil
  MaxVersion   \* bound: the store is written MaxVersion - 1 times

ASSUME EngineAssumption ==
  /\ Worker \notin Clients
  /\ NoThread \notin Clients \union {Worker}
  /\ MaxVersion \in Nat \ {0}
  /\ NoProc \notin Procs

Actors == Clients \union {Worker}
Versions == 1 .. MaxVersion
NoVersion == 0                  \* nil, or a local that is not in use
Stamps == 0 .. MaxVersion

VARIABLES
  wlock,     \* the writer that owns, or waits for the readers of, lifecycleMu
  readers,   \* the readers that own lifecycleMu
  rwait,     \* the readers blocked by a pending or active writer
  emMu,      \* the owner of em.mu
  proc,      \* em.proc (em.cancel is set and cleared with it)
  running,   \* em.running and em.runningFlag
  loaded,    \* the version em.loadedNodeOutbounds was computed from
  snap,      \* start(): version behind the local loadedNodeOutbounds
  built,     \* start(): version the kernel's configuration file holds
  serving,   \* the version the process em.proc was launched with
  alive,     \* the kernel processes the operating system still runs
  killed,    \* those of them that were sent a kill
  watch,     \* the processes whose exit goroutine has not finished
  cfg,       \* the version of the store
  pc, op,    \* control point and operation of each actor
  hpc, hver, \* control point of each handler and the version it wrote
  restartPending, restartRunning,  \* the variables of restartEngineAsync
  upc, seen, \* control point of each holder and the kernel it was given
  owed,      \* history: newest version whose writer found IsRunning true
  due        \* history: newest version whose writer asked IsRunning while
             \* the kernel process of em.proc was up

lockVars    == <<wlock, readers, rwait>>
kernelVars  == <<proc, serving, running, loaded>>
localVars   == <<snap, built>>
osVars      == <<alive, killed, watch>>
handlerVars == <<hpc, hver, owed, due>>
asyncVars   == <<restartPending, restartRunning>>
holderVars  == <<upc, seen>>
vars == <<lockVars, emMu, kernelVars, localVars, osVars, cfg, pc, op,
          handlerVars, asyncVars, holderVars>>

-----------------------------------------------------------------------------
(* lifecycleMu, with the semantics of Go's sync.RWMutex: a writer that has *)
(* called Lock keeps new readers out while it waits for the current ones,  *)
(* and Unlock admits every reader that was kept waiting.                   *)

RLock(h) ==
  IF wlock = NoThread
  THEN /\ readers' = readers \union {h}
       /\ UNCHANGED <<wlock, rwait>>
  ELSE /\ rwait' = rwait \union {h}
       /\ UNCHANGED <<wlock, readers>>

RUnlock(h) ==
  /\ readers' = readers \ {h}
  /\ UNCHANGED <<wlock, rwait>>

WUnlock ==
  /\ wlock' = NoThread
  /\ readers' = rwait
  /\ rwait' = {}

(* Variant: a writer that does not wait for the readers.                   *)
GrantedEarly(a) == pc[a] = "drain"

(* Actor a has called Lock and the readers it found have left.             *)
Granted(a) == pc[a] = "drain" /\ readers = {}

Goto(a, label) == pc' = [pc EXCEPT ![a] = label]

(* Variants: no test for nil before the kill; no kill at all.              *)
DropNil ==
  /\ killed' = killed \union {proc}
  /\ proc' = NoProc /\ serving' = NoVersion /\ loaded' = NoVersion
DropWithoutKill ==
  /\ killed' = killed
  /\ proc' = NoProc /\ serving' = NoVersion /\ loaded' = NoVersion

(* Kill the process of em.proc, and forget it and its node table.          *)
DropKernel ==
  /\ killed' = killed \union ({proc} \intersect alive)
  /\ proc' = NoProc
  /\ serving' = NoVersion
  /\ loaded' = NoVersion

-----------------------------------------------------------------------------
Init ==
  /\ wlock = NoThread /\ readers = {} /\ rwait = {} /\ emMu = NoThread
  /\ proc = NoProc /\ serving = NoVersion
  /\ running = FALSE /\ loaded = NoVersion
  /\ snap = NoVersion /\ built = NoVersion
  /\ alive = {} /\ killed = {} /\ watch = {}
  /\ cfg = 1
  /\ pc = [a \in Actors |-> "idle"]
  /\ op = [a \in Actors |-> "none"]
  /\ hpc = [h \in Handlers |-> "idle"]
  /\ hver = [h \in Handlers |-> NoVersion]
  /\ restartPending = FALSE /\ restartRunning = FALSE
  /\ upc = [u \in Holders |-> "out"]
  /\ seen = [u \in Holders |-> NoProc]
  /\ owed = NoVersion /\ due = NoVersion

-----------------------------------------------------------------------------
(* The lifecycle operations.                                               *)

(* main.go, startProxy, stopProxy, and the callers of UpdateAndRestart.    *)
Call(c) ==
  /\ c \in Clients /\ pc[c] = "idle"
  /\ \E o \in {"start", "stop", "update"} : op' = [op EXCEPT ![c] = o]
  /\ Goto(c, "lock")
  /\ UNCHANGED <<lockVars, emMu, kernelVars, localVars, osVars, cfg,
                 handlerVars, asyncVars, holderVars>>

LockLifecycle(a) ==
  /\ pc[a] = "lock" /\ wlock = NoThread
  /\ wlock' = a
  /\ Goto(a, "drain")
  /\ UNCHANGED <<readers, rwait, emMu, kernelVars, localVars, osVars, cfg, op,
                 handlerVars, asyncVars, holderVars>>

UnlockLifecycle(a) ==
  /\ pc[a] = "unlock"
  /\ WUnlock
  /\ Goto(a, IF a = Worker THEN "again" ELSE "idle")
  /\ op' = [op EXCEPT ![a] = "none"]
  /\ UNCHANGED <<emMu, kernelVars, localVars, osVars, cfg,
                 handlerVars, asyncVars, holderVars>>

(* UpdateAndRestartWithReason: the callback may write the store.           *)
RunUpdate(a) ==
  /\ Granted(a) /\ op[a] = "update"
  /\ \/ Goto(a, "unlock") /\ UNCHANGED cfg
     \/ cfg < MaxVersion /\ cfg' = cfg + 1 /\ Goto(a, "check")
  /\ UNCHANGED <<lockVars, emMu, kernelVars, localVars, osVars, op,
                 handlerVars, asyncVars, holderVars>>

(* restart(): nothing to do when the kernel is not running.                *)
CheckRunning(a) ==
  /\ pc[a] = "check" \/ (Granted(a) /\ op[a] = "restart")
  /\ Goto(a, IF running THEN "begin" ELSE "unlock")
  /\ UNCHANGED <<lockVars, emMu, kernelVars, localVars, osVars, cfg, op,
                 handlerVars, asyncVars, holderVars>>

(* Stop and stopLocked, which run under both locks.                        *)
StopKernel(a) ==
  /\ Granted(a) /\ op[a] = "stop" /\ emMu = NoThread
  /\ DropKernel
  /\ running' = FALSE
  /\ Goto(a, "unlock")
  /\ UNCHANGED <<lockVars, emMu, localVars, alive, watch, cfg, op, handlerVars, asyncVars, holderVars>>

(* start(): take em.mu, cancel and kill the old process.  running keeps    *)
(* its value: a restart is seen as running throughout.                     *)
KillOld(a) ==
  /\ pc[a] = "begin" \/ (Granted(a) /\ op[a] = "start")
  /\ emMu = NoThread
  /\ emMu' = a
  /\ DropKernel
  /\ Goto(a, "snapshot")
  /\ UNCHANGED <<lockVars, running, localVars, alive, watch, cfg, op, handlerVars, asyncVars, holderVars>>

(* Variant: a failing exit of start() that forgets the flag.               *)
StartFailsRunning(a) ==
  /\ running' = running
  /\ emMu' = NoThread
  /\ snap' = NoVersion /\ built' = NoVersion
  /\ Goto(a, "unlock")

(* Every failing exit of start(): clear the flag, release em.mu.           *)
StartFails(a) ==
  /\ running' = FALSE
  /\ emMu' = NoThread
  /\ snap' = NoVersion /\ built' = NoVersion
  /\ Goto(a, "unlock")

(* hasAnyOutbound, then snapshotLoadedNodeOutbounds.                       *)
SnapshotNodes(a) ==
  /\ pc[a] = "snapshot"
  /\ \/ snap' = cfg /\ Goto(a, "build") /\ UNCHANGED <<emMu, running, built>>
     \/ StartFails(a)
  /\ UNCHANGED <<lockVars, proc, serving, loaded, osVars, cfg, op,
                 handlerVars, asyncVars, holderVars>>

(* Sidecars, kernel selection, DNS fallback, binary, configuration file.   *)
BuildConfig(a) ==
  /\ pc[a] = "build"
  /\ \/ built' = cfg /\ Goto(a, "spawn") /\ UNCHANGED <<emMu, running, snap>>
     \/ StartFails(a)
  /\ UNCHANGED <<lockVars, proc, serving, loaded, osVars, cfg, op,
                 handlerVars, asyncVars, holderVars>>

SpawnKernel(a) ==
  /\ pc[a] = "spawn"
  /\ \/ /\ \E p \in Procs \ (alive \union watch) :
             proc' = p /\ alive' = alive \union {p}
        /\ serving' = built
        /\ built' = NoVersion
        /\ Goto(a, "wait")
        /\ UNCHANGED <<emMu, running, snap>>
     \/ StartFails(a) /\ UNCHANGED <<proc, alive, serving>>
  /\ UNCHANGED <<lockVars, loaded, killed, watch, cfg, op,
                 handlerVars, asyncVars, holderVars>>

(* Variant: no goroutine waits for the new process.                        *)
PortReadyUnwatched(a) ==
  /\ pc[a] = "wait" /\ alive # {}
  /\ running' = TRUE /\ loaded' = snap /\ snap' = NoVersion
  /\ emMu' = NoThread
  /\ Goto(a, "unlock")
  /\ UNCHANGED <<lockVars, proc, serving, built, osVars, cfg, op,
                 handlerVars, asyncVars, holderVars>>

(* waitPort succeeds when any kernel process answers on the SOCKS port:    *)
(* the new one, or a killed one the system has not reaped yet.             *)
PortReady(a) ==
  /\ pc[a] = "wait" /\ alive # {}
  /\ running' = TRUE
  /\ loaded' = snap
  /\ snap' = NoVersion
  /\ watch' = watch \union {proc}
  /\ emMu' = NoThread
  /\ Goto(a, "unlock")
  /\ UNCHANGED <<lockVars, proc, serving, built, alive, killed, cfg, op,
                 handlerVars, asyncVars, holderVars>>

PortTimeout(a) ==
  /\ pc[a] = "wait"
  /\ DropKernel
  /\ StartFails(a)
  /\ UNCHANGED <<lockVars, alive, watch, cfg, op,
                 handlerVars, asyncVars, holderVars>>

-----------------------------------------------------------------------------
(* Kernel processes and their exit goroutines.                             *)

Exit(p) ==
  /\ p \in alive
  /\ alive' = alive \ {p}
  /\ killed' = killed \ {p}
  /\ UNCHANGED <<lockVars, emMu, kernelVars, localVars, watch, cfg, pc, op,
                 handlerVars, asyncVars, holderVars>>

(* cmd.Wait has returned: clear the fields only if p is still em.proc.     *)
WatchExit(p) ==
  /\ p \in watch /\ p \notin alive /\ emMu = NoThread
  /\ watch' = watch \ {p}
  /\ IF proc = p
     THEN /\ proc' = NoProc /\ serving' = NoVersion
          /\ running' = FALSE /\ loaded' = NoVersion
     ELSE UNCHANGED kernelVars
  /\ UNCHANGED <<lockVars, emMu, localVars, alive, killed, cfg, pc, op,
                 handlerVars, asyncVars, holderVars>>

-----------------------------------------------------------------------------
(* Handlers that change the store and then restart a running kernel.       *)

WriteConfig(h) ==
  /\ hpc[h] = "idle" /\ cfg < MaxVersion
  /\ cfg' = cfg + 1
  /\ hver' = [hver EXCEPT ![h] = cfg + 1]
  /\ hpc' = [hpc EXCEPT ![h] = "check"]
  /\ UNCHANGED <<lockVars, emMu, kernelVars, localVars, osVars, pc, op,
                 owed, due, asyncVars, holderVars>>

(* if engine.Manager.IsRunning() { ... }                                   *)
AskRunning(h) ==
  /\ hpc[h] = "check"
  /\ hpc' = [hpc EXCEPT ![h] = IF running THEN "request" ELSE "idle"]
  /\ owed' = IF running /\ hver[h] > owed THEN hver[h] ELSE owed
  /\ due' = IF proc \in alive /\ hver[h] > due THEN hver[h] ELSE due
  /\ hver' = [hver EXCEPT ![h] = NoVersion]
  /\ UNCHANGED <<lockVars, emMu, kernelVars, localVars, osVars, cfg, pc, op,
                 asyncVars, holderVars>>

(* restartEngineAsync: one worker at a time, later requests coalesce.      *)
RequestRestart(h) ==
  /\ hpc[h] = "request"
  /\ restartPending' = TRUE
  /\ IF restartRunning
     THEN UNCHANGED <<restartRunning, pc>>
     ELSE restartRunning' = TRUE /\ Goto(Worker, "take")
  /\ hpc' = [hpc EXCEPT ![h] = "idle"]
  /\ UNCHANGED <<lockVars, emMu, kernelVars, localVars, osVars, cfg, op,
                 hver, owed, due, holderVars>>

TakeRequest ==
  /\ pc[Worker] = "take"
  /\ restartPending' = FALSE
  /\ Goto(Worker, "decide")
  /\ UNCHANGED <<lockVars, emMu, kernelVars, localVars, osVars, cfg, op,
                 handlerVars, restartRunning, holderVars>>

(* Variant: no restart when a lifecycle call is already in progress.       *)
DecideRestartTry ==
  /\ pc[Worker] = "decide"
  /\ Goto(Worker, IF running /\ wlock = NoThread THEN "lock" ELSE "again")
  /\ op' = [op EXCEPT ![Worker] = IF running /\ wlock = NoThread THEN "restart" ELSE "none"]
  /\ UNCHANGED <<lockVars, emMu, kernelVars, localVars, osVars, cfg,
                 handlerVars, asyncVars, holderVars>>

(* restart only a kernel that runs.                                        *)
DecideRestart ==
  /\ pc[Worker] = "decide"
  /\ Goto(Worker, IF running THEN "lock" ELSE "again")
  /\ op' = [op EXCEPT ![Worker] = IF running THEN "restart" ELSE "none"]
  /\ UNCHANGED <<lockVars, emMu, kernelVars, localVars, osVars, cfg,
                 handlerVars, asyncVars, holderVars>>

(* Variant: the worker ends without a last look at restartPending.         *)
NextRequestBlind ==
  /\ pc[Worker] = "again"
  /\ Goto(Worker, "idle")
  /\ restartRunning' = FALSE
  /\ UNCHANGED <<lockVars, emMu, kernelVars, localVars, osVars, cfg, op,
                 handlerVars, restartPending, holderVars>>

NextRequest ==
  /\ pc[Worker] = "again"
  /\ Goto(Worker, IF restartPending THEN "take" ELSE "idle")
  /\ restartRunning' = restartPending
  /\ UNCHANGED <<lockVars, emMu, kernelVars, localVars, osVars, cfg, op,
                 handlerVars, restartPending, holderVars>>

-----------------------------------------------------------------------------
(* AcquireMainProbe and its release function.                              *)

BeginAcquire(u) ==
  /\ upc[u] = "out"
  /\ RLock(u)
  /\ upc' = [upc EXCEPT ![u] = "rlock"]
  /\ UNCHANGED <<emMu, kernelVars, localVars, osVars, cfg, pc, op,
                 handlerVars, asyncVars, seen>>

(* IsRunning holds and the probe inbound accepts a connection.             *)
EnterProbe(u) ==
  /\ upc[u] = "rlock" /\ u \in readers
  /\ running /\ alive # {}
  /\ upc' = [upc EXCEPT ![u] = "using"]
  /\ seen' = [seen EXCEPT ![u] = proc]
  /\ UNCHANGED <<lockVars, emMu, kernelVars, localVars, osVars, cfg, pc, op,
                 handlerVars, asyncVars>>

(* Variant: a failed AcquireMainProbe keeps the read lock.                 *)
LeaveProbeKeeping(u) ==
  /\ upc[u] \in {"rlock", "using"} /\ u \in readers
  /\ IF upc[u] = "using" THEN RUnlock(u) ELSE UNCHANGED <<wlock, readers, rwait>>
  /\ upc' = [upc EXCEPT ![u] = "out"]
  /\ seen' = [seen EXCEPT ![u] = NoProc]
  /\ UNCHANGED <<emMu, kernelVars, localVars, osVars, cfg, pc, op,
                 handlerVars, asyncVars>>

(* Either the kernel is not running or the caller's context ends: release. *)
(* The same step models the release function after a use.                  *)
LeaveProbe(u) ==
  /\ upc[u] \in {"rlock", "using"} /\ u \in readers
  /\ RUnlock(u)
  /\ upc' = [upc EXCEPT ![u] = "out"]
  /\ seen' = [seen EXCEPT ![u] = NoProc]
  /\ UNCHANGED <<emMu, kernelVars, localVars, osVars, cfg, pc, op,
                 handlerVars, asyncVars>>

-----------------------------------------------------------------------------
(* The steps an actor takes on its own once its operation has begun.       *)
ActorStep(a) ==
  \/ LockLifecycle(a) \/ UnlockLifecycle(a) \/ RunUpdate(a) \/ CheckRunning(a)
  \/ StopKernel(a) \/ KillOld(a) \/ SnapshotNodes(a) \/ BuildConfig(a)
  \/ SpawnKernel(a) \/ PortReady(a) \/ PortTimeout(a)

WorkerStep == TakeRequest \/ DecideRestart \/ NextRequest
HandlerStep(h) == AskRunning(h) \/ RequestRestart(h)
HolderStep(u) == EnterProbe(u) \/ LeaveProbe(u)

Next ==
  \/ \E c \in Clients : Call(c)
  \/ \E a \in Actors : ActorStep(a)
  \/ WorkerStep
  \/ \E h \in Handlers : WriteConfig(h) \/ HandlerStep(h)
  \/ \E u \in Holders : BeginAcquire(u) \/ HolderStep(u)
  \/ \E p \in Procs : Exit(p) \/ WatchExit(p)

Spec == Init /\ [][Next]_vars

(* Goroutines that can run do run; sync.Mutex hands the lock over in FIFO  *)
(* order to a goroutine that has waited for a millisecond, so nobody waits *)
(* for a lock that is released again and again (SF); a killed process      *)
(* exits, and a holder's context has a deadline.  Nothing makes a client   *)
(* call, a handler write, a holder acquire, or a live kernel crash.        *)
Fairness ==
  /\ \A a \in Actors : SF_vars(ActorStep(a))
  /\ WF_vars(WorkerStep)
  /\ \A h \in Handlers : WF_vars(HandlerStep(h))
  /\ \A u \in Holders : WF_vars(LeaveProbe(u))
  /\ \A p \in Procs : WF_vars(p \in killed /\ Exit(p)) /\ SF_vars(WatchExit(p))

FairSpec == Spec /\ Fairness

-----------------------------------------------------------------------------
(* Properties.                                                             *)

Labels == {"idle", "lock", "drain", "check", "begin", "snapshot", "build",
           "spawn", "wait", "unlock", "take", "decide", "again"}

TypeOK ==
  /\ wlock \in Actors \union {NoThread}
  /\ readers \subseteq Holders /\ rwait \subseteq Holders
  /\ emMu \in Actors \union {NoThread}
  /\ proc \in Procs \union {NoProc}
  /\ running \in BOOLEAN
  /\ loaded \in Stamps
  /\ snap \in Stamps
  /\ built \in Stamps
  /\ alive \subseteq Procs /\ killed \subseteq Procs
  /\ watch \subseteq Procs \union {NoProc}
  /\ serving \in Stamps
  /\ cfg \in Versions
  /\ pc \in [Actors -> Labels]
  /\ op \in [Actors -> {"none", "start", "stop", "update", "restart"}]
  /\ hpc \in [Handlers -> {"idle", "check", "request"}]
  /\ hver \in [Handlers -> Stamps]
  /\ restartPending \in BOOLEAN /\ restartRunning \in BOOLEAN
  /\ upc \in [Holders -> {"out", "rlock", "using"}]
  /\ seen \in [Holders -> Procs \union {NoProc}]
  /\ owed \in Stamps
  /\ due \in Stamps

(* Whenever em.mu is free, the running flag, the process handle and the    *)
(* table of loaded nodes agree: all set or all cleared.  Every exit of     *)
(* start(), Stop and the exit goroutine must leave them so.                *)
FieldsAgree ==
  emMu = NoThread => (running <=> proc # NoProc) /\ (running <=> loaded # NoVersion)

(* A kernel process the manager has lost track of has at least been sent a *)
(* kill: no launch, failure or exit goroutine leaves a stray kernel on the *)
(* ports.                                                                  *)
NoStrayKernel == alive \subseteq killed \union {proc}

(* "keeps the main kernel configuration stable while callers use its       *)
(* internal probe inbound" (main_probe.go:44): until it releases, a holder *)
(* sees the kernel it was given, or no kernel when that one has exited.    *)
HolderSeesOneKernel ==
  \A u \in Holders :
    upc[u] = "using" => proc = seen[u] \/ (proc = NoProc /\ seen[u] \notin alive)

(* A restart that was asked for and has not read the store yet.            *)
RestartOutstanding ==
  \/ \E h \in Handlers : hpc[h] = "request"
  \/ restartPending /\ pc[Worker] # "idle"
  \/ pc[Worker] \in {"decide", "lock", "drain", "begin"}

(* No change is lost by the coalescing of restarts: when the writer of a   *)
(* version found the kernel running, a kernel that serves was built from   *)
(* that version or a newer one (its node table too), or a restart is still *)
(* to come.                                                                *)
AppliedOrRestartOwed ==
  running /\ emMu = NoThread =>
    (owed <= loaded /\ owed <= serving) \/ RestartOutstanding

(* What handlers.go:3290 and handlers.go:2690 say of a settings change: if *)
(* the kernel is running, it is restarted so that the change takes effect. *)
(* Once nothing is in progress, the kernel that serves holds every change  *)
(* made while a kernel process was up.                                     *)
Quiet ==
  /\ ~ RestartOutstanding
  /\ \A a \in Actors : pc[a] = "idle"
  /\ \A h \in Handlers : hpc[h] = "idle"
ChangeTakesEffect == Quiet /\ running => due <= serving

(* The manager and its locks implement the lease that main_probe.go:44     *)
(* promises to the users of the internal probe inbound.                    *)
Lease == INSTANCE KernelLease WITH
  Users <- Holders,
  kernel <- proc,
  up <- proc \in alive,
  users <- {u \in Holders : upc[u] = "using"}
ImplementsLease == Lease!Spec

(* Every lifecycle call returns: pending readers, the exit goroutines, the *)
(* restart worker and the other callers cannot block it for ever.          *)
CallsReturn == \A c \in Clients : pc[c] = "lock" ~> pc[c] = "idle"

(* The exit of the kernel the manager believes in is noticed.              *)
CrashNoticed ==
  \A p \in Procs : (proc = p /\ running /\ p \notin alive) ~> proc # p

(* A change that was noted while the kernel ran is served in the end, or   *)
(* the kernel has stopped.                                                 *)
ChangeServed ==
  \A v \in Versions : owed >= v ~> (emMu = NoThread /\ (running => loaded >= v))
=============================================================================
