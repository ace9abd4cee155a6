------------------------------- MODULE CoreProofs -------------------------------
(***************************************************************************)
(* What the parts of MCCore keep.  First the engine, of which the theorems *)
(* are about Engine's own specification, for any number of clients,        *)
(* handlers, holders, kernel processes and versions: none of its safety    *)
(* properties is inductive, each rests on who owns which lock at which     *)
(* control point (LockInv) and on what start() has done to the fields so   *)
(* far (FieldInv).  Then the composition, for any sets of threads, nodes,  *)
(* outbounds and latencies: its invariant says of the part that moves what *)
(* the proofs of that part say of it alone.                                *)
(***************************************************************************)
EXTENDS MCCore, TLAPS


(* What the proofs need of the constants.                                  *)
LEMMA Facts ==
  /\ Worker \in Actors /\ Clients \subseteq Actors /\ NoThread \notin Actors
  /\ Worker \notin Clients
  /\ NoProc \notin Procs
  /\ MaxVersion \in Nat
  /\ Versions \subseteq Stamps /\ Stamps \subseteq Nat
  /\ 1 \in Versions /\ NoVersion \in Stamps /\ NoVersion \notin Versions
  /\ NoVersion = 0
  /\ \A v \in Stamps : v # NoVersion => v \in Versions
  /\ \A v \in Versions : v < MaxVersion => v + 1 \in Versions
BY EngineAssumption DEF Actors, Versions, Stamps, NoVersion

-----------------------------------------------------------------------------
(* A manager that has started nothing satisfies TypeOK.                    *)
LEMMA TypeInit == Init => TypeOK
<1> SUFFICES ASSUME Init PROVE TypeOK
  OBVIOUS
<1> USE Facts DEF Init, Labels
<1>1. pc \in [Actors -> Labels]
  OBVIOUS
<1>2. op \in [Actors -> {"none", "start", "stop", "update", "restart"}]
  OBVIOUS
<1>3. /\ hpc \in [Handlers -> {"idle", "check", "request"}]
      /\ hver \in [Handlers -> Stamps]
  OBVIOUS
<1>4. /\ upc \in [Holders -> {"out", "rlock", "using"}]
      /\ seen \in [Holders -> Procs \union {NoProc}]
  OBVIOUS
<1>5. QED
  BY <1>1, <1>2, <1>3, <1>4 DEF TypeOK

(* TypeOK: no lock, flag, handle, version or control point of the manager  *)
(* and its goroutines ever leaves its range.                               *)
THEOREM TypeCorrect == Spec => []TypeOK
<1> USE Facts DEF Labels, lockVars,
      kernelVars, localVars, osVars, handlerVars, asyncVars, holderVars
<1>1. TypeOK /\ [Next]_vars => TypeOK'
  <2> SUFFICES ASSUME TypeOK, [Next]_vars
               PROVE  TypeOK'
    OBVIOUS
  <2> USE DEF TypeOK
  <2>1. ASSUME NEW a \in Clients, Call(a)
        PROVE  TypeOK'
    BY <2>1 DEF Call, Goto
  <2>2. ASSUME NEW a \in Actors, LockLifecycle(a)
        PROVE  TypeOK'
    BY <2>2 DEF LockLifecycle, Goto
  <2>3. ASSUME NEW a \in Actors, UnlockLifecycle(a)
        PROVE  TypeOK'
    BY <2>3 DEF UnlockLifecycle, WUnlock, Goto
  <2>4. ASSUME NEW a \in Actors, RunUpdate(a)
        PROVE  TypeOK'
    BY <2>4 DEF RunUpdate, Granted, Goto
  <2>5. ASSUME NEW a \in Actors, CheckRunning(a)
        PROVE  TypeOK'
    BY <2>5 DEF CheckRunning, Granted, Goto
  <2>6. ASSUME NEW a \in Actors, StopKernel(a)
        PROVE  TypeOK'
    BY <2>6 DEF StopKernel, Granted, DropKernel, Goto
  <2>7. ASSUME NEW a \in Actors, KillOld(a)
        PROVE  TypeOK'
    BY <2>7 DEF KillOld, Granted, DropKernel, Goto
  <2>8. ASSUME NEW a \in Actors, SnapshotNodes(a)
        PROVE  TypeOK'
    <3>1. CASE StartFails(a)
      BY <2>8, <3>1 DEF SnapshotNodes, StartFails, Goto
    <3>2. CASE ~ StartFails(a)
      BY <2>8, <3>2 DEF SnapshotNodes, Goto
    <3>3. QED
      BY <3>1, <3>2
  <2>9. ASSUME NEW a \in Actors, BuildConfig(a)
        PROVE  TypeOK'
    <3>1. CASE StartFails(a)
      BY <2>9, <3>1 DEF BuildConfig, StartFails, Goto
    <3>2. CASE ~ StartFails(a)
      BY <2>9, <3>2 DEF BuildConfig, Goto
    <3>3. QED
      BY <3>1, <3>2
  <2>10. ASSUME NEW a \in Actors, SpawnKernel(a)
        PROVE  TypeOK'
    <3>1. CASE StartFails(a) /\ UNCHANGED <<proc, alive, serving>>
      BY <2>10, <3>1 DEF SpawnKernel, StartFails, Goto
    <3>2. CASE ~ (StartFails(a) /\ UNCHANGED <<proc, alive, serving>>)
      <4>1. PICK p \in Procs : proc' = p /\ alive' = alive \union {p}
        BY <2>10, <3>2 DEF SpawnKernel
      <4>2. QED
        BY <2>10, <3>2, <4>1 DEF SpawnKernel, Goto
    <3>3. QED
      BY <3>1, <3>2
  <2>11. ASSUME NEW a \in Actors, PortReady(a)
        PROVE  TypeOK'
    BY <2>11 DEF PortReady, Goto
  <2>12. ASSUME NEW a \in Actors, PortTimeout(a)
        PROVE  TypeOK'
    BY <2>12 DEF PortTimeout, DropKernel, StartFails, Goto
  <2>13. ASSUME TakeRequest
        PROVE  TypeOK'
    BY <2>13 DEF TakeRequest, Goto
  <2>14. ASSUME DecideRestart
        PROVE  TypeOK'
    BY <2>14 DEF DecideRestart, Goto
  <2>15. ASSUME NextRequest
        PROVE  TypeOK'
    BY <2>15 DEF NextRequest, Goto
  <2>16. ASSUME NEW h \in Handlers, WriteConfig(h)
        PROVE  TypeOK'
    BY <2>16 DEF WriteConfig
  <2>17. ASSUME NEW h \in Handlers, AskRunning(h)
        PROVE  TypeOK'
    BY <2>17 DEF AskRunning
  <2>18. ASSUME NEW h \in Handlers, RequestRestart(h)
        PROVE  TypeOK'
    BY <2>18 DEF RequestRestart, Goto
  <2>19. ASSUME NEW u \in Holders, BeginAcquire(u)
        PROVE  TypeOK'
    BY <2>19 DEF BeginAcquire, RLock
  <2>20. ASSUME NEW u \in Holders, EnterProbe(u)
        PROVE  TypeOK'
    BY <2>20 DEF EnterProbe
  <2>21. ASSUME NEW u \in Holders, LeaveProbe(u)
        PROVE  TypeOK'
    BY <2>21 DEF LeaveProbe, RUnlock
  <2>22. ASSUME NEW p \in Procs, Exit(p)
        PROVE  TypeOK'
    BY <2>22 DEF Exit
  <2>23. ASSUME NEW p \in Procs, WatchExit(p)
        PROVE  TypeOK'
    BY <2>23 DEF WatchExit
  <2>24. CASE UNCHANGED vars
    BY <2>24 DEF vars
  <2>25. QED
    BY <2>1, <2>2, <2>3, <2>4, <2>5, <2>6, <2>7, <2>8, <2>9, <2>10,
       <2>11, <2>12, <2>13, <2>14, <2>15, <2>16, <2>17, <2>18, <2>19,
       <2>20, <2>21, <2>22, <2>23, <2>24
    DEF Next, ActorStep, WorkerStep, HandlerStep, HolderStep
<1>2. QED
  BY TypeInit, <1>1, PTL DEF Spec
-----------------------------------------------------------------------------
(* Control points at which an actor owns lifecycleMu as its writer, or has *)
(* called Lock and waits for the readers; and those inside start().        *)
Writing == {"check", "begin", "snapshot", "build", "spawn", "wait", "unlock"}
Starting == {"snapshot", "build", "spawn", "wait"}

(* Who owns which lock, by control point.                                  *)
WriterInv ==
  \A a \in Actors :
    /\ pc[a] \in Writing \union {"drain"} <=> wlock = a
    /\ pc[a] \in Writing => readers = {}
ReaderInv == \A u \in Holders : upc[u] = "using" => u \in readers
MutexInv == \A a \in Actors : pc[a] \in Starting <=> emMu = a
WorkerInv ==
  /\ restartRunning <=> pc[Worker] # "idle"
  /\ pc[Worker] \in {"lock", "drain"} => op[Worker] = "restart"
LockInv == WriterInv /\ ReaderInv /\ MutexInv /\ WorkerInv

(* The discipline of lifecycleMu and em.mu: at every control point of an  *)
(* actor it is known which locks it owns, a writer past Lock excludes     *)
(* every reader, and at most one restart worker exists.                   *)
THEOREM LocksHeld == Spec => []LockInv
<1> USE Facts DEF Labels, lockVars,
      kernelVars, localVars, osVars, handlerVars, asyncVars, holderVars
<1>1. Init => LockInv
  BY DEF Init, LockInv, WriterInv, ReaderInv, MutexInv, WorkerInv, Writing,
     Starting
<1>2. TypeOK /\ LockInv /\ [Next]_vars => LockInv'
  <2> SUFFICES ASSUME TypeOK, LockInv, [Next]_vars
               PROVE  LockInv'
    OBVIOUS
  <2> USE DEF TypeOK, LockInv, WriterInv, ReaderInv, MutexInv, WorkerInv,
     Writing, Starting
  <2>1. ASSUME NEW a \in Clients, Call(a)
        PROVE  LockInv'
    BY <2>1 DEF Call, Goto
  <2>2. ASSUME NEW a \in Actors, LockLifecycle(a)
        PROVE  LockInv'
    BY <2>2 DEF LockLifecycle, Goto
  <2>3. ASSUME NEW a \in Actors, UnlockLifecycle(a)
        PROVE  LockInv'
    BY <2>3 DEF UnlockLifecycle, WUnlock, Goto
  <2>4. ASSUME NEW a \in Actors, RunUpdate(a)
        PROVE  LockInv'
    BY <2>4 DEF RunUpdate, Granted, Goto
  <2>5. ASSUME NEW a \in Actors, CheckRunning(a)
        PROVE  LockInv'
    BY <2>5 DEF CheckRunning, Granted, Goto
  <2>6. ASSUME NEW a \in Actors, StopKernel(a)
        PROVE  LockInv'
    BY <2>6 DEF StopKernel, Granted, DropKernel, Goto
  <2>7. ASSUME NEW a \in Actors, KillOld(a)
        PROVE  LockInv'
    BY <2>7 DEF KillOld, Granted, DropKernel, Goto
  <2>8. ASSUME NEW a \in Actors, SnapshotNodes(a)
        PROVE  LockInv'
    BY <2>8 DEF SnapshotNodes, StartFails, Goto
  <2>9. ASSUME NEW a \in Actors, BuildConfig(a)
        PROVE  LockInv'
    BY <2>9 DEF BuildConfig, StartFails, Goto
  <2>10. ASSUME NEW a \in Actors, SpawnKernel(a)
        PROVE  LockInv'
    BY <2>10 DEF SpawnKernel, StartFails, Goto
  <2>11. ASSUME NEW a \in Actors, PortReady(a)
        PROVE  LockInv'
    BY <2>11 DEF PortReady, Goto
  <2>12. ASSUME NEW a \in Actors, PortTimeout(a)
        PROVE  LockInv'
    BY <2>12 DEF PortTimeout, DropKernel, StartFails, Goto
  <2>13. ASSUME TakeRequest
        PROVE  LockInv'
    BY <2>13 DEF TakeRequest, Goto
  <2>14. ASSUME DecideRestart
        PROVE  LockInv'
    BY <2>14 DEF DecideRestart, Goto
  <2>15. ASSUME NextRequest
        PROVE  LockInv'
    BY <2>15 DEF NextRequest, Goto
  <2>16. ASSUME NEW h \in Handlers, WriteConfig(h)
        PROVE  LockInv'
    BY <2>16 DEF WriteConfig
  <2>17. ASSUME NEW h \in Handlers, AskRunning(h)
        PROVE  LockInv'
    BY <2>17 DEF AskRunning
  <2>18. ASSUME NEW h \in Handlers, RequestRestart(h)
        PROVE  LockInv'
    BY <2>18 DEF RequestRestart, Goto
  <2>19. ASSUME NEW u \in Holders, BeginAcquire(u)
        PROVE  LockInv'
    BY <2>19 DEF BeginAcquire, RLock
  <2>20. ASSUME NEW u \in Holders, EnterProbe(u)
        PROVE  LockInv'
    BY <2>20 DEF EnterProbe
  <2>21. ASSUME NEW u \in Holders, LeaveProbe(u)
        PROVE  LockInv'
    BY <2>21 DEF LeaveProbe, RUnlock
  <2>22. ASSUME NEW p \in Procs, Exit(p)
        PROVE  LockInv'
    BY <2>22 DEF Exit
  <2>23. ASSUME NEW p \in Procs, WatchExit(p)
        PROVE  LockInv'
    BY <2>23 DEF WatchExit
  <2>24. CASE UNCHANGED vars
    BY <2>24 DEF vars
  <2>25. QED
    BY <2>1, <2>2, <2>3, <2>4, <2>5, <2>6, <2>7, <2>8, <2>9, <2>10,
       <2>11, <2>12, <2>13, <2>14, <2>15, <2>16, <2>17, <2>18, <2>19,
       <2>20, <2>21, <2>22, <2>23, <2>24
    DEF Next, ActorStep, WorkerStep, HandlerStep, HolderStep
<1>3. QED
  BY <1>1, <1>2, TypeCorrect, PTL DEF Spec

-----------------------------------------------------------------------------
(* What start() has done to the fields when it is at a control point.      *)
StartInv ==
  \A a \in Actors :
    /\ pc[a] \in {"snapshot", "build", "spawn"} =>
         proc = NoProc /\ loaded = NoVersion /\ serving = NoVersion
    /\ pc[a] \in {"build", "spawn", "wait"} => snap \in Versions
    /\ pc[a] = "spawn" => built \in Versions
    /\ pc[a] = "wait" =>
         proc \in Procs /\ loaded = NoVersion /\ serving \in Versions
FreeInv ==
  emMu = NoThread =>
    /\ running <=> proc # NoProc
    /\ running <=> loaded \in Versions
    /\ running <=> serving \in Versions

FieldInv == StartInv /\ FreeInv

(* The fields em.proc, em.running, em.loadedNodeOutbounds and the version *)
(* served, at every point of start() and whenever em.mu is free.          *)
THEOREM FieldsConsistent == Spec => []FieldInv
<1> USE Facts DEF Labels, lockVars,
      kernelVars, localVars, osVars, handlerVars, asyncVars, holderVars
<1>1. Init => FieldInv
  BY DEF Init, FieldInv, StartInv, FreeInv
<1>2. TypeOK /\ LockInv /\ FieldInv /\ [Next]_vars => FieldInv'
  <2> SUFFICES ASSUME TypeOK, LockInv, FieldInv, [Next]_vars
               PROVE  FieldInv'
    OBVIOUS
  <2> USE DEF TypeOK, FieldInv, StartInv, FreeInv, LockInv, WriterInv,
     ReaderInv, MutexInv, WorkerInv, Writing, Starting
  <2>1. ASSUME NEW a \in Clients, Call(a)
        PROVE  FieldInv'
    BY <2>1 DEF Call, Goto
  <2>2. ASSUME NEW a \in Actors, LockLifecycle(a)
        PROVE  FieldInv'
    BY <2>2 DEF LockLifecycle, Goto
  <2>3. ASSUME NEW a \in Actors, UnlockLifecycle(a)
        PROVE  FieldInv'
    BY <2>3 DEF UnlockLifecycle, WUnlock, Goto
  <2>4. ASSUME NEW a \in Actors, RunUpdate(a)
        PROVE  FieldInv'
    BY <2>4 DEF RunUpdate, Granted, Goto
  <2>5. ASSUME NEW a \in Actors, CheckRunning(a)
        PROVE  FieldInv'
    BY <2>5 DEF CheckRunning, Granted, Goto
  <2>6. ASSUME NEW a \in Actors, StopKernel(a)
        PROVE  FieldInv'
    BY <2>6 DEF StopKernel, Granted, DropKernel, Goto
  <2>7. ASSUME NEW a \in Actors, KillOld(a)
        PROVE  FieldInv'
    BY <2>7 DEF KillOld, Granted, DropKernel, Goto
  <2>8. ASSUME NEW a \in Actors, SnapshotNodes(a)
        PROVE  FieldInv'
    BY <2>8 DEF SnapshotNodes, StartFails, Goto
  <2>9. ASSUME NEW a \in Actors, BuildConfig(a)
        PROVE  FieldInv'
    BY <2>9 DEF BuildConfig, StartFails, Goto
  <2>10. ASSUME NEW a \in Actors, SpawnKernel(a)
        PROVE  FieldInv'
    BY <2>10 DEF SpawnKernel, StartFails, Goto
  <2>11. ASSUME NEW a \in Actors, PortReady(a)
        PROVE  FieldInv'
    BY <2>11 DEF PortReady, Goto
  <2>12. ASSUME NEW a \in Actors, PortTimeout(a)
        PROVE  FieldInv'
    BY <2>12 DEF PortTimeout, DropKernel, StartFails, Goto
  <2>13. ASSUME TakeRequest
        PROVE  FieldInv'
    BY <2>13 DEF TakeRequest, Goto
  <2>14. ASSUME DecideRestart
        PROVE  FieldInv'
    BY <2>14 DEF DecideRestart, Goto
  <2>15. ASSUME NextRequest
        PROVE  FieldInv'
    BY <2>15 DEF NextRequest, Goto
  <2>16. ASSUME NEW h \in Handlers, WriteConfig(h)
        PROVE  FieldInv'
    BY <2>16 DEF WriteConfig
  <2>17. ASSUME NEW h \in Handlers, AskRunning(h)
        PROVE  FieldInv'
    BY <2>17 DEF AskRunning
  <2>18. ASSUME NEW h \in Handlers, RequestRestart(h)
        PROVE  FieldInv'
    BY <2>18 DEF RequestRestart, Goto
  <2>19. ASSUME NEW u \in Holders, BeginAcquire(u)
        PROVE  FieldInv'
    BY <2>19 DEF BeginAcquire, RLock
  <2>20. ASSUME NEW u \in Holders, EnterProbe(u)
        PROVE  FieldInv'
    BY <2>20 DEF EnterProbe
  <2>21. ASSUME NEW u \in Holders, LeaveProbe(u)
        PROVE  FieldInv'
    BY <2>21 DEF LeaveProbe, RUnlock
  <2>22. ASSUME NEW p \in Procs, Exit(p)
        PROVE  FieldInv'
    BY <2>22 DEF Exit
  <2>23. ASSUME NEW p \in Procs, WatchExit(p)
        PROVE  FieldInv'
    BY <2>23 DEF WatchExit
  <2>24. CASE UNCHANGED vars
    BY <2>24 DEF vars
  <2>25. QED
    BY <2>1, <2>2, <2>3, <2>4, <2>5, <2>6, <2>7, <2>8, <2>9, <2>10,
       <2>11, <2>12, <2>13, <2>14, <2>15, <2>16, <2>17, <2>18, <2>19,
       <2>20, <2>21, <2>22, <2>23, <2>24
    DEF Next, ActorStep, WorkerStep, HandlerStep, HolderStep
<1>3. QED
  BY <1>1, <1>2, TypeCorrect, LocksHeld, PTL DEF Spec

(* FieldsAgree: running flag, handle and node table agree whenever em.mu  *)
(* is free, whatever Start, Stop, restarts and exit goroutines do.        *)
THEOREM FieldsAlwaysAgree == Spec => []FieldsAgree
<1>1. TypeOK /\ FieldInv => FieldsAgree
  BY Facts DEF TypeOK, FieldInv, FreeInv, FieldsAgree
<1>2. QED
  BY <1>1, TypeCorrect, FieldsConsistent, PTL

(* NoStrayKernel: every kernel process other than em.proc has been sent a *)
(* kill; a launch needs FieldInv, which says that em.proc was cleared     *)
(* before it.                                                             *)
THEOREM NoStray == Spec => []NoStrayKernel
<1> USE Facts DEF Labels, lockVars,
      kernelVars, localVars, osVars, handlerVars, asyncVars, holderVars
<1>1. Init => NoStrayKernel
  BY DEF Init, NoStrayKernel
<1>2. TypeOK /\ LockInv /\ FieldInv /\ NoStrayKernel /\ [Next]_vars =>
   NoStrayKernel'
  <2> SUFFICES ASSUME TypeOK, LockInv, FieldInv, NoStrayKernel, [Next]_vars
               PROVE  NoStrayKernel'
    OBVIOUS
  <2> USE DEF TypeOK, NoStrayKernel, FieldInv, StartInv, FreeInv, LockInv,
     WriterInv, ReaderInv, MutexInv, WorkerInv, Writing, Starting
  <2>1. ASSUME NEW a \in Clients, Call(a)
        PROVE  NoStrayKernel'
    BY <2>1 DEF Call, Goto
  <2>2. ASSUME NEW a \in Actors, LockLifecycle(a)
        PROVE  NoStrayKernel'
    BY <2>2 DEF LockLifecycle, Goto
  <2>3. ASSUME NEW a \in Actors, UnlockLifecycle(a)
        PROVE  NoStrayKernel'
    BY <2>3 DEF UnlockLifecycle, WUnlock, Goto
  <2>4. ASSUME NEW a \in Actors, RunUpdate(a)
        PROVE  NoStrayKernel'
    BY <2>4 DEF RunUpdate, Granted, Goto
  <2>5. ASSUME NEW a \in Actors, CheckRunning(a)
        PROVE  NoStrayKernel'
    BY <2>5 DEF CheckRunning, Granted, Goto
  <2>6. ASSUME NEW a \in Actors, StopKernel(a)
        PROVE  NoStrayKernel'
    BY <2>6 DEF StopKernel, Granted, DropKernel, Goto
  <2>7. ASSUME NEW a \in Actors, KillOld(a)
        PROVE  NoStrayKernel'
    BY <2>7 DEF KillOld, Granted, DropKernel, Goto
  <2>8. ASSUME NEW a \in Actors, SnapshotNodes(a)
        PROVE  NoStrayKernel'
    BY <2>8 DEF SnapshotNodes, StartFails, Goto
  <2>9. ASSUME NEW a \in Actors, BuildConfig(a)
        PROVE  NoStrayKernel'
    BY <2>9 DEF BuildConfig, StartFails, Goto
  <2>10. ASSUME NEW a \in Actors, SpawnKernel(a)
        PROVE  NoStrayKernel'
    BY <2>10 DEF SpawnKernel, StartFails, Goto
  <2>11. ASSUME NEW a \in Actors, PortReady(a)
        PROVE  NoStrayKernel'
    BY <2>11 DEF PortReady, Goto
  <2>12. ASSUME NEW a \in Actors, PortTimeout(a)
        PROVE  NoStrayKernel'
    BY <2>12 DEF PortTimeout, DropKernel, StartFails, Goto
  <2>13. ASSUME TakeRequest
        PROVE  NoStrayKernel'
    BY <2>13 DEF TakeRequest, Goto
  <2>14. ASSUME DecideRestart
        PROVE  NoStrayKernel'
    BY <2>14 DEF DecideRestart, Goto
  <2>15. ASSUME NextRequest
        PROVE  NoStrayKernel'
    BY <2>15 DEF NextRequest, Goto
  <2>16. ASSUME NEW h \in Handlers, WriteConfig(h)
        PROVE  NoStrayKernel'
    BY <2>16 DEF WriteConfig
  <2>17. ASSUME NEW h \in Handlers, AskRunning(h)
        PROVE  NoStrayKernel'
    BY <2>17 DEF AskRunning
  <2>18. ASSUME NEW h \in Handlers, RequestRestart(h)
        PROVE  NoStrayKernel'
    BY <2>18 DEF RequestRestart, Goto
  <2>19. ASSUME NEW u \in Holders, BeginAcquire(u)
        PROVE  NoStrayKernel'
    BY <2>19 DEF BeginAcquire, RLock
  <2>20. ASSUME NEW u \in Holders, EnterProbe(u)
        PROVE  NoStrayKernel'
    BY <2>20 DEF EnterProbe
  <2>21. ASSUME NEW u \in Holders, LeaveProbe(u)
        PROVE  NoStrayKernel'
    BY <2>21 DEF LeaveProbe, RUnlock
  <2>22. ASSUME NEW p \in Procs, Exit(p)
        PROVE  NoStrayKernel'
    BY <2>22 DEF Exit
  <2>23. ASSUME NEW p \in Procs, WatchExit(p)
        PROVE  NoStrayKernel'
    BY <2>23 DEF WatchExit
  <2>24. CASE UNCHANGED vars
    BY <2>24 DEF vars
  <2>25. QED
    BY <2>1, <2>2, <2>3, <2>4, <2>5, <2>6, <2>7, <2>8, <2>9, <2>10,
       <2>11, <2>12, <2>13, <2>14, <2>15, <2>16, <2>17, <2>18, <2>19,
       <2>20, <2>21, <2>22, <2>23, <2>24
    DEF Next, ActorStep, WorkerStep, HandlerStep, HolderStep
<1>3. QED
  BY <1>1, <1>2, TypeCorrect, LocksHeld, FieldsConsistent, PTL DEF Spec

(* HolderSeesOneKernel: nobody who uses the probe inbound sees the kernel *)
(* replaced or withdrawn under it, because every step that does so owns   *)
(* lifecycleMu with no reader left.                                       *)
THEOREM HolderStable == Spec => []HolderSeesOneKernel
<1> USE Facts DEF Labels, lockVars,
      kernelVars, localVars, osVars, handlerVars, asyncVars, holderVars
<1>1. Init => HolderSeesOneKernel
  BY DEF Init, HolderSeesOneKernel
<1>2. TypeOK /\ LockInv /\ HolderSeesOneKernel /\ [Next]_vars =>
   HolderSeesOneKernel'
  <2> SUFFICES ASSUME TypeOK, LockInv, HolderSeesOneKernel, [Next]_vars
               PROVE  HolderSeesOneKernel'
    OBVIOUS
  <2> USE DEF TypeOK, HolderSeesOneKernel, LockInv, WriterInv, ReaderInv,
     MutexInv, WorkerInv, Writing, Starting
  <2>1. ASSUME NEW a \in Clients, Call(a)
        PROVE  HolderSeesOneKernel'
    BY <2>1 DEF Call, Goto
  <2>2. ASSUME NEW a \in Actors, LockLifecycle(a)
        PROVE  HolderSeesOneKernel'
    BY <2>2 DEF LockLifecycle, Goto
  <2>3. ASSUME NEW a \in Actors, UnlockLifecycle(a)
        PROVE  HolderSeesOneKernel'
    BY <2>3 DEF UnlockLifecycle, WUnlock, Goto
  <2>4. ASSUME NEW a \in Actors, RunUpdate(a)
        PROVE  HolderSeesOneKernel'
    BY <2>4 DEF RunUpdate, Granted, Goto
  <2>5. ASSUME NEW a \in Actors, CheckRunning(a)
        PROVE  HolderSeesOneKernel'
    BY <2>5 DEF CheckRunning, Granted, Goto
  <2>6. ASSUME NEW a \in Actors, StopKernel(a)
        PROVE  HolderSeesOneKernel'
    BY <2>6 DEF StopKernel, Granted, DropKernel, Goto
  <2>7. ASSUME NEW a \in Actors, KillOld(a)
        PROVE  HolderSeesOneKernel'
    BY <2>7 DEF KillOld, Granted, DropKernel, Goto
  <2>8. ASSUME NEW a \in Actors, SnapshotNodes(a)
        PROVE  HolderSeesOneKernel'
    BY <2>8 DEF SnapshotNodes, StartFails, Goto
  <2>9. ASSUME NEW a \in Actors, BuildConfig(a)
        PROVE  HolderSeesOneKernel'
    BY <2>9 DEF BuildConfig, StartFails, Goto
  <2>10. ASSUME NEW a \in Actors, SpawnKernel(a)
        PROVE  HolderSeesOneKernel'
    BY <2>10 DEF SpawnKernel, StartFails, Goto
  <2>11. ASSUME NEW a \in Actors, PortReady(a)
        PROVE  HolderSeesOneKernel'
    BY <2>11 DEF PortReady, Goto
  <2>12. ASSUME NEW a \in Actors, PortTimeout(a)
        PROVE  HolderSeesOneKernel'
    BY <2>12 DEF PortTimeout, DropKernel, StartFails, Goto
  <2>13. ASSUME TakeRequest
        PROVE  HolderSeesOneKernel'
    BY <2>13 DEF TakeRequest, Goto
  <2>14. ASSUME DecideRestart
        PROVE  HolderSeesOneKernel'
    BY <2>14 DEF DecideRestart, Goto
  <2>15. ASSUME NextRequest
        PROVE  HolderSeesOneKernel'
    BY <2>15 DEF NextRequest, Goto
  <2>16. ASSUME NEW h \in Handlers, WriteConfig(h)
        PROVE  HolderSeesOneKernel'
    BY <2>16 DEF WriteConfig
  <2>17. ASSUME NEW h \in Handlers, AskRunning(h)
        PROVE  HolderSeesOneKernel'
    BY <2>17 DEF AskRunning
  <2>18. ASSUME NEW h \in Handlers, RequestRestart(h)
        PROVE  HolderSeesOneKernel'
    BY <2>18 DEF RequestRestart, Goto
  <2>19. ASSUME NEW u \in Holders, BeginAcquire(u)
        PROVE  HolderSeesOneKernel'
    BY <2>19 DEF BeginAcquire, RLock
  <2>20. ASSUME NEW u \in Holders, EnterProbe(u)
        PROVE  HolderSeesOneKernel'
    BY <2>20 DEF EnterProbe
  <2>21. ASSUME NEW u \in Holders, LeaveProbe(u)
        PROVE  HolderSeesOneKernel'
    BY <2>21 DEF LeaveProbe, RUnlock
  <2>22. ASSUME NEW p \in Procs, Exit(p)
        PROVE  HolderSeesOneKernel'
    BY <2>22 DEF Exit
  <2>23. ASSUME NEW p \in Procs, WatchExit(p)
        PROVE  HolderSeesOneKernel'
    BY <2>23 DEF WatchExit
  <2>24. CASE UNCHANGED vars
    BY <2>24 DEF vars
  <2>25. QED
    BY <2>1, <2>2, <2>3, <2>4, <2>5, <2>6, <2>7, <2>8, <2>9, <2>10,
       <2>11, <2>12, <2>13, <2>14, <2>15, <2>16, <2>17, <2>18, <2>19,
       <2>20, <2>21, <2>22, <2>23, <2>24
    DEF Next, ActorStep, WorkerStep, HandlerStep, HolderStep
<1>3. QED
  BY <1>1, <1>2, TypeCorrect, LocksHeld, PTL DEF Spec

-----------------------------------------------------------------------------
(* What the coalescing of restarts keeps: a writer's version that start()  *)
(* missed is covered by a restart that is still to come.                   *)
OweInv ==
  /\ owed <= cfg
  /\ \A h \in Handlers : hver[h] <= cfg
  /\ \A a \in Actors :
       pc[a] \in {"build", "spawn", "wait"} =>
         /\ snap <= cfg
         /\ owed <= snap \/ (running /\ RestartOutstanding)
         /\ pc[a] = "spawn" => snap <= built
         /\ pc[a] = "wait" => snap <= serving
  /\ emMu = NoThread /\ running =>
       loaded <= serving /\ (owed <= loaded \/ RestartOutstanding)

(* OweInv holds throughout: also inside start(), where a change that      *)
(* comes after the snapshot leaves a request behind.                      *)
THEOREM OweSafe == Spec => []OweInv
<1> USE Facts DEF Labels, lockVars,
      kernelVars, localVars, osVars, handlerVars, asyncVars, holderVars
<1>1. Init => OweInv
  BY DEF Init, OweInv
<1>2. TypeOK /\ LockInv /\ FieldInv /\ OweInv /\ [Next]_vars => OweInv'
  <2> SUFFICES ASSUME TypeOK, LockInv, FieldInv, OweInv, [Next]_vars
               PROVE  OweInv'
    OBVIOUS
  <2> USE DEF TypeOK, OweInv, RestartOutstanding, FieldInv, StartInv, FreeInv,
     LockInv, WriterInv, ReaderInv, MutexInv, WorkerInv, Writing, Starting
  <2>1. ASSUME NEW a \in Clients, Call(a)
        PROVE  OweInv'
    BY <2>1 DEF Call, Goto
  <2>2. ASSUME NEW a \in Actors, LockLifecycle(a)
        PROVE  OweInv'
    BY <2>2 DEF LockLifecycle, Goto
  <2>3. ASSUME NEW a \in Actors, UnlockLifecycle(a)
        PROVE  OweInv'
    BY <2>3 DEF UnlockLifecycle, WUnlock, Goto
  <2>4. ASSUME NEW a \in Actors, RunUpdate(a)
        PROVE  OweInv'
    <3>1. cfg \in Nat /\ snap \in Nat /\ owed \in Nat
      OBVIOUS
    <3>2. cfg' \in Nat /\ cfg <= cfg'
      BY <2>4, <3>1 DEF RunUpdate, Granted, Goto
    <3>3. \A x \in Handlers : hver[x] \in Nat
      OBVIOUS
    <3>4. \A x \in Handlers : hver'[x] = hver[x] \/ hver'[x] = cfg'
      BY <2>4 DEF RunUpdate, Granted, Goto
    <3>5. owed' <= cfg' /\ \A x \in Handlers : hver'[x] <= cfg'
      BY <2>4, <3>1, <3>2, <3>3, <3>4 DEF RunUpdate, Granted, Goto
    <3>6. RestartOutstanding => RestartOutstanding'
      BY <2>4 DEF RunUpdate, Granted, Goto
    <3>7. \A b \in Actors : pc'[b] \in {"build", "spawn", "wait"} => pc'[b] = pc[b]
      BY <2>4 DEF RunUpdate, Granted, Goto
    <3>8. UNCHANGED <<snap, built, serving, loaded, running, owed, emMu>>
      BY <2>4 DEF RunUpdate, Granted, Goto
    <3>9. QED
      BY <3>1, <3>2, <3>5, <3>6, <3>7, <3>8 DEF OweInv
  <2>5. ASSUME NEW a \in Actors, CheckRunning(a)
        PROVE  OweInv'
    BY <2>5 DEF CheckRunning, Granted, Goto
  <2>6. ASSUME NEW a \in Actors, StopKernel(a)
        PROVE  OweInv'
    BY <2>6 DEF StopKernel, Granted, DropKernel, Goto
  <2>7. ASSUME NEW a \in Actors, KillOld(a)
        PROVE  OweInv'
    BY <2>7 DEF KillOld, Granted, DropKernel, Goto
  <2>8. ASSUME NEW a \in Actors, SnapshotNodes(a)
        PROVE  OweInv'
    BY <2>8 DEF SnapshotNodes, StartFails, Goto
  <2>9. ASSUME NEW a \in Actors, BuildConfig(a)
        PROVE  OweInv'
    BY <2>9 DEF BuildConfig, StartFails, Goto
  <2>10. ASSUME NEW a \in Actors, SpawnKernel(a)
        PROVE  OweInv'
    BY <2>10 DEF SpawnKernel, StartFails, Goto
  <2>11. ASSUME NEW a \in Actors, PortReady(a)
        PROVE  OweInv'
    BY <2>11 DEF PortReady, Goto
  <2>12. ASSUME NEW a \in Actors, PortTimeout(a)
        PROVE  OweInv'
    BY <2>12 DEF PortTimeout, DropKernel, StartFails, Goto
  <2>13. ASSUME TakeRequest
        PROVE  OweInv'
    BY <2>13 DEF TakeRequest, Goto
  <2>14. ASSUME DecideRestart
        PROVE  OweInv'
    BY <2>14 DEF DecideRestart, Goto
  <2>15. ASSUME NextRequest
        PROVE  OweInv'
    BY <2>15 DEF NextRequest, Goto
  <2>16. ASSUME NEW h \in Handlers, WriteConfig(h)
        PROVE  OweInv'
    <3>1. cfg \in Nat /\ snap \in Nat /\ owed \in Nat
      OBVIOUS
    <3>2. cfg' \in Nat /\ cfg <= cfg'
      BY <2>16, <3>1 DEF WriteConfig
    <3>3. \A x \in Handlers : hver[x] \in Nat
      OBVIOUS
    <3>4. \A x \in Handlers : hver'[x] = hver[x] \/ hver'[x] = cfg'
      BY <2>16 DEF WriteConfig
    <3>5. owed' <= cfg' /\ \A x \in Handlers : hver'[x] <= cfg'
      BY <2>16, <3>1, <3>2, <3>3, <3>4 DEF WriteConfig
    <3>6. RestartOutstanding => RestartOutstanding'
      BY <2>16 DEF WriteConfig
    <3>7. \A b \in Actors : pc'[b] \in {"build", "spawn", "wait"} => pc'[b] = pc[b]
      BY <2>16 DEF WriteConfig
    <3>8. UNCHANGED <<snap, built, serving, loaded, running, owed, emMu>>
      BY <2>16 DEF WriteConfig
    <3>9. QED
      BY <3>1, <3>2, <3>5, <3>6, <3>7, <3>8 DEF OweInv
  <2>17. ASSUME NEW h \in Handlers, AskRunning(h)
        PROVE  OweInv'
    BY <2>17 DEF AskRunning
  <2>18. ASSUME NEW h \in Handlers, RequestRestart(h)
        PROVE  OweInv'
    BY <2>18 DEF RequestRestart, Goto
  <2>19. ASSUME NEW u \in Holders, BeginAcquire(u)
        PROVE  OweInv'
    BY <2>19 DEF BeginAcquire, RLock
  <2>20. ASSUME NEW u \in Holders, EnterProbe(u)
        PROVE  OweInv'
    BY <2>20 DEF EnterProbe
  <2>21. ASSUME NEW u \in Holders, LeaveProbe(u)
        PROVE  OweInv'
    BY <2>21 DEF LeaveProbe, RUnlock
  <2>22. ASSUME NEW p \in Procs, Exit(p)
        PROVE  OweInv'
    BY <2>22 DEF Exit
  <2>23. ASSUME NEW p \in Procs, WatchExit(p)
        PROVE  OweInv'
    BY <2>23 DEF WatchExit
  <2>24. CASE UNCHANGED vars
    BY <2>24 DEF vars
  <2>25. QED
    BY <2>1, <2>2, <2>3, <2>4, <2>5, <2>6, <2>7, <2>8, <2>9, <2>10,
       <2>11, <2>12, <2>13, <2>14, <2>15, <2>16, <2>17, <2>18, <2>19,
       <2>20, <2>21, <2>22, <2>23, <2>24
    DEF Next, ActorStep, WorkerStep, HandlerStep, HolderStep
<1>3. QED
  BY <1>1, <1>2, TypeCorrect, LocksHeld, FieldsConsistent, PTL DEF Spec

(* AppliedOrRestartOwed: no configuration change whose writer found the   *)
(* kernel running is lost.                                                *)
THEOREM NoChangeLost == Spec => []AppliedOrRestartOwed
<1>1. TypeOK /\ OweInv => AppliedOrRestartOwed
  <2> SUFFICES ASSUME TypeOK, OweInv, running, emMu = NoThread, ~
     RestartOutstanding
               PROVE  owed <= loaded /\ owed <= serving
    BY DEF AppliedOrRestartOwed
  <2>1. loaded \in Nat /\ serving \in Nat /\ owed \in Nat
    BY Facts DEF TypeOK
  <2>2. loaded <= serving /\ owed <= loaded
    BY DEF OweInv
  <2>3. QED
    BY <2>1, <2>2
<1>2. QED
  BY <1>1, TypeCorrect, OweSafe, PTL

-----------------------------------------------------------------------------
(* ImplementsLease: whatever the locks and goroutines do, the manager is a *)
(* KernelLease, so no kernel is withdrawn or replaced under a user.        *)
THEOREM ManagerImplementsLease == Spec => ImplementsLease
<1> DEFINE Using == {u \in Holders : upc[u] = "using"}
<1> USE Facts DEF Labels, lockVars,
      kernelVars, localVars, osVars, handlerVars, asyncVars, holderVars
<1>1. Init => Lease!Init
  BY DEF Init, Lease!Init
<1>2. TypeOK /\ LockInv /\ FieldInv /\ [Next]_vars => [Lease!Next]_Lease!vars
  <2> SUFFICES ASSUME TypeOK, LockInv, FieldInv, [Next]_vars
               PROVE  [Lease!Next]_Lease!vars
    OBVIOUS
  <2> USE DEF TypeOK, LockInv, WriterInv, ReaderInv, MutexInv, WorkerInv,
     Writing, Starting, FieldInv, StartInv, FreeInv
  <2>1. ASSUME NEW a \in Clients, Call(a)
        PROVE  [Lease!Next]_Lease!vars
    BY <2>1 DEF Call, Goto, Lease!vars
  <2>2. ASSUME NEW a \in Actors, LockLifecycle(a)
        PROVE  [Lease!Next]_Lease!vars
    BY <2>2 DEF LockLifecycle, Goto, Lease!vars
  <2>3. ASSUME NEW a \in Actors, UnlockLifecycle(a)
        PROVE  [Lease!Next]_Lease!vars
    BY <2>3 DEF UnlockLifecycle, WUnlock, Goto, Lease!vars
  <2>4. ASSUME NEW a \in Actors, RunUpdate(a)
        PROVE  [Lease!Next]_Lease!vars
    BY <2>4 DEF RunUpdate, Granted, Goto, Lease!vars
  <2>5. ASSUME NEW a \in Actors, CheckRunning(a)
        PROVE  [Lease!Next]_Lease!vars
    BY <2>5 DEF CheckRunning, Granted, Goto, Lease!vars
  <2>6. ASSUME NEW a \in Actors, StopKernel(a)
        PROVE  [Lease!Next]_Lease!vars
    <3>1. Using = {} /\ Using' = {}
      BY <2>6 DEF StopKernel, Granted, DropKernel, Goto
    <3>2. proc' = NoProc /\ ~ (proc' \in alive')
      BY <2>6 DEF StopKernel, Granted, DropKernel, Goto
    <3>3. CASE proc = NoProc
      BY <3>1, <3>2, <3>3 DEF Lease!vars
    <3>4. CASE proc # NoProc
      BY <3>1, <3>2, <3>4 DEF Lease!Next, Lease!Withdraw
    <3>5. QED
      BY <3>3, <3>4
  <2>7. ASSUME NEW a \in Actors, KillOld(a)
        PROVE  [Lease!Next]_Lease!vars
    <3>1. Using = {} /\ Using' = {}
      BY <2>7 DEF KillOld, Granted, DropKernel, Goto
    <3>2. proc' = NoProc /\ ~ (proc' \in alive')
      BY <2>7 DEF KillOld, Granted, DropKernel, Goto
    <3>3. CASE proc = NoProc
      BY <3>1, <3>2, <3>3 DEF Lease!vars
    <3>4. CASE proc # NoProc
      BY <3>1, <3>2, <3>4 DEF Lease!Next, Lease!Withdraw
    <3>5. QED
      BY <3>3, <3>4
  <2>8. ASSUME NEW a \in Actors, SnapshotNodes(a)
        PROVE  [Lease!Next]_Lease!vars
    BY <2>8 DEF SnapshotNodes, StartFails, Goto, Lease!vars
  <2>9. ASSUME NEW a \in Actors, BuildConfig(a)
        PROVE  [Lease!Next]_Lease!vars
    BY <2>9 DEF BuildConfig, StartFails, Goto, Lease!vars
  <2>10. ASSUME NEW a \in Actors, SpawnKernel(a)
        PROVE  [Lease!Next]_Lease!vars
    <3>1. Using = {} /\ Using' = {}
      BY <2>10 DEF SpawnKernel, StartFails, Goto
    <3>2. CASE UNCHANGED <<proc, alive>>
      BY <3>1, <3>2 DEF Lease!vars
    <3>3. CASE ~ UNCHANGED <<proc, alive>>
      <4>1. PICK p \in Procs : proc' = p /\ alive' = alive \union {p}
        BY <2>10, <3>3 DEF SpawnKernel
      <4>2. proc = NoProc
        BY <2>10 DEF SpawnKernel
      <4>3. QED
        BY <3>1, <4>1, <4>2 DEF Lease!Next, Lease!Launch
    <3>4. QED
      BY <3>2, <3>3
  <2>11. ASSUME NEW a \in Actors, PortReady(a)
        PROVE  [Lease!Next]_Lease!vars
    BY <2>11 DEF PortReady, Goto, Lease!vars
  <2>12. ASSUME NEW a \in Actors, PortTimeout(a)
        PROVE  [Lease!Next]_Lease!vars
    <3>1. Using = {} /\ Using' = {}
      BY <2>12 DEF PortTimeout, DropKernel, StartFails, Goto
    <3>2. proc' = NoProc /\ ~ (proc' \in alive')
      BY <2>12 DEF PortTimeout, DropKernel, StartFails, Goto
    <3>3. CASE proc = NoProc
      BY <3>1, <3>2, <3>3 DEF Lease!vars
    <3>4. CASE proc # NoProc
      BY <3>1, <3>2, <3>4 DEF Lease!Next, Lease!Withdraw
    <3>5. QED
      BY <3>3, <3>4
  <2>13. ASSUME TakeRequest
        PROVE  [Lease!Next]_Lease!vars
    BY <2>13 DEF TakeRequest, Goto, Lease!vars
  <2>14. ASSUME DecideRestart
        PROVE  [Lease!Next]_Lease!vars
    BY <2>14 DEF DecideRestart, Goto, Lease!vars
  <2>15. ASSUME NextRequest
        PROVE  [Lease!Next]_Lease!vars
    BY <2>15 DEF NextRequest, Goto, Lease!vars
  <2>16. ASSUME NEW h \in Handlers, WriteConfig(h)
        PROVE  [Lease!Next]_Lease!vars
    BY <2>16 DEF WriteConfig, Lease!vars
  <2>17. ASSUME NEW h \in Handlers, AskRunning(h)
        PROVE  [Lease!Next]_Lease!vars
    BY <2>17 DEF AskRunning, Lease!vars
  <2>18. ASSUME NEW h \in Handlers, RequestRestart(h)
        PROVE  [Lease!Next]_Lease!vars
    BY <2>18 DEF RequestRestart, Goto, Lease!vars
  <2>19. ASSUME NEW u \in Holders, BeginAcquire(u)
        PROVE  [Lease!Next]_Lease!vars
    <3>1. Using' = Using
      BY <2>19 DEF BeginAcquire, RLock
    <3>2. QED
      BY <2>19, <3>1 DEF BeginAcquire, Lease!vars
  <2>20. ASSUME NEW u \in Holders, EnterProbe(u)
        PROVE  [Lease!Next]_Lease!vars
    <3>1. Using' = Using \union {u}
      BY <2>20 DEF EnterProbe
    <3>2. emMu = NoThread
      BY <2>20 DEF EnterProbe
    <3>3. proc # NoProc
      BY <2>20, <3>2 DEF EnterProbe
    <3>4. QED
      BY <2>20, <3>1, <3>3 DEF EnterProbe, Lease!Next, Lease!Join
  <2>21. ASSUME NEW u \in Holders, LeaveProbe(u)
        PROVE  [Lease!Next]_Lease!vars
    <3>1. Using' = Using \ {u}
      BY <2>21 DEF LeaveProbe
    <3>2. CASE u \in Using
      BY <2>21, <3>1, <3>2 DEF LeaveProbe, Lease!Next, Lease!Leave
    <3>3. CASE u \notin Using
      <4>1. Using' = Using
        BY <3>1, <3>3
      <4>2. QED
        BY <2>21, <4>1 DEF LeaveProbe, Lease!vars
    <3>4. QED
      BY <3>2, <3>3
  <2>22. ASSUME NEW p \in Procs, Exit(p)
        PROVE  [Lease!Next]_Lease!vars
    <3>1. Using' = Using
      BY <2>22 DEF Exit
    <3>2. CASE proc = p
      BY <2>22, <3>1, <3>2 DEF Exit, Lease!Next, Lease!Crash
    <3>3. CASE proc # p
      <4>1. proc' = proc /\ (proc' \in alive' <=> proc \in alive)
        BY <2>22, <3>3 DEF Exit
      <4>2. QED
        BY <3>1, <4>1 DEF Lease!vars
    <3>4. QED
      BY <3>2, <3>3
  <2>23. ASSUME NEW p \in Procs, WatchExit(p)
        PROVE  [Lease!Next]_Lease!vars
    <3>1. Using' = Using
      BY <2>23 DEF WatchExit
    <3>2. CASE proc = p
      <4>1. proc # NoProc /\ ~ (proc \in alive) /\ proc' = NoProc /\ ~ (proc' \in alive')
        BY <2>23, <3>2 DEF WatchExit
      <4>2. QED
        BY <3>1, <4>1 DEF Lease!Next, Lease!Withdraw
    <3>3. CASE proc # p
      BY <2>23, <3>1, <3>3 DEF WatchExit, Lease!vars
    <3>4. QED
      BY <3>2, <3>3
  <2>24. CASE UNCHANGED vars
    BY <2>24 DEF vars, Lease!vars
  <2>25. QED
    BY <2>1, <2>2, <2>3, <2>4, <2>5, <2>6, <2>7, <2>8, <2>9, <2>10,
       <2>11, <2>12, <2>13, <2>14, <2>15, <2>16, <2>17, <2>18, <2>19,
       <2>20, <2>21, <2>22, <2>23, <2>24
    DEF Next, ActorStep, WorkerStep, HandlerStep, HolderStep
<1>3. QED
  BY <1>1, <1>2, TypeCorrect, LocksHeld, FieldsConsistent, PTL DEF Spec,
     ImplementsLease, Lease!Spec

-----------------------------------------------------------------------------
(* The composition: the instances of the modules with the proofs.          *)
LockedP == INSTANCE NodeSwitchingProofs WITH
  Binders <- {}, Modes <- AllModes,
  WithPatrol <- TRUE, WithEdits <- TRUE, WithReload <- TRUE, pc <- spc

BoundP == INSTANCE NodeSwitchingProofs WITH
  Appliers <- {}, Modes <- AllModes, Slowest <- SlowestBound,
  WithPatrol <- TRUE, WithEdits <- FALSE, WithReload <- FALSE,
  bind <- bind2, active <- active2, members <- members2, saved <- saved2,
  hot <- hot2, lock <- lock2, pc <- spc2, mem <- mem2

RefreshP == INSTANCE SubscriptionRefreshProofs WITH
  Refreshers <- {Refresher}, Latencies <- Measured, active <- refers, pc <- rpc

CoreInv ==
  /\ part = "locked" => LockedP!LockedInv
  /\ part = "bound" => BoundP!IInv
  /\ part = "refresh" => RefreshP!KeptInv

-----------------------------------------------------------------------------
(* The instances of the modules with the proofs are the instances of       *)
(* MCCore: what starts and moves the one starts and moves the other.       *)
LEMMA LockedInit ==
  Locked!Init => LockedP!Init
  BY Zenon DEF
     Locked!Init, Locked!NoMem, Locked!Bindings, Locked!Actors,
     Locked!Writers, LockedP!Init, LockedP!NoMem, LockedP!Bindings,
     LockedP!Actors, LockedP!Writers

(* A step of switching without connectOutbound is one of the module that   *)
(* was proved about: both take their constants from the same values.       *)
LEMMA LockedNext ==
  [Locked!Next]_locked => [LockedP!Next]_(LockedP!vars)
  BY Zenon DEF locked,
     Locked!Writers, Locked!Actors, Locked!Latencies, Locked!Bindings,
     Locked!NoMem, Locked!Goto, Locked!Finish, Locked!Reachable,
     Locked!Fastest, Locked!ShouldSwitch, Locked!SwitchTo,
     Locked!BeginRound, Locked!FinishRound, Locked!CollectPatrol,
     Locked!BeginPatrol, Locked!ProbeActive, Locked!NextCandidate,
     Locked!ProbeCandidate, Locked!ActivateFailover, Locked!ProbeGroup,
     Locked!ReadGroup, Locked!ApplySwitch, Locked!PickNode,
     Locked!Connect, Locked!SelectExisting, Locked!EditGroup,
     Locked!Reload, Locked!IsRound, Locked!Lock, Locked!GetRecord,
     Locked!PutRecord, Locked!Mark, Locked!Unlock, Locked!CoolDown,
     Locked!BackgroundStep, Locked!Next, Locked!store, Locked!vars,
     LockedP!Writers, LockedP!Actors, LockedP!Latencies, LockedP!Bindings,
     LockedP!NoMem, LockedP!Goto, LockedP!Finish, LockedP!Reachable,
     LockedP!Fastest, LockedP!ShouldSwitch, LockedP!SwitchTo,
     LockedP!BeginRound, LockedP!FinishRound, LockedP!CollectPatrol,
     LockedP!BeginPatrol, LockedP!ProbeActive, LockedP!NextCandidate,
     LockedP!ProbeCandidate, LockedP!ActivateFailover, LockedP!ProbeGroup,
     LockedP!ReadGroup, LockedP!ApplySwitch, LockedP!PickNode,
     LockedP!Connect, LockedP!SelectExisting, LockedP!EditGroup,
     LockedP!Reload, LockedP!IsRound, LockedP!Lock, LockedP!GetRecord,
     LockedP!PutRecord, LockedP!Mark, LockedP!Unlock, LockedP!CoolDown,
     LockedP!BackgroundStep, LockedP!Next, LockedP!store, LockedP!vars

(* The same with connectOutbound.                                          *)
LEMMA BoundInit ==
  Bound!Init => BoundP!Init
  BY Zenon DEF
     Bound!Init, Bound!NoMem, Bound!Bindings, Bound!Actors, Bound!Writers,
     BoundP!Init, BoundP!NoMem, BoundP!Bindings, BoundP!Actors,
     BoundP!Writers

(* A step with connectOutbound.                                            *)
LEMMA BoundNext ==
  [Bound!Next]_bound => [BoundP!Next]_(BoundP!vars)
  BY Zenon DEF bound,
     Bound!Writers, Bound!Actors, Bound!Latencies, Bound!Bindings,
     Bound!NoMem, Bound!Goto, Bound!Finish, Bound!Reachable,
     Bound!Fastest, Bound!ShouldSwitch, Bound!SwitchTo, Bound!BeginRound,
     Bound!FinishRound, Bound!CollectPatrol, Bound!BeginPatrol,
     Bound!ProbeActive, Bound!NextCandidate, Bound!ProbeCandidate,
     Bound!ActivateFailover, Bound!ProbeGroup, Bound!ReadGroup,
     Bound!ApplySwitch, Bound!PickNode, Bound!Connect,
     Bound!SelectExisting, Bound!EditGroup, Bound!Reload, Bound!IsRound,
     Bound!Lock, Bound!GetRecord, Bound!PutRecord, Bound!Mark,
     Bound!Unlock, Bound!CoolDown, Bound!BackgroundStep, Bound!Next,
     Bound!store, Bound!vars, BoundP!Writers, BoundP!Actors,
     BoundP!Latencies, BoundP!Bindings, BoundP!NoMem, BoundP!Goto,
     BoundP!Finish, BoundP!Reachable, BoundP!Fastest, BoundP!ShouldSwitch,
     BoundP!SwitchTo, BoundP!BeginRound, BoundP!FinishRound,
     BoundP!CollectPatrol, BoundP!BeginPatrol, BoundP!ProbeActive,
     BoundP!NextCandidate, BoundP!ProbeCandidate, BoundP!ActivateFailover,
     BoundP!ProbeGroup, BoundP!ReadGroup, BoundP!ApplySwitch,
     BoundP!PickNode, BoundP!Connect, BoundP!SelectExisting,
     BoundP!EditGroup, BoundP!Reload, BoundP!IsRound, BoundP!Lock,
     BoundP!GetRecord, BoundP!PutRecord, BoundP!Mark, BoundP!Unlock,
     BoundP!CoolDown, BoundP!BackgroundStep, BoundP!Next, BoundP!store,
     BoundP!vars

(* The same for the refresh.                                               *)
LEMMA RefreshInit ==
  Refresh!Init => RefreshP!Init
  BY Zenon DEF
     Refresh!Init, Refresh!Downloads, Refresh!Parsed, Refresh!Servers,
     RefreshP!Init, RefreshP!Downloads, RefreshP!Parsed, RefreshP!Servers

(* A step of the refresh.                                                  *)
LEMMA RefreshNext ==
  [Refresh!Next]_refresh => [RefreshP!Next]_(RefreshP!vars)
  BY Zenon DEF refresh,
     Refresh!Min, Refresh!Range, Refresh!Servers, Refresh!Parsed,
     Refresh!Downloads, Refresh!Match, Refresh!Preserve, Refresh!NewList,
     Refresh!Goto, Refresh!Finish, Refresh!Begin, Refresh!FetchFails,
     Refresh!Fetch, Refresh!ReadOutbound, Refresh!WriteOutbound,
     Refresh!NowUses, Refresh!SameNode, Refresh!Store,
     Refresh!UpdateGroup, Refresh!BeginProbe, Refresh!SaveLatency,
     Refresh!RefreshStep, Refresh!Next, Refresh!local, Refresh!store,
     Refresh!vars, RefreshP!Min, RefreshP!Range, RefreshP!Servers,
     RefreshP!Parsed, RefreshP!Downloads, RefreshP!Match,
     RefreshP!Preserve, RefreshP!NewList, RefreshP!Goto, RefreshP!Finish,
     RefreshP!Begin, RefreshP!FetchFails, RefreshP!Fetch,
     RefreshP!ReadOutbound, RefreshP!WriteOutbound, RefreshP!NowUses,
     RefreshP!SameNode, RefreshP!Store, RefreshP!UpdateGroup,
     RefreshP!BeginProbe, RefreshP!SaveLatency, RefreshP!RefreshStep,
     RefreshP!Next, RefreshP!local, RefreshP!store, RefreshP!vars

(* And their properties are the same.                                      *)
LEMMA LockedProperties ==
  /\ LockedP!TypeOK => Locked!TypeOK
  /\ LockedP!DecidedOnCurrent => Locked!DecidedOnCurrent
  /\ LockedP!ProbesKeepManual => Locked!ProbesKeepManual
  BY Zenon DEF
     Locked!TypeOK, Locked!Labels, Locked!Locals, Locked!Latencies,
     Locked!Bindings, Locked!Actors, Locked!Writers,
     Locked!DecidedOnCurrent, Locked!ProbesKeepManual, Locked!Automatic,
     Locked!PutRecord, Locked!Goto, Locked!Finish, Locked!IsRound,
     Locked!NoMem, LockedP!TypeOK, LockedP!Labels, LockedP!Locals,
     LockedP!Latencies, LockedP!Bindings, LockedP!Actors, LockedP!Writers,
     LockedP!DecidedOnCurrent, LockedP!ProbesKeepManual,
     LockedP!Automatic, LockedP!PutRecord, LockedP!Goto, LockedP!Finish,
     LockedP!IsRound, LockedP!NoMem

(* What was proved with connectOutbound says what the run checks.          *)
LEMMA BoundProperties ==
  /\ BoundP!TypeOK => Bound!TypeOK
  /\ BoundP!ManualHasNode => Bound!ManualHasNode
  BY Zenon DEF
     Bound!TypeOK, Bound!Labels, Bound!Locals, Bound!Latencies,
     Bound!Bindings, Bound!Actors, Bound!Writers, Bound!ManualHasNode,
     BoundP!TypeOK, BoundP!Labels, BoundP!Locals, BoundP!Latencies,
     BoundP!Bindings, BoundP!Actors, BoundP!Writers, BoundP!ManualHasNode

(* What was proved of the refresh says what the run checks.                *)
LEMMA RefreshProperties ==
  /\ RefreshP!TypeOK => Refresh!TypeOK
  /\ RefreshP!ActiveKept => Refresh!ActiveKept
  /\ RefreshP!GroupCoversActive => Refresh!GroupCoversActive
  /\ RefreshP!ResultsSurvive => Refresh!ResultsSurvive
  BY Zenon DEF
     Refresh!TypeOK, Refresh!Servers, Refresh!Range, Refresh!NewList,
     Refresh!ActiveKept, Refresh!GroupCoversActive, Refresh!Idle,
     Refresh!SameNode, Refresh!ResultsSurvive, Refresh!Store,
     Refresh!Preserve, Refresh!Match, Refresh!Min, Refresh!NowUses,
     Refresh!Goto, RefreshP!TypeOK, RefreshP!Servers, RefreshP!Range,
     RefreshP!NewList, RefreshP!ActiveKept, RefreshP!GroupCoversActive,
     RefreshP!Idle, RefreshP!SameNode, RefreshP!ResultsSurvive,
     RefreshP!Store, RefreshP!Preserve, RefreshP!Match, RefreshP!Min,
     RefreshP!NowUses, RefreshP!Goto

(* The constants are as the parts want them.                               *)
LEMMA Assumptions ==
  /\ LockedP!SwitchingAssumption /\ BoundP!SwitchingAssumption
  /\ RefreshP!RefreshAssumption /\ RefreshP!Single
<1>1. LockedP!SwitchingAssumption
  BY CoreAssumption DEF Locked!SwitchingAssumption, LockedP!SwitchingAssumption
<1>2. BoundP!SwitchingAssumption
  BY CoreAssumption DEF Bound!SwitchingAssumption, BoundP!SwitchingAssumption
<1>3. RefreshP!RefreshAssumption
  BY CoreAssumption DEF Refresh!RefreshAssumption, RefreshP!RefreshAssumption
<1>4. RefreshP!Single
  BY DEF RefreshP!Single
<1> QED BY <1>1, <1>2, <1>3, <1>4

-----------------------------------------------------------------------------
(* Whichever part moves, it starts in its invariant.                       *)
LEMMA CoreInvInit == MCInit => CoreInv
<1> SUFFICES ASSUME MCInit PROVE CoreInv
  OBVIOUS
<1>1. CASE part = "engine"
  BY <1>1 DEF CoreInv
<1>2. CASE part = "locked"
  <2>1. LockedP!Init
    BY <1>2, LockedInit DEF MCInit
  <2> QED BY <1>2, <2>1, Assumptions, LockedP!IInvInit DEF CoreInv
<1>3. CASE part = "bound"
  <2>1. BoundP!Init
    BY <1>3, BoundInit DEF MCInit
  <2> QED BY <1>3, <2>1, Assumptions, BoundP!IInvInit DEF CoreInv, BoundP!LockedInv
<1>4. CASE part = "refresh"
  <2>1. RefreshP!Init
    BY <1>4, RefreshInit DEF MCInit
  <2> QED BY <1>4, <2>1, Assumptions, RefreshP!IInvInit DEF CoreInv
<1> QED BY <1>1, <1>2, <1>3, <1>4 DEF MCInit

(* A step of the part that moves is a step of its module.                  *)
LEMMA CoreInvNext ==
  CoreInv /\ [MCNext]_<<part, vars, locked, bound, refresh>> => CoreInv'
<1> SUFFICES ASSUME CoreInv, [MCNext]_<<part, vars, locked, bound, refresh>>
             PROVE  CoreInv'
  OBVIOUS
<1>1. part' = part
  BY DEF MCNext
<1>2. ASSUME part = "locked" PROVE LockedP!LockedInv'
  <2>1. [Locked!Next]_locked
    BY <1>2 DEF MCNext
  <2> QED BY <1>2, <2>1, LockedNext, Assumptions, LockedP!LockedInvNext DEF CoreInv
<1>3. ASSUME part = "bound" PROVE BoundP!IInv'
  <2>1. [Bound!Next]_bound
    BY <1>3 DEF MCNext
  <2> QED BY <1>3, <2>1, BoundNext, Assumptions, BoundP!IInvNext DEF CoreInv
<1>4. ASSUME part = "refresh" PROVE RefreshP!KeptInv'
  <2>1. [Refresh!Next]_refresh
    BY <1>4 DEF MCNext
  <2> QED BY <1>4, <2>1, RefreshNext, Assumptions, RefreshP!KeptInvNext DEF CoreInv
<1> QED BY <1>1, <1>2, <1>3, <1>4 DEF CoreInv

(* The invariant of the part that moves holds throughout.                  *)
LEMMA Invariance == MCSpec => []CoreInv
  BY CoreInvInit, CoreInvNext, PTL DEF MCSpec

-----------------------------------------------------------------------------
(* Whichever part moves is well typed: switches of an outbound's node with *)
(* and without connectOutbound, and a refresh.                             *)
THEOREM PartsWellTyped == MCSpec => []PartsTypeOK
<1>1. CoreInv => PartsTypeOK
  BY LockedProperties, BoundProperties, RefreshProperties
     DEF CoreInv, PartsTypeOK, LockedP!LockedInv, LockedP!IInv, BoundP!IInv,
         RefreshP!KeptInv, RefreshP!IInv
<1> QED BY <1>1, Invariance, PTL

(* A manual binding names a node although connectOutbound stores it without*)
(* the lock, while any number of switches are under way.                   *)
THEOREM ManualKeepsNode == MCSpec => []ManualHasNode
<1>1. CoreInv => ManualHasNode
  BY BoundProperties DEF CoreInv, ManualHasNode, BoundP!IInv
<1> QED BY <1>1, Invariance, PTL

(* What is decided inside UpdateAndRestart, by the patrol or after a group *)
(* probe, is written onto the node it was decided about, with any number   *)
(* of users and handlers.                                                  *)
THEOREM DecisionsOnCurrent == MCSpec => DecidedOnCurrent
<1>1. CoreInv => (part = "locked" => Locked!DecidedOnCurrent)
  BY LockedProperties, LockedP!WritesAsDecided DEF CoreInv
<1> QED BY <1>1, Invariance, PTL DEF DecidedOnCurrent

(* Neither a round nor a group probe moves a manual outbound, whatever it  *)
(* has read before and whatever the probes answer.                         *)
THEOREM ProbesLeaveManual == MCSpec => ProbesKeepManual
<1>1. CoreInv => (part = "locked" => Locked!ProbesKeepManual)
  BY LockedProperties, LockedP!WritesKeepManual DEF CoreInv
<1> QED BY <1>1, Invariance, PTL DEF ProbesKeepManual

(* A refresh leaves every outbound the node it was given, and that node in *)
(* the group, with any number of outbounds, probers and downloaded nodes.  *)
THEOREM RefreshKeepsNodes == MCSpec => []ActiveKept
<1>1. CoreInv => ActiveKept
  BY RefreshProperties, RefreshP!KeptWhenIdle, Assumptions DEF CoreInv, ActiveKept
<1> QED BY <1>1, Invariance, PTL

(* A refresh stores the results that probes stored while it downloaded.    *)
THEOREM RefreshKeepsResults == MCSpec => ResultsSurvive
<1>1. CoreInv => (part = "refresh" => Refresh!ResultsSurvive)
  BY RefreshProperties, RefreshP!StoreKeepsResults DEF CoreInv, RefreshP!KeptInv
<1> QED BY <1>1, Invariance, PTL DEF ResultsSurvive
=============================================================================
