-------------------------- MODULE NodeSwitchingProofs --------------------------
(***************************************************************************)
(* Proofs about NodeSwitching, for any nodes, handlers and modes.  What is *)
(* said of the lock needs every writer to take it, so Binders = {} is a    *)
(* hypothesis there: connectOutbound, which does not, breaks it            *)
(* (MCSwitchLostBinding.cfg).                                              *)
(***************************************************************************)
EXTENDS NodeSwitching, TLAPS

(* What TypeOK says of the goroutines.                                     *)
LocalsOK ==
  /\ pc \in [Actors -> Labels]
  /\ mem \in [Actors -> Locals]
  /\ \A a \in Actors : pc[a] \in {"get", "put"} => mem[a].pick \in Nodes

(* A fresh goroutine, and what a choice of SwitchTo is.                    *)
LEMMA NoMemType ==
  ASSUME TypeOK
  PROVE  /\ NoMem \in Locals
         /\ NoMem.patrol = FALSE
<1>1. (CHOOSE m \in Modes : TRUE) \in Modes
  <2>1. \E m : m \in Modes
    BY DEF TypeOK, Bindings
  <2> QED BY <2>1
<1> QED BY <1>1 DEF NoMem, Locals, Bindings

(* A writer that is done is well typed.                                    *)
LEMMA FinishType ==
  ASSUME TypeOK, NEW a \in Actors, Finish(a)
  PROVE  LocalsOK'
  BY NoMemType DEF TypeOK, LocalsOK, Finish, Goto, Labels

(* What a decision picks is of the group, and never replaces a manual      *)
(* node.                                                                   *)
LEMMA SwitchToType ==
  ASSUME NEW mode, NEW cur, NEW grp, NEW lat, NEW isHot,
         NEW n \in SwitchTo(mode, cur, grp, lat, isHot)
  PROVE  /\ n \in grp
         /\ mode = "manual" => cur = NoNode
  BY DEF SwitchTo, Fastest, Reachable, ShouldSwitch

-----------------------------------------------------------------------------
(* Who has something to write has the node to write, and only the patrol   *)
(* goes through the steps of the patrol.                                   *)
PatrolSteps == {"target", "active", "recheck", "candidate", "decide"}
PickInv ==
  /\ \A a \in Actors :
       /\ pc[a] \in {"lock", "candidate"} /\ a \notin Appliers => mem[a].pick \in Nodes
       /\ pc[a] = "decide" /\ a = Background => mem[a].pick \in Nodes
  /\ pc[Background] \in PatrolSteps => mem[Background].patrol

(* Whoever is past Lock and not yet past Unlock has the lock; the round    *)
(* marks its switch after it, the others before.                           *)
Holds(a) ==
  \/ pc[a] \in {"decide", "get", "put", "unlock"}
  \/ pc[a] = "mark" /\ ~ IsRound(a)
LockInv == \A a \in Writers : Holds(a) => lock = a

(* What was compared under the lock stays as it was.                       *)
DecidedInv ==
  \A a \in Automatic : pc[a] \in {"get", "put"} /\ ~ IsRound(a) => active = mem[a].cur

(* The binding that is written back is the one that is stored.             *)
BindInv ==
  /\ bind.on
  /\ \A a \in Writers : pc[a] = "put" => mem[a].bind = bind

(* In manual mode neither a round nor a group probe gets as far as a       *)
(* switch: both compare with a node, and never with none.                  *)
ManualInv ==
  bind.mode = "manual" =>
    /\ \A h \in Appliers : pc[h] \notin {"get", "put", "mark", "unlock"}
    /\ IsRound(Background) => pc[Background] \in {"idle", "round"}
    /\ pc[Background] = "round" =>
         mem[Background].bind.mode = "manual" /\ mem[Background].cur # NoNode

(* What holds with any handlers, and what holds when all take the lock.    *)
IInv == TypeOK /\ PickInv /\ LockInv /\ ManualHasNode
LockedInv == IInv /\ DecidedInv /\ BindInv /\ ManualInv

-----------------------------------------------------------------------------
(* Nobody holds the lock or has read anything at first.                    *)
LEMMA IInvInit == SwitchingAssumption /\ Init => LockedInv
<1> SUFFICES ASSUME SwitchingAssumption, Init PROVE LockedInv
  OBVIOUS
<1>1. (CHOOSE m \in Modes : TRUE) \in Modes
  <2>1. \E m : m \in Modes
    BY DEF Init, Bindings
  <2> QED BY <2>1
<1>2. NoMem \in Locals /\ NoMem.patrol = FALSE
  BY <1>1 DEF NoMem, Locals, Bindings
<1>3. TypeOK
  <2>1. active \in Nodes \union {NoNode} /\ members \subseteq Nodes
    BY DEF Init
  <2>2. saved \in [Nodes -> Latencies]
    BY DEF Init, SwitchingAssumption, Latencies
  <2> QED BY <1>2, <2>1, <2>2 DEF Init, TypeOK, Labels
<1>4. \A a \in Actors : pc[a] = "idle"
  BY DEF Init
<1>5. Background \in Actors /\ Writers \subseteq Actors
  BY DEF Actors, Writers
<1>6. PickInv /\ LockInv /\ DecidedInv
  BY <1>4, <1>5 DEF PickInv, PatrolSteps, LockInv, Holds, DecidedInv, Automatic
<1>7. BindInv /\ ManualInv
  BY <1>4, <1>5 DEF Init, BindInv, ManualInv, Writers
<1>8. ManualHasNode
  BY DEF Init, ManualHasNode, SwitchingAssumption
<1> QED BY <1>3, <1>6, <1>7, <1>8 DEF LockedInv, IInv

(* Types: whoever writes has a node to write.                              *)
LEMMA TypeNext ==
  SwitchingAssumption /\ TypeOK /\ PickInv /\ [Next]_vars => TypeOK'
<1> SUFFICES ASSUME SwitchingAssumption, TypeOK, PickInv, [Next]_vars
             PROVE  TypeOK'
  OBVIOUS
<1> USE DEF TypeOK, store, Goto, Finish, Labels, Actors, Writers
<1>1. CASE BeginRound(Background)
  BY <1>1, NoMemType DEF BeginRound, Locals
<1>2. CASE FinishRound(Background)
  <2> DEFINE choice(res) == SwitchTo(mem[Background].bind.mode, mem[Background].cur,
                                     mem[Background].grp, res, hot)
  <2>1. PICK res \in [mem[Background].grp -> Latencies] :
          /\ saved' = [n \in Nodes |-> IF n \in mem[Background].grp THEN res[n] ELSE saved[n]]
          /\ \/ Finish(Background)
             \/ \E n \in choice(res) :
                  mem' = [mem EXCEPT ![Background].pick = n] /\ Goto(Background, "lock")
    BY <1>2 DEF FinishRound
  <2>2. saved' \in [Nodes -> Latencies]
    BY <2>1
  <2>3. CASE Finish(Background)
    BY <1>2, <2>2, <2>3, FinishType DEF FinishRound, LocalsOK
  <2>4. ASSUME NEW n \in choice(res), mem' = [mem EXCEPT ![Background].pick = n],
               Goto(Background, "lock")
        PROVE  LocalsOK'
    <3>1. n \in Nodes
      BY SwitchToType DEF Locals
    <3> QED BY <2>4, <3>1 DEF LocalsOK, Locals
  <2> QED BY <1>2, <2>1, <2>2, <2>3, <2>4 DEF FinishRound, LocalsOK
<1>3. CASE CollectPatrol(Background)
  BY <1>3, NoMemType DEF CollectPatrol, Locals
<1>4. CASE BeginPatrol(Background)
  <2>1. CASE Finish(Background)
    BY <1>4, <2>1, FinishType DEF BeginPatrol, LocalsOK
  <2>2. CASE ~ Finish(Background)
    BY <1>4, <2>2 DEF BeginPatrol, Locals
  <2> QED BY <2>1, <2>2
<1>5. CASE ProbeActive(Background)
  <2>1. saved' \in [Nodes -> Latencies]
    BY <1>5 DEF ProbeActive
  <2>2. CASE Finish(Background)
    BY <1>5, <2>1, <2>2, FinishType DEF ProbeActive, LocalsOK
  <2>3. CASE ~ Finish(Background)
    BY <1>5, <2>1, <2>3 DEF ProbeActive, Locals
  <2> QED BY <2>2, <2>3
<1>6. CASE NextCandidate(Background)
  <2>1. CASE Finish(Background)
    BY <1>6, <2>1, FinishType DEF NextCandidate, LocalsOK
  <2>2. CASE ~ Finish(Background)
    <3>1. PICK n \in mem[Background].todo :
            /\ mem' = [mem EXCEPT ![Background].pick = n, ![Background].todo = @ \ {n}]
            /\ Goto(Background, "candidate")
      BY <1>6, <2>2 DEF NextCandidate
    <3>2. n \in Nodes
      BY DEF Locals
    <3> DEFINE m == [mem[Background] EXCEPT !.pick = n, !.todo = @ \ {n}]
    <3>3. mem' = [mem EXCEPT ![Background] = m] /\ m \in Locals
      <4>1. mem' = [mem EXCEPT ![Background] = m]
        BY <3>1, Zenon
      <4>2. mem[Background] \in Locals
        OBVIOUS
      <4>3. m \in Locals
        BY <3>2, <4>2 DEF Locals
      <4> QED BY <4>1, <4>3
    <3> HIDE DEF m
    <3>4. LocalsOK'
      BY <3>1, <3>3, ZenonT(60) DEF LocalsOK
    <3> QED BY <1>6, <3>4 DEF NextCandidate, LocalsOK
  <2> QED BY <2>1, <2>2
<1>7. CASE ProbeCandidate(Background)
  <2>1. PICK lat \in Latencies :
          /\ saved' = [saved EXCEPT ![mem[Background].pick] = lat]
          /\ Goto(Background, IF lat > 0 THEN "lock" ELSE "recheck")
    BY <1>7 DEF ProbeCandidate
  <2>2. pc' = [pc EXCEPT ![Background] = "lock"] \/ pc' = [pc EXCEPT ![Background] = "recheck"]
    BY <2>1
  <2> QED BY <1>7, <2>1, <2>2 DEF ProbeCandidate
<1>8. CASE ActivateFailover(Background)
  BY <1>8, NoMemType, ZenonT(60) DEF ActivateFailover, PickInv
<1>9. ASSUME NEW h \in Appliers, ProbeGroup(h)
      PROVE  TypeOK'
  BY <1>9 DEF ProbeGroup
<1>10. ASSUME NEW h \in Appliers, ReadGroup(h)
      PROVE  TypeOK'
  BY <1>10 DEF ReadGroup, Locals
<1>11. ASSUME NEW h \in Appliers, ApplySwitch(h)
      PROVE  TypeOK'
  <2>1. CASE Finish(h)
    BY <1>11, <2>1, FinishType DEF ApplySwitch, LocalsOK
  <2>2. CASE ~ Finish(h)
    <3>1. PICK n \in SwitchTo(bind.mode, active, mem[h].grp, saved, hot) :
            /\ mem' = [mem EXCEPT ![h].pick = n, ![h].cur = active]
            /\ Goto(h, "get") /\ UNCHANGED lock
      BY <1>11, <2>2 DEF ApplySwitch
    <3>2. n \in Nodes
      BY SwitchToType DEF Locals
    <3> DEFINE m == [mem[h] EXCEPT !.pick = n, !.cur = active]
    <3>3. mem' = [mem EXCEPT ![h] = m] /\ m \in Locals /\ m.pick \in Nodes
      <4>1. mem' = [mem EXCEPT ![h] = m]
        BY <3>1, Zenon
      <4>2. mem[h] \in Locals /\ active \in Nodes \union {NoNode}
        OBVIOUS
      <4>3. m \in Locals /\ m.pick \in Nodes
        BY <3>2, <4>2 DEF Locals
      <4> QED BY <4>1, <4>3
    <3> HIDE DEF m
    <3>4. LocalsOK'
      BY <3>1, <3>3, ZenonT(60) DEF LocalsOK
    <3> QED BY <1>11, <3>1, <3>4 DEF ApplySwitch, LocalsOK
  <2> QED BY <2>1, <2>2
<1>12. ASSUME NEW u \in Users, PickNode(u)
      PROVE  TypeOK'
  BY <1>12 DEF PickNode, Locals
<1>13. ASSUME NEW b \in Binders, Connect(b)
      PROVE  TypeOK'
  BY <1>13 DEF Connect, Bindings
<1>14. ASSUME NEW b \in Binders, SelectExisting(b)
      PROVE  TypeOK'
  <2>1. CASE Finish(b)
    BY <1>14, <2>1, FinishType DEF SelectExisting, LocalsOK
  <2>2. CASE ~ Finish(b)
    <3>1. PICK n \in Fastest(members, saved) :
            mem' = [mem EXCEPT ![b].pick = n] /\ Goto(b, "get")
      BY <1>14, <2>2 DEF SelectExisting
    <3>2. n \in Nodes
      BY DEF Fastest, Reachable
    <3>3. LocalsOK'
      BY <3>1, <3>2 DEF LocalsOK, Locals
    <3> QED BY <1>14, <3>3 DEF SelectExisting, LocalsOK
  <2> QED BY <2>1, <2>2
<1>15. ASSUME NEW a \in Writers, Lock(a)
      PROVE  TypeOK'
  BY <1>15 DEF Lock, PickInv
<1>16. ASSUME NEW a \in Writers, Mark(a)
      PROVE  TypeOK'
  BY <1>16, NoMemType DEF Mark
<1>17. ASSUME NEW a \in Writers, Unlock(a)
      PROVE  TypeOK'
  BY <1>17, NoMemType DEF Unlock
<1>18. ASSUME NEW a \in Actors, GetRecord(a)
      PROVE  TypeOK'
  BY <1>18 DEF GetRecord, Locals
<1>19. ASSUME NEW a \in Actors, PutRecord(a)
      PROVE  TypeOK'
  BY <1>19, NoMemType, ZenonT(60) DEF PutRecord, Locals
<1>20. CASE EditGroup
  BY <1>20 DEF EditGroup
<1>21. CASE Reload
  BY <1>21 DEF Reload
<1>22. CASE CoolDown
  BY <1>22 DEF CoolDown
<1>23. CASE UNCHANGED vars
  BY <1>23 DEF vars
<1> QED BY <1>1, <1>2, <1>3, <1>4, <1>5, <1>6, <1>7, <1>8, <1>9, <1>10,
           <1>11, <1>12, <1>13, <1>14, <1>15, <1>16, <1>17, <1>18, <1>19,
           <1>20, <1>21, <1>22, <1>23 DEF Next, BackgroundStep

(* The node to write is chosen before the step that needs it.               *)
LEMMA PickNext ==
  SwitchingAssumption /\ TypeOK /\ PickInv /\ [Next]_vars => PickInv'
<1> SUFFICES ASSUME SwitchingAssumption, TypeOK, PickInv, [Next]_vars
             PROVE  PickInv'
  OBVIOUS
<1> USE DEF TypeOK, PickInv, PatrolSteps, store, Goto, Finish, Actors, Writers
<1>1. CASE BeginRound(Background)
  BY <1>1, NoMemType DEF BeginRound, SwitchingAssumption
<1>2. CASE FinishRound(Background)
  <2> DEFINE choice(res) == SwitchTo(mem[Background].bind.mode, mem[Background].cur,
                                     mem[Background].grp, res, hot)
  <2>1. PICK res \in [mem[Background].grp -> Latencies] :
          \/ Finish(Background)
          \/ \E n \in choice(res) :
               mem' = [mem EXCEPT ![Background].pick = n] /\ Goto(Background, "lock")
    BY <1>2 DEF FinishRound
  <2>2. CASE Finish(Background)
    BY <1>2, <2>2, NoMemType DEF SwitchingAssumption
  <2>3. ASSUME NEW n \in choice(res), mem' = [mem EXCEPT ![Background].pick = n],
               Goto(Background, "lock")
        PROVE  PickInv'
    <3>1. n \in Nodes
      BY SwitchToType DEF Locals
    <3> HIDE DEF choice
    <3> QED BY <2>3, <3>1 DEF Locals
  <2> QED BY <2>1, <2>2, <2>3
<1>3. CASE CollectPatrol(Background)
  BY <1>3 DEF CollectPatrol, SwitchingAssumption
<1>4. CASE BeginPatrol(Background)
  <2>1. CASE Finish(Background)
    BY <1>4, <2>1, NoMemType DEF BeginPatrol, SwitchingAssumption
  <2>2. CASE ~ Finish(Background)
    <3>1. mem' = [mem EXCEPT ![Background].cur = active] /\ pc'[Background] = "active"
      BY <1>4, <2>2 DEF BeginPatrol
    <3>2. mem'[Background].patrol = mem[Background].patrol
      BY <3>1 DEF Locals
    <3>3. \A a \in Actors \ {Background} : pc'[a] = pc[a] /\ mem'[a] = mem[a]
      BY <1>4, <2>2 DEF BeginPatrol
    <3> QED BY <1>4, <3>1, <3>2, <3>3 DEF BeginPatrol
  <2> QED BY <2>1, <2>2
<1>5. CASE ProbeActive(Background)
  <2>1. CASE Finish(Background)
    BY <1>5, <2>1, NoMemType DEF ProbeActive, SwitchingAssumption
  <2>2. CASE ~ Finish(Background)
    BY <1>5, <2>2 DEF ProbeActive, Locals
  <2> QED BY <2>1, <2>2
<1>6. CASE NextCandidate(Background)
  <2>1. CASE Finish(Background)
    BY <1>6, <2>1, NoMemType DEF NextCandidate, SwitchingAssumption
  <2>2. CASE ~ Finish(Background)
    <3>1. PICK n \in mem[Background].todo :
            /\ mem' = [mem EXCEPT ![Background].pick = n, ![Background].todo = @ \ {n}]
            /\ Goto(Background, "candidate")
      BY <1>6, <2>2 DEF NextCandidate
    <3> DEFINE m == [mem[Background] EXCEPT !.pick = n, !.todo = @ \ {n}]
    <3>2. /\ mem' = [mem EXCEPT ![Background] = m]
          /\ m.pick \in Nodes /\ m.patrol = mem[Background].patrol
      BY <3>1 DEF Locals
    <3>3. mem[Background].patrol
      BY <1>6 DEF NextCandidate
    <3> HIDE DEF m
    <3> QED BY <3>1, <3>2, <3>3
  <2> QED BY <2>1, <2>2
<1>7. CASE ProbeCandidate(Background)
  BY <1>7 DEF ProbeCandidate
<1>8. CASE ActivateFailover(Background)
  BY <1>8 DEF ActivateFailover
<1>9. ASSUME NEW h \in Appliers, ProbeGroup(h)
      PROVE  PickInv'
  BY <1>9 DEF ProbeGroup
<1>10. ASSUME NEW h \in Appliers, ReadGroup(h)
      PROVE  PickInv'
  BY <1>10 DEF ReadGroup
<1>11. ASSUME NEW h \in Appliers, ApplySwitch(h)
      PROVE  PickInv'
  BY <1>11 DEF ApplySwitch
<1>12. ASSUME NEW u \in Users, PickNode(u)
      PROVE  PickInv'
  BY <1>12 DEF PickNode
<1>13. ASSUME NEW b \in Binders, Connect(b)
      PROVE  PickInv'
  BY <1>13 DEF Connect
<1>14. ASSUME NEW b \in Binders, SelectExisting(b)
      PROVE  PickInv'
  BY <1>14 DEF SelectExisting
<1>15. ASSUME NEW a \in Writers, Lock(a)
      PROVE  PickInv'
  BY <1>15 DEF Lock, SwitchingAssumption
<1>16. ASSUME NEW a \in Writers, Mark(a)
      PROVE  PickInv'
  BY <1>16 DEF Mark
<1>17. ASSUME NEW a \in Writers, Unlock(a)
      PROVE  PickInv'
  BY <1>17 DEF Unlock
<1>18. ASSUME NEW a \in Actors, GetRecord(a)
      PROVE  PickInv'
  BY <1>18 DEF GetRecord
<1>19. ASSUME NEW a \in Actors, PutRecord(a)
      PROVE  PickInv'
  BY <1>19 DEF PutRecord
<1>20. CASE EditGroup
  BY <1>20 DEF EditGroup
<1>21. CASE Reload
  BY <1>21 DEF Reload
<1>22. CASE CoolDown
  BY <1>22 DEF CoolDown
<1>23. CASE UNCHANGED vars
  BY <1>23 DEF vars
<1> QED BY <1>1, <1>2, <1>3, <1>4, <1>5, <1>6, <1>7, <1>8, <1>9, <1>10,
           <1>11, <1>12, <1>13, <1>14, <1>15, <1>16, <1>17, <1>18, <1>19,
           <1>20, <1>21, <1>22, <1>23 DEF Next, BackgroundStep

(* One goroutine at a time is inside UpdateAndRestart.                      *)
LEMMA LockNext ==
  SwitchingAssumption /\ TypeOK /\ PickInv /\ LockInv /\ [Next]_vars => LockInv'
<1> SUFFICES ASSUME SwitchingAssumption, TypeOK, PickInv, LockInv, [Next]_vars
             PROVE  LockInv'
  OBVIOUS
<1> USE DEF TypeOK, LockInv, Holds, IsRound, store, Goto, Finish, Actors, Writers
<1>1. CASE BeginRound(Background)
  BY <1>1, NoMemType DEF BeginRound, SwitchingAssumption
<1>2. CASE FinishRound(Background)
  BY <1>2 DEF FinishRound
<1>3. CASE CollectPatrol(Background)
  BY <1>3, NoMemType DEF CollectPatrol, SwitchingAssumption
<1>4. CASE BeginPatrol(Background)
  BY <1>4, NoMemType DEF BeginPatrol, Locals
<1>5. CASE ProbeActive(Background)
  BY <1>5 DEF ProbeActive
<1>6. CASE NextCandidate(Background)
  BY <1>6 DEF NextCandidate, Locals
<1>7. CASE ProbeCandidate(Background)
  BY <1>7 DEF ProbeCandidate
<1>8. CASE ActivateFailover(Background)
  BY <1>8 DEF ActivateFailover, PickInv, PatrolSteps
<1>9. ASSUME NEW h \in Appliers, ProbeGroup(h)
      PROVE  LockInv'
  BY <1>9 DEF ProbeGroup
<1>10. ASSUME NEW h \in Appliers, ReadGroup(h)
      PROVE  LockInv'
  BY <1>10 DEF ReadGroup
<1>11. ASSUME NEW h \in Appliers, ApplySwitch(h)
      PROVE  LockInv'
  <2>1. CASE Finish(h)
    BY <1>11, <2>1, NoMemType DEF ApplySwitch, SwitchingAssumption
  <2>2. CASE ~ Finish(h)
    <3>1. lock' = lock /\ pc' = [pc EXCEPT ![h] = "get"]
      BY <1>11, <2>2 DEF ApplySwitch
    <3>2. \A a \in Actors \ {h} : mem'[a] = mem[a]
      BY <1>11, <2>2 DEF ApplySwitch
    <3> QED BY <1>11, <3>1, <3>2 DEF ApplySwitch, SwitchingAssumption
  <2> QED BY <2>1, <2>2
<1>12. ASSUME NEW u \in Users, PickNode(u)
      PROVE  LockInv'
  BY <1>12 DEF PickNode
<1>13. ASSUME NEW b \in Binders, Connect(b)
      PROVE  LockInv'
  BY <1>13 DEF Connect, SwitchingAssumption
<1>14. ASSUME NEW b \in Binders, SelectExisting(b)
      PROVE  LockInv'
  BY <1>14 DEF SelectExisting, SwitchingAssumption
<1>15. ASSUME NEW a \in Writers, Lock(a)
      PROVE  LockInv'
  BY <1>15 DEF Lock, SwitchingAssumption
<1>16. ASSUME NEW a \in Writers, Mark(a)
      PROVE  LockInv'
  BY <1>16, NoMemType DEF Mark, SwitchingAssumption
<1>17. ASSUME NEW a \in Writers, Unlock(a)
      PROVE  LockInv'
  BY <1>17, NoMemType DEF Unlock, SwitchingAssumption
<1>18. ASSUME NEW a \in Actors, GetRecord(a)
      PROVE  LockInv'
  BY <1>18 DEF GetRecord
<1>19. ASSUME NEW a \in Actors, PutRecord(a)
      PROVE  LockInv'
  BY <1>19, NoMemType DEF PutRecord, SwitchingAssumption
<1>20. CASE EditGroup
  BY <1>20 DEF EditGroup
<1>21. CASE Reload
  BY <1>21 DEF Reload
<1>22. CASE CoolDown
  BY <1>22 DEF CoolDown
<1>23. CASE UNCHANGED vars
  BY <1>23 DEF vars
<1> QED BY <1>1, <1>2, <1>3, <1>4, <1>5, <1>6, <1>7, <1>8, <1>9, <1>10,
           <1>11, <1>12, <1>13, <1>14, <1>15, <1>16, <1>17, <1>18, <1>19,
           <1>20, <1>21, <1>22, <1>23 DEF Next, BackgroundStep

(* A record is written back with the node that was picked.                  *)
LEMMA ManualHasNodeNext ==
  SwitchingAssumption /\ TypeOK /\ ManualHasNode /\ [Next]_vars => ManualHasNode'
<1> SUFFICES ASSUME SwitchingAssumption, TypeOK, ManualHasNode, [Next]_vars
             PROVE  ManualHasNode'
  OBVIOUS
<1> USE DEF TypeOK, ManualHasNode, store
<1>1. CASE BeginRound(Background)
  BY <1>1 DEF BeginRound
<1>2. CASE FinishRound(Background)
  BY <1>2 DEF FinishRound
<1>3. CASE CollectPatrol(Background)
  BY <1>3 DEF CollectPatrol
<1>4. CASE BeginPatrol(Background)
  BY <1>4 DEF BeginPatrol
<1>5. CASE ProbeActive(Background)
  BY <1>5 DEF ProbeActive
<1>6. CASE NextCandidate(Background)
  BY <1>6 DEF NextCandidate
<1>7. CASE ProbeCandidate(Background)
  BY <1>7 DEF ProbeCandidate
<1>8. CASE ActivateFailover(Background)
  BY <1>8 DEF ActivateFailover
<1>9. ASSUME NEW h \in Appliers, ProbeGroup(h)
      PROVE  ManualHasNode'
  BY <1>9 DEF ProbeGroup
<1>10. ASSUME NEW h \in Appliers, ReadGroup(h)
      PROVE  ManualHasNode'
  BY <1>10 DEF ReadGroup
<1>11. ASSUME NEW h \in Appliers, ApplySwitch(h)
      PROVE  ManualHasNode'
  BY <1>11 DEF ApplySwitch
<1>12. ASSUME NEW u \in Users, PickNode(u)
      PROVE  ManualHasNode'
  BY <1>12 DEF PickNode
<1>13. ASSUME NEW b \in Binders, Connect(b)
      PROVE  ManualHasNode'
  BY <1>13 DEF Connect
<1>14. ASSUME NEW b \in Binders, SelectExisting(b)
      PROVE  ManualHasNode'
  BY <1>14 DEF SelectExisting
<1>15. ASSUME NEW a \in Writers, Lock(a)
      PROVE  ManualHasNode'
  BY <1>15 DEF Lock
<1>16. ASSUME NEW a \in Writers, Mark(a)
      PROVE  ManualHasNode'
  BY <1>16 DEF Mark
<1>17. ASSUME NEW a \in Writers, Unlock(a)
      PROVE  ManualHasNode'
  BY <1>17 DEF Unlock
<1>18. ASSUME NEW a \in Actors, GetRecord(a)
      PROVE  ManualHasNode'
  BY <1>18 DEF GetRecord
<1>19. ASSUME NEW a \in Actors, PutRecord(a)
      PROVE  ManualHasNode'
  BY <1>19 DEF PutRecord, SwitchingAssumption
<1>20. CASE EditGroup
  BY <1>20 DEF EditGroup
<1>21. CASE Reload
  BY <1>21 DEF Reload
<1>22. CASE CoolDown
  BY <1>22 DEF CoolDown
<1>23. CASE UNCHANGED vars
  BY <1>23 DEF vars
<1> QED BY <1>1, <1>2, <1>3, <1>4, <1>5, <1>6, <1>7, <1>8, <1>9, <1>10,
           <1>11, <1>12, <1>13, <1>14, <1>15, <1>16, <1>17, <1>18, <1>19,
           <1>20, <1>21, <1>22, <1>23 DEF Next, BackgroundStep

(* Nobody else writes between the comparison and the write.                *)
LEMMA DecidedNext ==
  SwitchingAssumption /\ Binders = {} /\ TypeOK /\ PickInv /\ LockInv /\ DecidedInv /\ [Next]_vars => DecidedInv'
<1> SUFFICES ASSUME SwitchingAssumption, Binders = {}, TypeOK, PickInv, LockInv, DecidedInv, [Next]_vars
             PROVE  DecidedInv'
  OBVIOUS
<1> USE DEF TypeOK, DecidedInv, Automatic, IsRound, store, Goto, Finish, Actors, Writers
<1>1. CASE BeginRound(Background)
  BY <1>1, NoMemType DEF BeginRound
<1>2. CASE FinishRound(Background)
  BY <1>2 DEF FinishRound
<1>3. CASE CollectPatrol(Background)
  BY <1>3, NoMemType DEF CollectPatrol
<1>4. CASE BeginPatrol(Background)
  BY <1>4, NoMemType DEF BeginPatrol, Locals
<1>5. CASE ProbeActive(Background)
  BY <1>5 DEF ProbeActive
<1>6. CASE NextCandidate(Background)
  BY <1>6, ZenonT(60) DEF NextCandidate, Locals
<1>7. CASE ProbeCandidate(Background)
  BY <1>7 DEF ProbeCandidate
<1>8. CASE ActivateFailover(Background)
  BY <1>8 DEF ActivateFailover, PickInv, PatrolSteps
<1>9. ASSUME NEW h \in Appliers, ProbeGroup(h)
      PROVE  DecidedInv'
  BY <1>9 DEF ProbeGroup
<1>10. ASSUME NEW h \in Appliers, ReadGroup(h)
      PROVE  DecidedInv'
  BY <1>10 DEF ReadGroup
<1>11. ASSUME NEW h \in Appliers, ApplySwitch(h)
      PROVE  DecidedInv'
  <2>1. CASE Finish(h)
    BY <1>11, <2>1, NoMemType DEF ApplySwitch
  <2>2. CASE ~ Finish(h)
    <3>1. PICK n : mem' = [mem EXCEPT ![h].pick = n, ![h].cur = active] /\ pc' = [pc EXCEPT ![h] = "get"]
      BY <1>11, <2>2 DEF ApplySwitch
    <3>2. mem'[h].cur = active /\ \A a \in Actors \ {h} : mem'[a] = mem[a]
      BY <3>1 DEF Locals
    <3> QED BY <1>11, <3>1, <3>2 DEF ApplySwitch
  <2> QED BY <2>1, <2>2
<1>12. ASSUME NEW u \in Users, PickNode(u)
      PROVE  DecidedInv'
  BY <1>12 DEF PickNode
<1>13. ASSUME NEW b \in Binders, Connect(b)
      PROVE  DecidedInv'
  BY <1>13 DEF Connect
<1>14. ASSUME NEW b \in Binders, SelectExisting(b)
      PROVE  DecidedInv'
  BY <1>14 DEF SelectExisting
<1>15. ASSUME NEW a \in Writers, Lock(a)
      PROVE  DecidedInv'
  BY <1>15 DEF Lock, SwitchingAssumption
<1>16. ASSUME NEW a \in Writers, Mark(a)
      PROVE  DecidedInv'
  BY <1>16 DEF Mark
<1>17. ASSUME NEW a \in Writers, Unlock(a)
      PROVE  DecidedInv'
  BY <1>17 DEF Unlock
<1>18. ASSUME NEW a \in Actors, GetRecord(a)
      PROVE  DecidedInv'
  BY <1>18 DEF GetRecord, Locals
<1>19. ASSUME NEW a \in Actors, PutRecord(a)
      PROVE  DecidedInv'
  BY <1>19 DEF PutRecord, LockInv, Holds
<1>20. CASE EditGroup
  BY <1>20 DEF EditGroup
<1>21. CASE Reload
  BY <1>21 DEF Reload
<1>22. CASE CoolDown
  BY <1>22 DEF CoolDown
<1>23. CASE UNCHANGED vars
  BY <1>23 DEF vars
<1> QED BY <1>1, <1>2, <1>3, <1>4, <1>5, <1>6, <1>7, <1>8, <1>9, <1>10,
           <1>11, <1>12, <1>13, <1>14, <1>15, <1>16, <1>17, <1>18, <1>19,
           <1>20, <1>21, <1>22, <1>23 DEF Next, BackgroundStep

(* So a binding that is read under the lock is the one that is replaced.   *)
LEMMA BindNext ==
  SwitchingAssumption /\ Binders = {} /\ TypeOK /\ PickInv /\ LockInv /\ BindInv /\ [Next]_vars => BindInv'
<1> SUFFICES ASSUME SwitchingAssumption, Binders = {}, TypeOK, PickInv, LockInv, BindInv, [Next]_vars
             PROVE  BindInv'
  OBVIOUS
<1> USE DEF TypeOK, BindInv, store, Goto, Finish, Actors, Writers
<1>1. CASE BeginRound(Background)
  BY <1>1 DEF BeginRound
<1>2. CASE FinishRound(Background)
  BY <1>2 DEF FinishRound
<1>3. CASE CollectPatrol(Background)
  BY <1>3 DEF CollectPatrol
<1>4. CASE BeginPatrol(Background)
  BY <1>4 DEF BeginPatrol
<1>5. CASE ProbeActive(Background)
  BY <1>5 DEF ProbeActive
<1>6. CASE NextCandidate(Background)
  BY <1>6 DEF NextCandidate
<1>7. CASE ProbeCandidate(Background)
  BY <1>7 DEF ProbeCandidate
<1>8. CASE ActivateFailover(Background)
  BY <1>8 DEF ActivateFailover
<1>9. ASSUME NEW h \in Appliers, ProbeGroup(h)
      PROVE  BindInv'
  BY <1>9 DEF ProbeGroup
<1>10. ASSUME NEW h \in Appliers, ReadGroup(h)
      PROVE  BindInv'
  BY <1>10 DEF ReadGroup
<1>11. ASSUME NEW h \in Appliers, ApplySwitch(h)
      PROVE  BindInv'
  BY <1>11 DEF ApplySwitch
<1>12. ASSUME NEW u \in Users, PickNode(u)
      PROVE  BindInv'
  BY <1>12 DEF PickNode
<1>13. ASSUME NEW b \in Binders, Connect(b)
      PROVE  BindInv'
  BY <1>13 DEF Connect
<1>14. ASSUME NEW b \in Binders, SelectExisting(b)
      PROVE  BindInv'
  BY <1>14 DEF SelectExisting
<1>15. ASSUME NEW a \in Writers, Lock(a)
      PROVE  BindInv'
  BY <1>15 DEF Lock
<1>16. ASSUME NEW a \in Writers, Mark(a)
      PROVE  BindInv'
  BY <1>16 DEF Mark
<1>17. ASSUME NEW a \in Writers, Unlock(a)
      PROVE  BindInv'
  BY <1>17 DEF Unlock
<1>18. ASSUME NEW a \in Actors, GetRecord(a)
      PROVE  BindInv'
  BY <1>18 DEF GetRecord, Locals
<1>19. ASSUME NEW a \in Actors, PutRecord(a)
      PROVE  BindInv'
  BY <1>19 DEF PutRecord, LockInv, Holds
<1>20. CASE EditGroup
  BY <1>20 DEF EditGroup
<1>21. CASE Reload
  BY <1>21 DEF Reload
<1>22. CASE CoolDown
  BY <1>22 DEF CoolDown
<1>23. CASE UNCHANGED vars
  BY <1>23 DEF vars
<1> QED BY <1>1, <1>2, <1>3, <1>4, <1>5, <1>6, <1>7, <1>8, <1>9, <1>10,
           <1>11, <1>12, <1>13, <1>14, <1>15, <1>16, <1>17, <1>18, <1>19,
           <1>20, <1>21, <1>22, <1>23 DEF Next, BackgroundStep

(* A manual outbound has a node to compare with, and the comparison keeps  *)
(* it.                                                                     *)
LEMMA ManualInvNext ==
  SwitchingAssumption /\ Binders = {} /\ TypeOK /\ PickInv /\ LockInv /\ BindInv /\ ManualHasNode /\ ManualInv /\ [Next]_vars => ManualInv'
<1> SUFFICES ASSUME SwitchingAssumption, Binders = {}, TypeOK, PickInv, LockInv, BindInv, ManualHasNode, ManualInv, [Next]_vars
             PROVE  ManualInv'
  OBVIOUS
<1> USE DEF TypeOK, BindInv, ManualInv, IsRound, store, Goto, Finish, Actors, Writers
<1>1. CASE BeginRound(Background)
  BY <1>1, NoMemType DEF BeginRound, NoMem, Locals, ManualHasNode
<1>2. CASE FinishRound(Background)
  <2>1. bind.mode = "manual" =>
          \A res : SwitchTo(mem[Background].bind.mode, mem[Background].cur,
                            mem[Background].grp, res, hot) = {}
    BY <1>2, SwitchToType DEF FinishRound
  <2>2. bind.mode = "manual" => Finish(Background)
    BY <1>2, <2>1 DEF FinishRound
  <2> QED BY <1>2, <2>2, NoMemType DEF FinishRound, SwitchingAssumption
<1>3. CASE CollectPatrol(Background)
  BY <1>3, NoMemType DEF CollectPatrol
<1>4. CASE BeginPatrol(Background)
  BY <1>4, NoMemType DEF BeginPatrol, Locals
<1>5. CASE ProbeActive(Background)
  BY <1>5, NoMemType DEF ProbeActive, PickInv, PatrolSteps, SwitchingAssumption, Locals
<1>6. CASE NextCandidate(Background)
  <2>1. CASE Finish(Background)
    BY <1>6, <2>1, NoMemType DEF NextCandidate, SwitchingAssumption
  <2>2. CASE ~ Finish(Background)
    <3>1. mem[Background].patrol /\ \A a \in Actors \ {Background} : pc'[a] = pc[a]
      BY <1>6, <2>2 DEF NextCandidate, PickInv, PatrolSteps
    <3>2. PICK n \in mem[Background].todo :
            /\ mem' = [mem EXCEPT ![Background].pick = n, ![Background].todo = @ \ {n}]
            /\ Goto(Background, "candidate")
      BY <1>6, <2>2 DEF NextCandidate
    <3> DEFINE m == [mem[Background] EXCEPT !.pick = n, !.todo = @ \ {n}]
    <3>3. mem' = [mem EXCEPT ![Background] = m] /\ m.patrol = mem[Background].patrol
      BY <3>2 DEF Locals
    <3> HIDE DEF m
    <3>4. mem'[Background].patrol /\ pc'[Background] = "candidate"
      BY <3>1, <3>2, <3>3
    <3> QED BY <1>6, <3>1, <3>4 DEF NextCandidate, SwitchingAssumption
  <2> QED BY <2>1, <2>2
<1>7. CASE ProbeCandidate(Background)
  BY <1>7 DEF ProbeCandidate
<1>8. CASE ActivateFailover(Background)
  BY <1>8, NoMemType DEF ActivateFailover, PickInv, PatrolSteps, SwitchingAssumption
<1>9. ASSUME NEW h \in Appliers, ProbeGroup(h)
      PROVE  ManualInv'
  BY <1>9 DEF ProbeGroup, SwitchingAssumption
<1>10. ASSUME NEW h \in Appliers, ReadGroup(h)
      PROVE  ManualInv'
  BY <1>10 DEF ReadGroup, SwitchingAssumption
<1>11. ASSUME NEW h \in Appliers, ApplySwitch(h)
      PROVE  ManualInv'
  <2>1. bind.mode = "manual" => SwitchTo(bind.mode, active, mem[h].grp, saved, hot) = {}
    BY SwitchToType DEF ManualHasNode
  <2>2. bind.mode = "manual" => Finish(h)
    BY <1>11, <2>1 DEF ApplySwitch
  <2>3. bind' = bind
    BY <1>11 DEF ApplySwitch
  <2> QED BY <1>11, <2>2, <2>3, NoMemType DEF SwitchingAssumption
<1>12. ASSUME NEW u \in Users, PickNode(u)
      PROVE  ManualInv'
  BY <1>12 DEF PickNode, SwitchingAssumption
<1>13. ASSUME NEW b \in Binders, Connect(b)
      PROVE  ManualInv'
  BY <1>13 DEF Connect
<1>14. ASSUME NEW b \in Binders, SelectExisting(b)
      PROVE  ManualInv'
  BY <1>14 DEF SelectExisting
<1>15. ASSUME NEW a \in Writers, Lock(a)
      PROVE  ManualInv'
  BY <1>15 DEF Lock, SwitchingAssumption
<1>16. ASSUME NEW a \in Writers, Mark(a)
      PROVE  ManualInv'
  BY <1>16 DEF Mark
<1>17. ASSUME NEW a \in Writers, Unlock(a)
      PROVE  ManualInv'
  BY <1>17 DEF Unlock
<1>18. ASSUME NEW a \in Actors, GetRecord(a)
      PROVE  ManualInv'
  BY <1>18 DEF GetRecord, Locals
<1>19. ASSUME NEW a \in Actors, PutRecord(a)
      PROVE  ManualInv'
  BY <1>19 DEF PutRecord, LockInv, Holds
<1>20. CASE EditGroup
  BY <1>20 DEF EditGroup
<1>21. CASE Reload
  BY <1>21 DEF Reload
<1>22. CASE CoolDown
  BY <1>22 DEF CoolDown
<1>23. CASE UNCHANGED vars
  BY <1>23 DEF vars
<1> QED BY <1>1, <1>2, <1>3, <1>4, <1>5, <1>6, <1>7, <1>8, <1>9, <1>10,
           <1>11, <1>12, <1>13, <1>14, <1>15, <1>16, <1>17, <1>18, <1>19,
           <1>20, <1>21, <1>22, <1>23 DEF Next, BackgroundStep

(* Every step keeps what holds with any writers.                           *)
LEMMA IInvNext == SwitchingAssumption /\ IInv /\ [Next]_vars => IInv'
  BY TypeNext, PickNext, LockNext, ManualHasNodeNext DEF IInv

(* Every step keeps the rest when every writer takes the lock.             *)
LEMMA LockedInvNext ==
  SwitchingAssumption /\ Binders = {} /\ LockedInv /\ [Next]_vars => LockedInv'
  BY IInvNext, DecidedNext, BindNext, ManualInvNext DEF LockedInv, IInv

(* What the invariant says of a write is what the properties say of it.    *)
LEMMA WritesAsDecided == LockedInv => DecidedOnCurrent
  BY DEF LockedInv, DecidedInv, DecidedOnCurrent, PutRecord

(* A probe that writes did not read a manual record.                       *)
LEMMA WritesKeepManual == LockedInv => ProbesKeepManual
<1> SUFFICES ASSUME LockedInv, NEW a \in Automatic, PutRecord(a), ~ mem[a].patrol,
                    bind.mode = "manual"
             PROVE  FALSE
  BY DEF ProbesKeepManual
<1>1. a = Background \/ a \in Appliers
  BY DEF Automatic, Writers
<1> QED BY <1>1 DEF LockedInv, ManualInv, IsRound, PutRecord

-----------------------------------------------------------------------------
(* The goroutines are where their locals say they are, whatever the number *)
(* of nodes, handlers and modes.                                           *)
THEOREM TypeCorrect ==
  ASSUME SwitchingAssumption PROVE Spec => []TypeOK
<1>1. (Init => IInv) /\ (IInv /\ [Next]_vars => IInv')
  BY IInvInit, IInvNext DEF LockedInv
<1>2. IInv => TypeOK
  BY DEF IInv
<1> QED BY <1>1, <1>2, PTL DEF Spec

(* A manual binding names a node, with and without the lock: whoever       *)
(* writes a record back has picked a node before it read the record.       *)
THEOREM ManualBindingHasNode ==
  ASSUME SwitchingAssumption PROVE Spec => []ManualHasNode
<1>1. (Init => IInv) /\ (IInv /\ [Next]_vars => IInv')
  BY IInvInit, IInvNext DEF LockedInv
<1>2. IInv => ManualHasNode
  BY DEF IInv
<1> QED BY <1>1, <1>2, PTL DEF Spec

(* When every writer takes the lock, a decision is still about the active  *)
(* node when it is carried out, and no round or group probe carries one    *)
(* out on a manual outbound.                                               *)
THEOREM DecisionsHold ==
  ASSUME SwitchingAssumption, Binders = {}
  PROVE  Spec => [][DecidedOnCurrent /\ ProbesKeepManual]_vars
<1>1. (Init => LockedInv) /\ (LockedInv /\ [Next]_vars => LockedInv')
  BY IInvInit, LockedInvNext
<1> QED BY <1>1, WritesAsDecided, WritesKeepManual, PTL DEF Spec

(* And the binding stays as it is stored: the update that connectOutbound  *)
(* can lose is lost because it takes no lock, not by the switches.         *)
THEOREM LockKeepsBinding ==
  ASSUME SwitchingAssumption, Binders = {}
  PROVE  Spec => BindingKept
<1>1. (Init => LockedInv) /\ (LockedInv /\ [Next]_vars => LockedInv')
  BY IInvInit, LockedInvNext
<1>2. LockedInv => \A a \in Writers : PutRecord(a) => bind' = bind
  BY DEF LockedInv, BindInv, PutRecord
<1> QED BY <1>1, <1>2, PTL DEF Spec, BindingKept
=============================================================================
