------------------------ MODULE ObservatoryTasksProofs ------------------------
(***************************************************************************)
(* Proofs about ObservatoryTasks, for any number of outbounds, callers and *)
(* tasks.  TypeOK aside, what the calls owe, what the map of tasks holds   *)
(* and who has the permit are three invariants.                            *)
(***************************************************************************)
EXTENDS ObservatoryTasks, FiniteSetTheorems, TLAPS

(* The owner a caller deals with next is one it has still to deal with.    *)
LEMMA NextOwnerTodo ==
  ASSUME NEW c, todo[c] # {}
  PROVE  NextOwner(c) \in todo[c]
<1>1. CASE todo[c] = {Patrol}
  BY <1>1 DEF NextOwner
<1>2. CASE todo[c] # {Patrol}
  <2>1. \E n : n \in todo[c] \ {Patrol}
    BY <1>2
  <2>2. (CHOOSE n \in todo[c] \ {Patrol} : TRUE) \in todo[c] \ {Patrol}
    BY <2>1
  <2> QED BY <1>2, <2>2 DEF NextOwner
<1> QED BY <1>1, <1>2

-----------------------------------------------------------------------------
(* A caller that is about to start a task knows for whom.                  *)
CallInv == \A c \in Callers : pc[c] = "start" => todo[c] # {}

(* The permit is free and nobody probes, or one goroutine has it.          *)
Probing(t) == first[t] = "probe" \/ tick[t] = "probe"
PermitInv ==
  /\ permits = 1 => \A t \in Tasks : ~ Probing(t)
  /\ permits = 0 => \E t \in Tasks :
       /\ first[t] = "probe" <=> tick[t] # "probe"
       /\ \A u \in Tasks \ {t} : ~ Probing(u)

(* A task has one owner, its stopCh is open and its ticker alive.          *)
MapInv ==
  \A o \in Owners : task[o] # NoTask =>
    /\ task[o] \notin closed
    /\ tick[task[o]] # "off"
    /\ \A p \in Owners : task[p] = task[o] => p = o

(* Who is wanted has a task, or a caller that will still look at it.       *)
Owes(c, o) == pc[c] = "stop" \/ (pc[c] # "idle" /\ o \in todo[c])
DebtInv == \A o \in wanted : task[o] # NoTask \/ \E c \in Callers : Owes(c, o)

IInv == TypeOK /\ CallInv /\ PermitInv /\ MapInv /\ DebtInv

-----------------------------------------------------------------------------
(* No task and one permit at first, and the call of Start alone.           *)
LEMMA IInvInit == Init => IInv
<1> SUFFICES ASSUME Init PROVE IInv
  OBVIOUS
<1>1. TypeOK /\ CallInv /\ PermitInv /\ MapInv
  BY DEF Init, TypeOK, CallInv, PermitInv, Probing, MapInv
<1>2. DebtInv
  BY DEF Init, DebtInv, Owes
<1> QED BY <1>1, <1>2 DEF IInv

(* Types, and the caller that knows for whom; a probe that ends had the    *)
(* permit, so that permits stays in its range.                             *)
LEMMA TypeNext ==
  TypeOK /\ CallInv /\ PermitInv /\ [Next]_vars => TypeOK' /\ CallInv'
<1> SUFFICES ASSUME TypeOK, CallInv, PermitInv, [Next]_vars
             PROVE  TypeOK' /\ CallInv'
  OBVIOUS
<1> USE DEF TypeOK, CallInv, goVars, callVars
<1>1. ASSUME NEW c \in Callers, ChangeSetting(c)
      PROVE  TypeOK' /\ CallInv'
  BY <1>1 DEF ChangeSetting, Owners
<1>2. ASSUME NEW c \in Callers, NEW n \in Names, ChangeOutbound(c, n)
      PROVE  TypeOK' /\ CallInv'
  BY <1>2 DEF ChangeOutbound, Owners
<1>3. ASSUME NEW c \in Callers, StopAll(c)
      PROVE  TypeOK' /\ CallInv'
  BY <1>3 DEF StopAll, Mapped
<1>4. ASSUME NEW c \in Callers, CloseOne(c)
      PROVE  TypeOK' /\ CallInv'
  BY <1>4 DEF CloseOne
<1>5. ASSUME NEW c \in Callers, ReadOwner(c)
      PROVE  TypeOK' /\ CallInv'
  BY <1>5 DEF ReadOwner
<1>6. ASSUME NEW c \in Callers, StartTask(c)
      PROVE  TypeOK' /\ CallInv'
  BY <1>6, NextOwnerTodo DEF StartTask, Free
<1>7. ASSUME NEW c \in Callers, Return(c)
      PROVE  TypeOK' /\ CallInv'
  BY <1>7 DEF Return
<1>8. ASSUME NEW t \in Tasks, FirstProbe(t)
      PROVE  TypeOK' /\ CallInv'
  BY <1>8 DEF FirstProbe
<1>9. ASSUME NEW t \in Tasks, FirstStopped(t)
      PROVE  TypeOK' /\ CallInv'
  BY <1>9 DEF FirstStopped
<1>10. ASSUME NEW t \in Tasks, FirstDone(t)
      PROVE  TypeOK' /\ CallInv'
  BY <1>10 DEF FirstDone, PermitInv, Probing
<1>11. ASSUME NEW t \in Tasks, TickProbe(t)
      PROVE  TypeOK' /\ CallInv'
  BY <1>11 DEF TickProbe
<1>12. ASSUME NEW t \in Tasks, TickStopped(t)
      PROVE  TypeOK' /\ CallInv'
  BY <1>12 DEF TickStopped
<1>13. ASSUME NEW t \in Tasks, TickDone(t)
      PROVE  TypeOK' /\ CallInv'
  BY <1>13 DEF TickDone, PermitInv, Probing
<1>14. CASE UNCHANGED vars
  BY <1>14 DEF vars
<1> QED BY <1>1, <1>2, <1>3, <1>4, <1>5, <1>6, <1>7, <1>8, <1>9, <1>10,
           <1>11, <1>12, <1>13, <1>14 DEF Next, CallStep

(* The permit is taken by who finds it free and given back by who has it.  *)
LEMMA PermitNext ==
  TypeOK /\ PermitInv /\ [Next]_vars => PermitInv'
<1> SUFFICES ASSUME TypeOK, PermitInv, [Next]_vars
             PROVE  PermitInv'
  OBVIOUS
<1> USE DEF TypeOK, PermitInv, Probing, goVars, callVars
<1>1. ASSUME NEW c \in Callers, ChangeSetting(c)
      PROVE  PermitInv'
  BY <1>1 DEF ChangeSetting
<1>2. ASSUME NEW c \in Callers, NEW n \in Names, ChangeOutbound(c, n)
      PROVE  PermitInv'
  BY <1>2 DEF ChangeOutbound
<1>3. ASSUME NEW c \in Callers, StopAll(c)
      PROVE  PermitInv'
  BY <1>3 DEF StopAll
<1>4. ASSUME NEW c \in Callers, CloseOne(c)
      PROVE  PermitInv'
  BY <1>4 DEF CloseOne
<1>5. ASSUME NEW c \in Callers, ReadOwner(c)
      PROVE  PermitInv'
  BY <1>5 DEF ReadOwner
<1>6. ASSUME NEW c \in Callers, StartTask(c)
      PROVE  PermitInv'
  BY <1>6 DEF StartTask, Free
<1>7. ASSUME NEW c \in Callers, Return(c)
      PROVE  PermitInv'
  BY <1>7 DEF Return
<1>8. ASSUME NEW t \in Tasks, FirstProbe(t)
      PROVE  PermitInv'
  BY <1>8 DEF FirstProbe
<1>9. ASSUME NEW t \in Tasks, FirstStopped(t)
      PROVE  PermitInv'
  BY <1>9 DEF FirstStopped
<1>10. ASSUME NEW t \in Tasks, FirstDone(t)
      PROVE  PermitInv'
  BY <1>10 DEF FirstDone
<1>11. ASSUME NEW t \in Tasks, TickProbe(t)
      PROVE  PermitInv'
  BY <1>11 DEF TickProbe
<1>12. ASSUME NEW t \in Tasks, TickStopped(t)
      PROVE  PermitInv'
  BY <1>12 DEF TickStopped
<1>13. ASSUME NEW t \in Tasks, TickDone(t)
      PROVE  PermitInv'
  BY <1>13 DEF TickDone
<1>14. CASE UNCHANGED vars
  BY <1>14 DEF vars
<1> QED BY <1>1, <1>2, <1>3, <1>4, <1>5, <1>6, <1>7, <1>8, <1>9, <1>10,
           <1>11, <1>12, <1>13, <1>14 DEF Next, CallStep

(* A task enters the map with a fresh stopCh; one that is closed leaves it *)
(* in the same critical section; only a closed one loses its ticker.       *)
LEMMA MapNext ==
  TypeOK /\ CallInv /\ MapInv /\ [Next]_vars => MapInv'
<1> SUFFICES ASSUME TypeOK, CallInv, MapInv, [Next]_vars
             PROVE  MapInv'
  OBVIOUS
<1> USE TasksAssumption DEF TypeOK, CallInv, MapInv, goVars, callVars
<1>1. ASSUME NEW c \in Callers, ChangeSetting(c)
      PROVE  MapInv'
  BY <1>1 DEF ChangeSetting
<1>2. ASSUME NEW c \in Callers, NEW n \in Names, ChangeOutbound(c, n)
      PROVE  MapInv'
  BY <1>2 DEF ChangeOutbound
<1>3. ASSUME NEW c \in Callers, StopAll(c)
      PROVE  MapInv'
  BY <1>3 DEF StopAll, Mapped
<1>4. ASSUME NEW c \in Callers, CloseOne(c)
      PROVE  MapInv'
  BY <1>4 DEF CloseOne
<1>5. ASSUME NEW c \in Callers, ReadOwner(c)
      PROVE  MapInv'
  BY <1>5 DEF ReadOwner
<1>6. ASSUME NEW c \in Callers, StartTask(c)
      PROVE  MapInv'
  BY <1>6, NextOwnerTodo DEF StartTask, Free, Mapped
<1>7. ASSUME NEW c \in Callers, Return(c)
      PROVE  MapInv'
  BY <1>7 DEF Return
<1>8. ASSUME NEW t \in Tasks, FirstProbe(t)
      PROVE  MapInv'
  BY <1>8 DEF FirstProbe
<1>9. ASSUME NEW t \in Tasks, FirstStopped(t)
      PROVE  MapInv'
  BY <1>9 DEF FirstStopped
<1>10. ASSUME NEW t \in Tasks, FirstDone(t)
      PROVE  MapInv'
  BY <1>10 DEF FirstDone
<1>11. ASSUME NEW t \in Tasks, TickProbe(t)
      PROVE  MapInv'
  BY <1>11 DEF TickProbe
<1>12. ASSUME NEW t \in Tasks, TickStopped(t)
      PROVE  MapInv'
  BY <1>12 DEF TickStopped
<1>13. ASSUME NEW t \in Tasks, TickDone(t)
      PROVE  MapInv'
  BY <1>13 DEF TickDone
<1>14. CASE UNCHANGED vars
  BY <1>14 DEF vars
<1> QED BY <1>1, <1>2, <1>3, <1>4, <1>5, <1>6, <1>7, <1>8, <1>9, <1>10,
           <1>11, <1>12, <1>13, <1>14 DEF Next, CallStep

(* A caller takes an owner off its list only when it has given it a task   *)
(* or found that it is not wanted; who changes that calls in turn.         *)
LEMMA DebtNext ==
  TypeOK /\ CallInv /\ DebtInv /\ [Next]_vars => DebtInv'
<1> SUFFICES ASSUME TypeOK, CallInv, DebtInv, [Next]_vars
             PROVE  DebtInv'
  OBVIOUS
<1> USE TasksAssumption DEF TypeOK, CallInv, DebtInv, Owes, goVars, callVars
<1>1. ASSUME NEW c \in Callers, ChangeSetting(c)
      PROVE  DebtInv'
  BY <1>1 DEF ChangeSetting
<1>2. ASSUME NEW c \in Callers, NEW n \in Names, ChangeOutbound(c, n)
      PROVE  DebtInv'
  BY <1>2 DEF ChangeOutbound
<1>3. ASSUME NEW c \in Callers, StopAll(c)
      PROVE  DebtInv'
  BY <1>3 DEF StopAll
<1>4. ASSUME NEW c \in Callers, CloseOne(c)
      PROVE  DebtInv'
  BY <1>4 DEF CloseOne
<1>5. ASSUME NEW c \in Callers, ReadOwner(c)
      PROVE  DebtInv'
  BY <1>5, NextOwnerTodo DEF ReadOwner
<1>6. ASSUME NEW c \in Callers, StartTask(c)
      PROVE  DebtInv'
  BY <1>6, NextOwnerTodo DEF StartTask, Free
<1>7. ASSUME NEW c \in Callers, Return(c)
      PROVE  DebtInv'
  BY <1>7 DEF Return
<1>8. ASSUME NEW t \in Tasks, FirstProbe(t)
      PROVE  DebtInv'
  BY <1>8 DEF FirstProbe
<1>9. ASSUME NEW t \in Tasks, FirstStopped(t)
      PROVE  DebtInv'
  BY <1>9 DEF FirstStopped
<1>10. ASSUME NEW t \in Tasks, FirstDone(t)
      PROVE  DebtInv'
  BY <1>10 DEF FirstDone
<1>11. ASSUME NEW t \in Tasks, TickProbe(t)
      PROVE  DebtInv'
  BY <1>11 DEF TickProbe
<1>12. ASSUME NEW t \in Tasks, TickStopped(t)
      PROVE  DebtInv'
  BY <1>12 DEF TickStopped
<1>13. ASSUME NEW t \in Tasks, TickDone(t)
      PROVE  DebtInv'
  BY <1>13 DEF TickDone
<1>14. CASE UNCHANGED vars
  BY <1>14 DEF vars
<1> QED BY <1>1, <1>2, <1>3, <1>4, <1>5, <1>6, <1>7, <1>8, <1>9, <1>10,
           <1>11, <1>12, <1>13, <1>14 DEF Next, CallStep

(* The four together are inductive, and none of them without the others:   *)
(* a probe that ends gives the permit back only because it had it, and a   *)
(* ticker ends only because its stopCh was closed.                         *)
LEMMA Invariance == Spec => []IInv
<1>1. IInv /\ [Next]_vars => IInv'
  BY TypeNext, PermitNext, MapNext, DebtNext DEF IInv
<1> QED BY IInvInit, <1>1, PTL DEF Spec

-----------------------------------------------------------------------------
(* TypeOK: every call, task, goroutine and permit stays in its range, for  *)
(* any number of handlers that call Reload and OnOutboundUpdated.          *)
THEOREM TypeCorrect == Spec => []TypeOK
<1>1. IInv => TypeOK
  BY DEF IInv
<1> QED BY <1>1, Invariance, PTL

(* NoDoubleClose: no stopCh is closed twice, however Stop, Start and       *)
(* OnOutboundUpdated interleave: a task that is closed is found no more.   *)
THEOREM NeverClosedTwice == Spec => []NoDoubleClose
<1>1. IInv => NoDoubleClose
  BY TasksAssumption DEF IInv, TypeOK, MapInv, NoDoubleClose, Mapped
<1> QED BY <1>1, Invariance, PTL

(* OneBackgroundProbe: the permit is neither lost nor doubled, however     *)
(* many tasks exist, those that were overwritten or stopped included.      *)
THEOREM PermitKept == Spec => []OneBackgroundProbe
<1>1. IInv => OneBackgroundProbe
  <2> DEFINE F == {t \in Tasks : first[t] = "probe"}
             K == {t \in Tasks : tick[t] = "probe"}
  <2> SUFFICES ASSUME IInv PROVE permits + Cardinality(F) + Cardinality(K) = 1
    BY DEF OneBackgroundProbe
  <2> USE DEF IInv, TypeOK, PermitInv, Probing
  <2>1. CASE permits = 1
    <3>1. F = {} /\ K = {}
      BY <2>1
    <3>2. Cardinality(F) = 0 /\ Cardinality(K) = 0
      BY <3>1, FS_EmptySet
    <3> QED BY <2>1, <3>2
  <2>2. CASE permits = 0
    <3>1. PICK t \in Tasks :
            /\ first[t] = "probe" <=> tick[t] # "probe"
            /\ \A u \in Tasks \ {t} : ~ Probing(u)
      BY <2>2
    <3>2. (F = {t} /\ K = {}) \/ (F = {} /\ K = {t})
      BY <3>1
    <3>3. \/ Cardinality(F) = 1 /\ Cardinality(K) = 0
          \/ Cardinality(F) = 0 /\ Cardinality(K) = 1
      BY <3>2, FS_EmptySet, FS_Singleton
    <3> QED BY <2>2, <3>3
  <2> QED BY <2>1, <2>2
<1> QED BY <1>1, Invariance, PTL

(* WantedRuns: once all calls have returned, every outbound that is bound  *)
(* to a group has a task whose ticker is alive, and so has the patrol.     *)
THEOREM WantedAlwaysRuns == Spec => []WantedRuns
<1>1. IInv => WantedRuns
  BY DEF IInv, TypeOK, MapInv, DebtInv, Owes, WantedRuns
<1> QED BY <1>1, Invariance, PTL
=============================================================================
