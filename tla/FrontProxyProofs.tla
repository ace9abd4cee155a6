--------------------------- MODULE FrontProxyProofs ---------------------------
(***************************************************************************)
(* The detours of a configuration, for any finite number of outbounds:     *)
(* none dangles, none dials an outbound through itself, none is dropped    *)
(* without need.                                                           *)
(*                                                                         *)
(* The walk Looping is a recursive function.  The provers see it as some  *)
(* solution of its equation: Endless gives one (LoopingEquation), and since a  *)
(* walk can see only finitely many tags there is no other (LoopingMeaning, *)
(* by a counterexample that would leave a minimal set of tags unseen).     *)
(***************************************************************************)
EXTENDS FrontProxy, FiniteSetTheorems, WellFoundedInduction, TLAPS

(* The chain from tag t meets a tag of seen, or itself.                    *)
Endless(t, seen) ==
  \E C \in SUBSET Tags : t \in C /\ \A u \in C : u \in seen \/ FrontOf(u) \in C

(* What the store says of a front proxy is a tag, or nothing.              *)
LEMMA FrontOfType ==
  ASSUME TypeOK, NEW t
  PROVE  FrontOf(t) \in Tags \union {NoFront}
  BY DEF TypeOK, FrontOf, Bound

(* The walk may be told by the sets it stays in, one step at a time.       *)
LEMMA EndlessStep ==
  ASSUME TypeOK, NEW t \in Tags, NEW seen \in SUBSET Tags
  PROVE  Endless(t, seen) <=> t \in seen \/ Endless(FrontOf(t), seen \union {t})
<1>1. ASSUME Endless(t, seen), t \notin seen
      PROVE  Endless(FrontOf(t), seen \union {t})
  BY <1>1 DEF Endless
<1>2. ASSUME t \in seen PROVE Endless(t, seen)
  <2>1. {t} \in SUBSET Tags
    BY <1>2
  <2> QED BY <2>1, <1>2 DEF Endless
<1>3. ASSUME Endless(FrontOf(t), seen \union {t}) PROVE Endless(t, seen)
  <2>1. PICK C \in SUBSET Tags :
          FrontOf(t) \in C /\ \A u \in C : u \in seen \union {t} \/ FrontOf(u) \in C
    BY <1>3 DEF Endless
  <2>2. C \union {t} \in SUBSET Tags
    BY <2>1
  <2>3. \A u \in C \union {t} : u \in seen \/ FrontOf(u) \in C \union {t}
    BY <2>1
  <2> QED BY <2>2, <2>3 DEF Endless
<1> QED BY <1>1, <1>2, <1>3

(* So the equation of Looping has a solution, and Looping satisfies it.    *)
LEMMA LoopingEquation ==
  ASSUME TypeOK, NEW seen \in SUBSET Tags
  PROVE  Looping[seen] =
           {t \in Tags : t \in seen \/ FrontOf(t) \in Looping[seen \union {t}]}
<1> DEFINE Eq(L) ==
      L = [v \in SUBSET Tags |-> {s \in Tags : s \in v \/ FrontOf(s) \in L[v \union {s}]}]
<1> DEFINE E == [v \in SUBSET Tags |-> {s \in Tags : Endless(s, v)}]
<1>1. ASSUME NEW v \in SUBSET Tags
      PROVE  E[v] = {s \in Tags : s \in v \/ FrontOf(s) \in E[v \union {s}]}
  <2>1. ASSUME NEW s \in Tags
        PROVE  Endless(s, v) <=> s \in v \/ FrontOf(s) \in E[v \union {s}]
    <3>1. E[v \union {s}] = {u \in Tags : Endless(u, v \union {s})}
      OBVIOUS
    <3>2. Endless(FrontOf(s), v \union {s}) => FrontOf(s) \in Tags
      BY DEF Endless
    <3> QED BY <3>1, <3>2, EndlessStep
  <2>2. E[v] = {s \in Tags : Endless(s, v)}
    OBVIOUS
  <2> HIDE DEF E
  <2> QED BY <2>1, <2>2
<1>2. Eq(E)
  BY <1>1
<1>3. Looping = CHOOSE L : Eq(L)
  BY DEF Looping
<1>4. Eq(Looping)
  <2> HIDE DEF E, Eq
  <2> QED BY <1>2, <1>3, Zenon
<1> QED BY <1>4, Zenon

(* The walk decides about tags.                                            *)
LEMMA LoopingTags ==
  ASSUME TypeOK, NEW seen \in SUBSET Tags
  PROVE  Looping[seen] \subseteq Tags
  BY LoopingEquation

(* One step of the walk of the code.                                       *)
LEMMA LoopingStep ==
  ASSUME TypeOK, NEW t \in Tags, NEW seen \in SUBSET Tags
  PROVE  t \in Looping[seen] <=> t \in seen \/ FrontOf(t) \in Looping[seen \union {t}]
  BY LoopingEquation

(* What the walk decides, for every store: whether the chain behind a tag  *)
(* meets a tag of seen, or itself.                                         *)
LEMMA LoopingMeaning ==
  ASSUME TypeOK, NEW t \in Tags, NEW seen \in SUBSET Tags
  PROVE  t \in Looping[seen] <=> Endless(t, seen)
<1> DEFINE Wrong(U) == \E s \in Tags : ~ (s \in Looping[Tags \ U] <=> Endless(s, Tags \ U))
<1> DEFINE Ws == {U \in SUBSET Tags : Wrong(U)}
<1>1. IsWellFoundedOn(StrictSubsetOrdering(Tags), SUBSET Tags)
  <2>1. IsFiniteSet(Tags)
    BY FrontAssumption, FS_AddElement DEF Tags
  <2> QED BY <2>1, FS_StrictSubsetOrderingWellFounded, FS_FiniteSubsetsOfFinite
<1>2. Ws = {}
  <2> SUFFICES ASSUME Ws # {} PROVE FALSE
    OBVIOUS
  <2>1. PICK U \in Ws : \A V \in Ws : <<V, U>> \notin StrictSubsetOrdering(Tags)
    <3>1. Ws \subseteq SUBSET Tags
      OBVIOUS
    <3> HIDE DEF Ws
    <3> QED BY <1>1, <3>1, WFMin
  <2>2. PICK s \in Tags : ~ (s \in Looping[Tags \ U] <=> Endless(s, Tags \ U))
    OBVIOUS
  <2> DEFINE v == Tags \ U
  <2> DEFINE V == U \ {s}
  <2>3. v \in SUBSET Tags /\ U \in SUBSET Tags /\ V \in SUBSET Tags
    OBVIOUS
  <2>4. s \notin v
    BY <2>2, <2>3, LoopingStep, EndlessStep
  <2>5. v \union {s} = Tags \ V /\ <<V, U>> \in StrictSubsetOrdering(Tags)
    BY <2>3, <2>4 DEF StrictSubsetOrdering
  <2>6. ~ Wrong(V)
    BY <2>1, <2>3, <2>5
  <2>7. FrontOf(s) \in Tags => (FrontOf(s) \in Looping[v \union {s}] <=> Endless(FrontOf(s), v \union {s}))
    BY <2>5, <2>6
  <2>8. Endless(FrontOf(s), v \union {s}) => FrontOf(s) \in Tags
    BY DEF Endless
  <2>9. FrontOf(s) \in Looping[v \union {s}] => FrontOf(s) \in Tags
    <3>1. v \union {s} \in SUBSET Tags
      OBVIOUS
    <3> QED BY <3>1, LoopingTags
  <2> QED BY <2>2, <2>3, <2>4, <2>7, <2>8, <2>9, LoopingStep, EndlessStep
<1>3. ~ Wrong(Tags \ seen)
  BY <1>2
<1>4. seen = Tags \ (Tags \ seen)
  OBVIOUS
<1> QED BY <1>3, <1>4

-----------------------------------------------------------------------------
BoundNames == {n \in Names : Bound(n)}

(* As long as nobody edits the store, the tags that were collected are     *)
(* those of the bound outbounds, and these are written one after the other.*)
Collected ==
  /\ todo # {} => valid # {}
  /\ ~ edited /\ valid # {} =>
       /\ valid = BoundNames \union {Direct}
       /\ emitted = BoundNames \ todo

DetoursValid == \A n \in emitted : detour[n] \in valid \union {NoFront}

(* The detours are then those of the store as it still is, told without    *)
(* the walk: the front proxy unless it is not valid or its chain comes back.*)
Dropped(n) == FrontOf(n) \notin valid \ {n} \/ Endless(FrontOf(n), {n})
DetoursCurrent ==
  /\ \A n \in Names \ emitted : detour[n] = NoFront
  /\ ~ edited => \A n \in emitted : detour[n] = IF Dropped(n) THEN NoFront ELSE FrontOf(n)

IInv == TypeOK /\ Collected /\ DetoursValid /\ DetoursCurrent

(* resolveFrontProxyTag answers with a valid tag or with none.             *)
LEMMA ResolveValid ==
  ASSUME NEW n, NEW tags
  PROVE  Resolve(n, tags) \in tags \union {NoFront}
  BY DEF Resolve

(* It drops a front proxy only if the tag is not valid or its chain comes  *)
(* back.                                                                   *)
LEMMA ResolveMeaning ==
  ASSUME TypeOK, NEW n \in Names
  PROVE  Resolve(n, valid) = IF Dropped(n) THEN NoFront ELSE FrontOf(n)
<1>1. CASE FrontOf(n) \notin valid \ {n}
  BY <1>1 DEF Resolve, Dropped
<1>2. CASE FrontOf(n) \in valid \ {n}
  <2>1. FrontOf(n) \in Tags /\ {n} \in SUBSET Tags
    BY <1>2 DEF TypeOK, Tags
  <2>2. FrontOf(n) \in Looping[{n}] <=> Endless(FrontOf(n), {n})
    BY <2>1, LoopingMeaning
  <2> QED BY <1>2, <2>2 DEF Resolve, Dropped
<1> QED BY <1>1, <1>2

(* A build begins with no detour.                                          *)
LEMMA IInvInit == Init => IInv
  BY DEF Init, IInv, TypeOK, Collected, DetoursValid, DetoursCurrent, NoDetour

(* Every step of a build keeps the invariant.                              *)
LEMMA IInvNext == IInv /\ [Next]_vars => IInv'
<1> SUFFICES ASSUME IInv, [Next]_vars PROVE IInv'
  OBVIOUS
<1> USE DEF IInv
<1>1. CASE Collect
  <2>1. TypeOK'
    BY <1>1 DEF TypeOK, Collect, store, NoDetour, Tags, Bound
  <2>2. Collected'
    BY <1>1 DEF Collected, Collect, store, BoundNames, Bound
  <2>3. DetoursValid' /\ DetoursCurrent'
    BY <1>1 DEF DetoursValid, DetoursCurrent, Collect, NoDetour
  <2> QED BY <2>1, <2>2, <2>3
<1>2. ASSUME NEW n \in Names, Emit(n) PROVE IInv'
  <2>1. Resolve(n, valid) \in valid \union {NoFront}
    BY ResolveValid
  <2>2. TypeOK'
    BY <1>2, <2>1 DEF TypeOK, Emit, store, Tags
  <2>3. BoundNames' = BoundNames /\ (n \in BoundNames <=> Bound(n))
    BY <1>2 DEF Emit, store, BoundNames, Bound
  <2>4. Collected'
    <3>1. valid # {} /\ valid' # {}
      BY <1>2 DEF Emit, Collected
    <3>2. CASE Bound(n)
      BY <1>2, <2>3, <3>1, <3>2 DEF TypeOK, Collected, Emit
    <3>3. CASE ~ Bound(n)
      BY <1>2, <2>3, <3>1, <3>3 DEF TypeOK, Collected, Emit
    <3> QED BY <3>2, <3>3
  <2>5. DetoursValid'
    BY <1>2, <2>1 DEF DetoursValid, TypeOK, Emit
  <2>6. DetoursCurrent'
    <3>1. ~ edited => valid' = valid
      BY <1>2, <2>3 DEF Collected, Emit
    <3>2. \A m : FrontOf(m)' = FrontOf(m)
      BY <1>2 DEF Emit, store, FrontOf, Bound
    <3>3. \A m : ~ edited => (Dropped(m)' <=> Dropped(m))
      BY <3>1, <3>2 DEF Dropped, Endless, Tags
    <3>5. CASE Bound(n)
      <4>1. detour' = [detour EXCEPT ![n] = Resolve(n, valid)] /\ emitted' = emitted \union {n}
        BY <1>2, <3>5 DEF Emit
      <4>2. Resolve(n, valid) = IF Dropped(n) THEN NoFront ELSE FrontOf(n)
        BY ResolveMeaning
      <4> HIDE DEF IInv
      <4>3. DetoursCurrent /\ detour \in [Names -> Tags \union {NoFront}] /\ (edited' <=> edited)
        BY <1>2 DEF IInv, TypeOK, Emit
      <4> QED BY <3>2, <3>3, <4>1, <4>2, <4>3 DEF DetoursCurrent
    <3>6. CASE ~ Bound(n)
      BY <1>2, <3>2, <3>3, <3>6 DEF DetoursCurrent, Emit
    <3> QED BY <3>5, <3>6
  <2> QED BY <2>2, <2>4, <2>5, <2>6
<1>3. CASE EditFront
  BY <1>3 DEF EditFront, build, TypeOK, Collected, DetoursValid, DetoursCurrent
<1>4. CASE Rebind
  BY <1>4 DEF Rebind, build, TypeOK, Collected, DetoursValid, DetoursCurrent
<1>5. CASE UNCHANGED vars
  <2>1. \A m : FrontOf(m)' = FrontOf(m)
    BY <1>5 DEF vars, store, FrontOf, Bound
  <2>2. \A m : Dropped(m)' <=> Dropped(m)
    BY <1>5, <2>1 DEF vars, build, Dropped, Endless, Tags
  <2>3. DetoursCurrent'
    BY <1>5, <2>1, <2>2 DEF vars, build, DetoursCurrent
  <2> QED
    BY <1>5, <2>3 DEF vars, store, build, TypeOK, Collected, DetoursValid, BoundNames, Bound
<1> QED BY <1>1, <1>2, <1>3, <1>4, <1>5 DEF Next

(* The invariant holds throughout.                                         *)
LEMMA Invariance == Spec => []IInv
  BY IInvInit, IInvNext, PTL DEF Spec

(* Every detour names an outbound of the same configuration, or a built-in *)
(* one, when the store was not edited while the configuration was built:   *)
(* collecting the valid tags before the first outbound is written suffices,*)
(* in whatever order the outbounds come.                                   *)
THEOREM NoDanglingDetour == Spec => []DetoursEmitted
<1>1. IInv => DetoursEmitted
  BY DEF IInv, TypeOK, Collected, DetoursValid, DetoursEmitted, Clean
<1> QED BY <1>1, Invariance, PTL

(* No outbound of such a configuration is dialled through itself: each     *)
(* detour is decided by its own walk, and a set of outbounds that all dial *)
(* through one another would have ended the walk of each of them.          *)
THEOREM NoDetourCycle == Spec => []AcyclicDetours
<1>1. ASSUME IInv, Clean, NEW C \in (SUBSET Names) \ {{}}
      PROVE  \E n \in C : detour[n] \notin C
  <2> SUFFICES ASSUME \A n \in C : detour[n] \in C PROVE FALSE
    OBVIOUS
  <2>1. \A n \in C : n \in emitted /\ ~ Dropped(n) /\ detour[n] = FrontOf(n)
    BY <1>1, FrontAssumption DEF IInv, DetoursCurrent, Clean
  <2>2. C \in SUBSET Tags
    BY DEF Tags
  <2>3. PICK n \in C : TRUE
    OBVIOUS
  <2>4. Endless(FrontOf(n), {n})
    BY <2>1, <2>2, <2>3 DEF Endless
  <2> QED BY <2>1, <2>4 DEF Dropped
<1>2. IInv => AcyclicDetours
  BY <1>1 DEF AcyclicDetours
<1> QED BY <1>2, Invariance, PTL

(* And no front proxy is ignored without need: the one that is missing is  *)
(* not in the configuration, or its chain never ends.                      *)
THEOREM FrontKeptUnlessCycle == Spec => []FrontDroppedOnlyOnCycle
<1>1. ASSUME IInv, Clean, NEW n \in emitted, detour[n] = NoFront,
             FrontOf(n) \in emitted \union {Direct}, FrontOf(n) # NoFront
      PROVE  EndlessChain(n)
  <2>1. valid = emitted \union {Direct} /\ n \in Names
    BY <1>1 DEF IInv, TypeOK, Collected, Clean
  <2>2. Dropped(n)
    BY <1>1 DEF IInv, DetoursCurrent, Clean
  <2>3. CASE FrontOf(n) = n
    <3>1. {n} \in SUBSET Names
      BY <2>1
    <3> QED BY <2>3, <3>1 DEF EndlessChain
  <2>4. CASE FrontOf(n) # n
    <3>1. PICK C \in SUBSET Tags :
            FrontOf(n) \in C /\ \A u \in C : u \in {n} \/ FrontOf(u) \in C
      BY <1>1, <2>1, <2>2, <2>4 DEF Dropped, Endless
    <3>2. FrontOf(Direct) \notin C
      BY FrontAssumption DEF FrontOf, Bound, Tags
    <3>3. C \union {n} \in SUBSET Names
      BY <2>1, <3>1, <3>2, FrontAssumption DEF Tags
    <3>4. \A m \in C \union {n} : FrontOf(m) \in C \union {n}
      BY <3>1
    <3> QED BY <3>3, <3>4 DEF EndlessChain
  <2> QED BY <2>3, <2>4
<1>2. IInv => FrontDroppedOnlyOnCycle
  BY <1>1 DEF FrontDroppedOnlyOnCycle
<1> QED BY <1>2, Invariance, PTL

(* Every reachable state of a build is well typed, and what is written is  *)
(* among the valid tags, edits or not.                                     *)
THEOREM TypeCorrect == Spec => []TypeOK
<1>1. IInv => TypeOK
  BY DEF IInv
<1> QED BY <1>1, Invariance, PTL
=============================================================================
