------------------------------ MODULE FrontProxy ------------------------------
(***************************************************************************)
(* The detours of the kernel's configuration.  A node may name a front     *)
(* proxy: another outbound, through which the kernel dials it.  When the   *)
(* configuration is built, resolveFrontProxyTag of core/engine/engine.go   *)
(* decides for each outbound whether the front proxy of its node becomes   *)
(* its detour; both builders, for sing-box and xray, do the same loop.     *)
(*                                                                         *)
(* The store is read anew for each outbound, and handlers may edit it      *)
(* meanwhile.  A name without a node stands for an outbound that is not    *)
(* bound and for one that does not exist: the code treats them alike.      *)
(* Direct stands for the two built-in tags, direct and block.              *)
(***************************************************************************)
EXTENDS FiniteSets

CONSTANTS Names, Nodes, NoNode, Direct, NoFront

ASSUME FrontAssumption ==
  /\ IsFiniteSet(Names)
  /\ NoNode \notin Nodes
  /\ Direct \notin Names /\ NoFront \notin Names \union {Direct}

Tags == Names \union {Direct}

VARIABLES
  node,     \* the node each outbound resolves to (resolveOutboundServerRaw)
  front,    \* FrontProxy of each node
  valid,    \* validOutboundTags
  todo,     \* the outbounds the builder has still to write
  emitted,  \* the outbounds in the configuration
  detour,   \* their detours
  edited    \* history: the store was edited since the build began

store == <<node, front>>
build == <<valid, todo, emitted, detour>>
vars == <<store, build, edited>>

NoDetour == [n \in Names |-> NoFront]

Init ==
  /\ node \in [Names -> Nodes \union {NoNode}]
  /\ front \in [Nodes -> Tags \union {NoFront}]
  /\ valid = {} /\ todo = {} /\ emitted = {}
  /\ detour = NoDetour
  /\ edited = FALSE

-----------------------------------------------------------------------------
Bound(n) == n \in Names /\ node[n] # NoNode

(* The front proxy behind a tag; a built-in tag and a name that is not     *)
(* bound end the chain.                                                    *)
FrontOf(t) == IF Bound(t) THEN front[node[t]] ELSE NoFront

(* The loop of resolveFrontProxyTag: the tags from which the chain, having *)
(* seen the tags of seen, meets a tag a second time.                       *)
Looping[seen \in SUBSET Tags] ==
  {t \in Tags : t \in seen \/ FrontOf(t) \in Looping[seen \union {t}]}

(* Variants: without the walk; without the look at the valid tags; a chain *)
(* of two fronts taken for a cycle.                                        *)
ResolveUnwalked(n, tags) ==
  IF FrontOf(n) \in tags \ {n} THEN FrontOf(n) ELSE NoFront
ResolveAnyTag(n, tags) ==
  IF FrontOf(n) # n /\ FrontOf(n) \notin Looping[{n}] THEN FrontOf(n) ELSE NoFront
ResolveOneHop(n, tags) ==
  IF FrontOf(n) \in tags \ {n} /\ FrontOf(FrontOf(n)) = NoFront
  THEN FrontOf(n) ELSE NoFront

(* resolveFrontProxyTag for the outbound n.                                *)
Resolve(n, tags) ==
  IF FrontOf(n) \in tags \ {n} /\ FrontOf(n) \notin Looping[{n}]
  THEN FrontOf(n) ELSE NoFront

-----------------------------------------------------------------------------
(* collectValidOutboundTags, before the first outbound is written.         *)
Collect ==
  /\ todo = {}
  /\ valid' = {n \in Names : Bound(n)} \union {Direct}
  /\ todo' = Names
  /\ emitted' = {} /\ detour' = NoDetour
  /\ edited' = FALSE
  /\ UNCHANGED store

(* Variant: an outbound that is written is not noted as a valid tag.       *)
EmitUnnoted(n) ==
  /\ n \in todo
  /\ todo' = todo \ {n}
  /\ IF Bound(n)
     THEN /\ emitted' = emitted \union {n}
          /\ detour' = [detour EXCEPT ![n] = Resolve(n, valid)]
     ELSE UNCHANGED <<emitted, detour>>
  /\ UNCHANGED <<store, edited, valid>>

(* One turn of the builder's loop; an outbound without a node is skipped.  *)
Emit(n) ==
  /\ n \in todo
  /\ todo' = todo \ {n}
  /\ IF Bound(n)
     THEN /\ emitted' = emitted \union {n}
          /\ detour' = [detour EXCEPT ![n] = Resolve(n, valid)]
          /\ valid' = valid \union {n}
     ELSE UNCHANGED <<emitted, detour, valid>>
  /\ UNCHANGED <<store, edited>>

(* saveNodeEdit and its callers: the front proxy of a node is edited.      *)
EditFront ==
  /\ \E nd \in Nodes, t \in Tags \union {NoFront} : front' = [front EXCEPT ![nd] = t]
  /\ edited' = TRUE
  /\ UNCHANGED <<node, build>>

(* An outbound is bound to another node, or to none.                       *)
Rebind ==
  /\ \E n \in Names, nd \in Nodes \union {NoNode} : node' = [node EXCEPT ![n] = nd]
  /\ edited' = TRUE
  /\ UNCHANGED <<front, build>>

Next == Collect \/ (\E n \in Names : Emit(n)) \/ EditFront \/ Rebind

Spec == Init /\ [][Next]_vars

-----------------------------------------------------------------------------
(* The valid tags hold every outbound that is in the configuration, also   *)
(* one that was bound after they were collected.                           *)
TypeOK ==
  /\ node \in [Names -> Nodes \union {NoNode}]
  /\ front \in [Nodes -> Tags \union {NoFront}]
  /\ emitted \subseteq valid \intersect Names
  /\ valid \subseteq Tags
  /\ todo \subseteq Names \ emitted
  /\ detour \in [Names -> Tags \union {NoFront}]
  /\ edited \in BOOLEAN

(* The configuration of a store that nobody edited meanwhile.              *)
Clean == todo = {} /\ emitted # {} /\ ~ edited

(* "防止 A→B→A 这类环导致内核无法建链" (engine.go:648): no outbound is dialled     *)
(* through itself, however long the chain, although each detour is decided *)
(* without a look at the detours of the others: the detours of any set of  *)
(* outbounds lead out of it somewhere.                                     *)
AcyclicDetours ==
  Clean => \A C \in (SUBSET Names) \ {{}} : \E n \in C : detour[n] \notin C

(* A detour names an outbound that is in the configuration, also one that  *)
(* is written later (engine.go:611).                                       *)
DetoursEmitted ==
  Clean => \A n \in emitted : detour[n] \in emitted \union {Direct, NoFront}

(* The chain of front proxies behind n never ends: it stays in a set of    *)
(* outbounds.                                                              *)
EndlessChain(n) ==
  \E C \in SUBSET Names : n \in C /\ \A m \in C : FrontOf(m) \in C

(* A front proxy is ignored, and so the node dialled directly, only if it  *)
(* is not bound or if the chain behind it runs into a cycle: chains of any *)
(* length are kept (TestResolveFrontProxyTagAllowsChain).                  *)
FrontDroppedOnlyOnCycle ==
  Clean => \A n \in emitted :
    detour[n] = NoFront /\ FrontOf(n) # NoFront
      => FrontOf(n) \notin emitted \union {Direct} \/ EndlessChain(n)
=============================================================================
